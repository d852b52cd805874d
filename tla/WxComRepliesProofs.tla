------------------------- MODULE WxComRepliesProofs -------------------------
(***************************************************************************)
(* Theorems about the reply queues of WxComReplies.tla, for any number of  *)
(* requests, callers, workers, messages and lost connections, and about    *)
(* the calls of RequestResponse.tla, which wait for a response as those    *)
(* wait for an acknowledgement, for any number of concurrent calls.        *)
(***************************************************************************)
EXTENDS WxComReplies, RequestResponse, FiniteSetTheorems, TLAPS

(* The groups of variables, with what a goroutine has in hand at each of   *)
(* its stages.                                                             *)
Holding == {"send", "register", "await", "failed", "return"}

BoundsOK == /\ reqOf \in Seq(Reqs) /\ Used <= MaxWork
            /\ losses \in 0..MaxLosses /\ ctx \in Nat /\ box \in [Items -> SUBSET Outs]
            /\ {ctxLive, alive, connected, authed, manual} \subseteq BOOLEAN
            /\ timers \subseteq Workers \X (1..Queued) /\ onWire \subseteq Workers \X (1..Queued)

QueuesOK == /\ queues \in [Reqs -> Seq(1..Queued)] /\ processing \subseteq Reqs
            /\ lastSent \in [Reqs -> 0..Queued]
            /\ \A r \in Reqs : /\ Len(queues[r]) <= QueueCap
                               /\ \A k \in 1..Len(queues[r]) : reqOf[queues[r][k]] = r

SenderAt(x, n) ==
  /\ x \in [pc : {"free", "enter", "check", "notify", "wait"}, item : 0..n]
  /\ x.pc \in {"check", "notify", "wait"} => x.item # 0

SendersOK == /\ sender = [s \in Senders |-> sender[s]]
             /\ \A s \in Senders : SenderAt(sender[s], Queued)

WorkerAt(x, of, now) ==
  /\ x \in [pc : {"off", "idle", "next", "clear"} \cup Holding, req : Reqs \cup {Nobody},
            item : 0..Len(of), ctx : 0..now, out : Outs \cup {"none"}]
  /\ x.pc \in {"off", "idle"} <=> x.req = Nobody
  /\ x.pc \in Holding => x.item # 0 /\ of[x.item] = x.req
  /\ x.pc = "return" => x.out # "none"

WorkersOK == /\ worker = [w \in Workers |-> worker[w]]
             /\ \A w \in Workers : WorkerAt(worker[w], reqOf, ctx)

(* An acknowledgement is registered for the message a worker waits for,    *)
(* who has not had an answer.                                              *)
AcksOK == /\ pending \in [Reqs -> (Workers \X Items) \cup {Nobody}]
          /\ ackBox \in [Workers -> SUBSET Outs]
          /\ \A r \in Reqs, w \in Workers : \A i \in Items : pending[r] = <<w, i>> =>
               /\ worker[w].pc = "await" /\ worker[w].item = i /\ worker[w].req = r
               /\ ackBox[w] = {}

ShapesInv == BoundsOK /\ QueuesOK /\ SendersOK /\ WorkersOK /\ AcksOK

-----------------------------------------------------------------------------
(* A request is marked while somebody has it, a worker or the sender who   *)
(* is about to wake one, and only one has.                                 *)
Waking(s, r) == sender[s].pc = "notify" /\ reqOf[sender[s].item] = r

Marked == \A r \in Reqs \ cleared :
  /\ \A w \in Workers : worker[w].req = r => r \in processing
  /\ \A s \in Senders : Waking(s, r) => r \in processing

OneHolder == \A r \in Reqs \ cleared :
  /\ \A v, w \in Workers : worker[v].req = r /\ worker[w].req = r => v = w
  /\ \A s, t \in Senders : Waking(s, r) /\ Waking(t, r) => s = t
  /\ \A w \in Workers, s \in Senders : ~(worker[w].req = r /\ Waking(s, r))

HolderInv == Marked /\ OneHolder

(* Its queue is in order and starts with the message in the worker's hand; *)
(* what was sent before is before all of it.                               *)
InHand(x) == x.pc \in {"send", "register", "await", "failed"}
Sent(w) == worker[w].pc \in {"register", "await", "failed"}

Rising == \A r \in Reqs \ cleared : \A k, l \in 1..Len(queues[r]) :
            k < l => queues[r][k] < queues[r][l]
HeadHeld == \A r \in Reqs \ cleared : \A w \in Workers :
  worker[w].req = r /\ InHand(worker[w]) =>
    Len(queues[r]) >= 1 /\ queues[r][1] = worker[w].item
Later == \A r \in Reqs \ cleared : \A k \in 1..Len(queues[r]) :
  \/ lastSent[r] < queues[r][k]
  \/ k = 1 /\ \E w \in Workers : worker[w].req = r /\ Sent(w)

SendInv == Rising /\ HeadHeld /\ Later /\ disorder \subseteq cleared

(* Unless an acknowledgement was given up, the frame of a request that may *)
(* still be acknowledged is that of the message its worker waits for.      *)
OwnFrame == \A r \in Reqs \ (cleared \cup givenUp) : \A w \in Workers, i \in Items :
  <<w, i>> \in onWire /\ reqOf[i] = r =>
    /\ worker[w].req = r /\ worker[w].item = i /\ worker[w].pc \in {"register", "await"}
    /\ worker[w].pc = "await" => pending[r] = <<w, i>>

AckInv == OwnFrame /\ mistaken \subseteq 1..Queued /\ AckMatches

-----------------------------------------------------------------------------
(* The steps, without what they are a part of.                             *)
LinkStep ==
  \/ Break \/ HeartbeatDead \/ ReadFails \/ LoopReturns \/ Cleanup \/ Wake \/ Connect \/ Dial
  \/ SendAuth \/ Disconnect \/ Close \/ UNCHANGED vars

LEMMA ReplySteps ==
  [Next]_vars =>
    \/ \E s \in Senders : \/ Begin(s) \/ Check(s) \/ Return(s)
                          \/ \E r \in Reqs : Enqueue(s, r)
                          \/ \E w \in Workers : Notify(s, w)
    \/ \E w \in Workers : \/ WorkerStops(w) \/ TakeNext(w) \/ ClearMark(w) \/ SendFrame(w)
                          \/ Register(w) \/ TakeAnswer(w) \/ Deliver(w) \/ TimerFires(w)
    \/ \E a \in timers : OnReplyAckTimeout(a)
    \/ \E f \in onWire : \E good \in BOOLEAN : HandleReplyAck(f, good)
    \/ ClearAcks \/ ClearQueues \/ ClearFlags \/ Authenticated \/ LinkStep
BY DEF Next, LoopClears, StopClears, LinkStep

(* What happens to the connection touches neither messages nor goroutines. *)
LEMMA LinkDoes ==
  ASSUME BoundsOK, LinkStep
  PROVE  /\ UNCHANGED <<queueVars, sender, itemVars, worker, ackVars, ctx, histVars>>
         /\ onWire' \in {onWire, {}}
         /\ {ctxLive, alive, connected, authed, manual}' \subseteq BOOLEAN
         /\ losses' \in 0..MaxLosses /\ Queued + losses' <= MaxWork
<1> USE WxComAssumption DEF BoundsOK, queueVars, itemVars, ackVars, ctxVars, linkVars, histVars
<1>0. Queued \in Nat
  BY DEF Queued
<1>1. CASE Break \/ HeartbeatDead \/ Disconnect
  <2>1. \/ losses' = losses
        \/ losses' = losses + 1 /\ losses < MaxLosses /\ Queued + losses < MaxWork
    BY <1>1 DEF Break, HeartbeatDead, Disconnect, CanLose, Used
  <2>2. losses' \in 0..MaxLosses /\ Queued + losses' <= MaxWork
    BY <1>0, <2>1 DEF Used
  <2>3. {ctxLive, alive, connected, authed, manual}' \subseteq BOOLEAN
    BY <1>1 DEF Break, HeartbeatDead, Disconnect
  <2>4. UNCHANGED <<queueVars, sender, itemVars, worker, ackVars, ctx, histVars>>
    BY <1>1 DEF Break, HeartbeatDead, Disconnect
  <2>5. onWire' \in {onWire, {}}
    BY <1>1 DEF Break, HeartbeatDead, Disconnect
  <2> QED BY <2>2, <2>3, <2>4, <2>5
<1>2. CASE Cleanup \/ Connect \/ Dial \/ Close
  BY <1>2 DEF Cleanup, Connect, Dial, Close, Used
<1>3. CASE ReadFails \/ LoopReturns \/ Wake \/ SendAuth \/ UNCHANGED vars
  BY <1>3 DEF ReadFails, LoopReturns, Wake, SendAuth, vars, Used
<1> QED BY <1>1, <1>2, <1>3 DEF LinkStep

(* Messages keep their number and their request.                           *)
LEMMA ReqOfSteps ==
  ASSUME BoundsOK, [Next]_vars
  PROVE  reqOf' = reqOf \/ \E s \in Senders, r \in Reqs : Enqueue(s, r)
<1>1. LinkStep => reqOf' = reqOf
  BY LinkDoes DEF itemVars
<1> QED BY <1>1, ReplySteps DEF Begin, Check, Return, Notify, WorkerStops, TakeNext, ClearMark,
      SendFrame, Register, TakeAnswer, Deliver, TimerFires, OnReplyAckTimeout, HandleReplyAck,
      ClearAcks, ClearQueues, ClearFlags, Authenticated, itemVars

LEMMA QueuedGrows ==
  ASSUME BoundsOK, [Next]_vars
  PROVE  /\ Queued \in Nat /\ Queued' \in Nat /\ Queued <= Queued' /\ Queued <= MaxWork
         /\ reqOf' \in Seq(Reqs) /\ \A i \in 1..Queued : reqOf'[i] = reqOf[i] /\ reqOf[i] \in Reqs
<1>1. CASE reqOf' = reqOf
  BY <1>1, WxComAssumption DEF BoundsOK, Queued, Used
<1>2. ASSUME NEW s \in Senders, NEW r \in Reqs, Enqueue(s, r), reqOf' # reqOf
      PROVE  /\ Queued \in Nat /\ Queued' \in Nat /\ Queued <= Queued' /\ Queued <= MaxWork
             /\ reqOf' \in Seq(Reqs)
             /\ \A i \in 1..Queued : reqOf'[i] = reqOf[i] /\ reqOf[i] \in Reqs
  <2>1. reqOf' = Append(reqOf, r)
    BY <1>2 DEF Enqueue
  <2> QED BY <2>1, WxComAssumption DEF BoundsOK, Queued, Used
<1> QED BY <1>1, <1>2, ReqOfSteps

LEMMA EnqueueDoes ==
  ASSUME BoundsOK, QueuesOK, NEW s \in Senders, NEW r \in Reqs, Enqueue(s, r), reqOf' # reqOf
  PROVE  /\ reqOf' = Append(reqOf, r) /\ Queued' = Queued + 1 /\ Queued \in Nat
         /\ reqOf'[Queued + 1] = r
         /\ queues' = [queues EXCEPT ![r] = Append(@, Queued + 1)] /\ Len(queues[r]) < QueueCap
         /\ sender' = [sender EXCEPT ![s] = [pc |-> "check", item |-> Queued + 1]]
<1>1. reqOf' = Append(reqOf, r) /\ Len(queues[r]) < QueueCap
  BY WxComAssumption DEF Enqueue, QueuesOK
<1>2. Queued' = Queued + 1 /\ Queued \in Nat /\ reqOf'[Queued + 1] = r
  BY <1>1 DEF Queued, BoundsOK
<1> QED BY <1>1, <1>2 DEF Enqueue

LEMMA BoundsStep == ShapesInv /\ [Next]_vars => BoundsOK'
<1> SUFFICES ASSUME ShapesInv, [Next]_vars PROVE BoundsOK'
  OBVIOUS
<1>0. BoundsOK
  BY DEF ShapesInv
<1>1. /\ Queued \in Nat /\ Queued' \in Nat /\ Queued <= Queued' /\ Queued <= MaxWork
      /\ reqOf' \in Seq(Reqs)
  BY <1>0, QueuedGrows
<1>2. /\ Used' <= MaxWork /\ losses' \in 0..MaxLosses
      /\ {ctxLive, alive, connected, authed, manual}' \subseteq BOOLEAN
  <2>1. CASE LinkStep
    <3>1. /\ losses' \in 0..MaxLosses /\ Queued + losses' <= MaxWork
          /\ {ctxLive, alive, connected, authed, manual}' \subseteq BOOLEAN
      BY <1>0, <2>1, LinkDoes
    <3>2. Queued' = Queued
      BY <1>0, <2>1, LinkDoes DEF itemVars, Queued
    <3> QED BY <3>1, <3>2 DEF Used
  <2>2. ASSUME NEW s \in Senders, NEW r \in Reqs, Enqueue(s, r), reqOf' # reqOf
        PROVE  Used' <= MaxWork
    <3>1. Queued' = Queued + 1 /\ losses' = losses /\ Used < MaxWork
      BY <1>0, <2>2, EnqueueDoes DEF Enqueue, linkVars, ShapesInv
    <3> QED BY <1>0, <1>1, <3>1, WxComAssumption DEF Used, BoundsOK
  <2>3. reqOf' = reqOf /\ losses' = losses => Used' <= MaxWork
    BY <1>0 DEF Used, Queued, BoundsOK
  <2>4. ~LinkStep => losses' = losses
    BY ReplySteps DEF Begin, Enqueue, Check, Return, Notify, WorkerStops, TakeNext, ClearMark,
      SendFrame, Register, TakeAnswer, Deliver, TimerFires, OnReplyAckTimeout, HandleReplyAck,
      ClearAcks, ClearQueues, ClearFlags, Authenticated, linkVars
  <2>5. ~LinkStep /\ ~Authenticated => UNCHANGED <<ctxLive, alive, connected, authed, manual>>
    <3>1. ASSUME NEW s \in Senders,
                 \/ Begin(s) \/ Check(s) \/ Return(s)
                 \/ \E r \in Reqs : Enqueue(s, r)
                 \/ \E w \in Workers : Notify(s, w)
          PROVE  UNCHANGED <<ctxLive, alive, connected, authed, manual>>
      BY <3>1 DEF Begin, Enqueue, Check, Return, Notify, linkVars, ctxVars
    <3>2. ASSUME NEW w \in Workers,
                 \/ WorkerStops(w) \/ TakeNext(w) \/ ClearMark(w) \/ SendFrame(w)
                 \/ Register(w) \/ TakeAnswer(w) \/ Deliver(w) \/ TimerFires(w)
          PROVE  UNCHANGED <<ctxLive, alive, connected, authed, manual>>
      BY <3>2 DEF WorkerStops, TakeNext, ClearMark, SendFrame, Register, TakeAnswer, Deliver,
          TimerFires, linkVars, ctxVars
    <3>3. ASSUME \/ \E a \in timers : OnReplyAckTimeout(a)
                 \/ \E f \in onWire : \E good \in BOOLEAN : HandleReplyAck(f, good)
                 \/ ClearAcks \/ ClearQueues \/ ClearFlags
          PROVE  UNCHANGED <<ctxLive, alive, connected, authed, manual>>
      BY <3>3 DEF OnReplyAckTimeout, HandleReplyAck, ClearAcks, ClearQueues, ClearFlags,
          linkVars, ctxVars
    <3> QED BY <3>1, <3>2, <3>3, ReplySteps
  <2>6. Authenticated => authed' = TRUE /\ ctxLive' = TRUE /\ UNCHANGED <<alive, connected, manual>>
    BY DEF Authenticated
  <2>7. ~LinkStep => {ctxLive, alive, connected, authed, manual}' \subseteq BOOLEAN
    BY <1>0, <2>5, <2>6 DEF BoundsOK
  <2> QED BY <1>0, <2>1, <2>2, <2>3, <2>4, <2>7, ReqOfSteps DEF BoundsOK
<1>3. ctx' \in Nat
  <2>1. Authenticated => ctx' = ctx + 1
    BY DEF Authenticated
  <2>2. LinkStep => ctx' = ctx
    BY <1>0, LinkDoes
  <2>3. ~Authenticated => ctx' = ctx
    BY <2>2, ReplySteps DEF Begin, Enqueue, Check, Return, Notify, WorkerStops,
        TakeNext, ClearMark, SendFrame, Register, TakeAnswer, Deliver, TimerFires,
        OnReplyAckTimeout, HandleReplyAck, ClearAcks, ClearQueues, ClearFlags, ctxVars
  <2> QED BY <1>0, <2>1, <2>3 DEF BoundsOK
<1>4. box' \in [Items -> SUBSET Outs]
  <2>1. ASSUME NEW w \in Workers, Deliver(w) PROVE box' \in [Items -> SUBSET Outs]
    <3>1. worker[w].item \in Items /\ worker[w].out \in Outs
      BY <1>1, <2>1, WxComAssumption
         DEF Deliver, ShapesInv, WorkersOK, WorkerAt, Queued, Holding, Items
    <3> QED BY <1>0, <2>1, <3>1 DEF Deliver, BoundsOK
  <2>2. ASSUME NEW s \in Senders, Return(s) PROVE box' \in [Items -> SUBSET Outs]
    BY <1>0, <2>2 DEF Return, BoundsOK
  <2>3. CASE ClearQueues
    BY <1>0, <2>3 DEF ClearQueues, BoundsOK, Outs
  <2>4. LinkStep => box' = box
    BY <1>0, LinkDoes DEF itemVars
  <2>5. CASE box' = box
    BY <1>0, <2>5 DEF BoundsOK
  <2> QED BY <2>1, <2>2, <2>3, <2>4, <2>5, ReplySteps DEF Begin, Enqueue, Check, Notify,
        WorkerStops, TakeNext, ClearMark, SendFrame, Register, TakeAnswer, TimerFires,
        OnReplyAckTimeout, HandleReplyAck, ClearAcks, ClearFlags, Authenticated, itemVars
<1>5. timers' \subseteq Workers \X (1..Queued') /\ onWire' \subseteq Workers \X (1..Queued')
  <2>1. /\ timers \subseteq Workers \X (1..Queued') /\ onWire \subseteq Workers \X (1..Queued')
    BY <1>0, <1>1 DEF BoundsOK
  <2>2. ASSUME NEW w \in Workers, TimerFires(w) \/ SendFrame(w)
        PROVE  /\ timers' \subseteq Workers \X (1..Queued')
               /\ onWire' \subseteq Workers \X (1..Queued')
    <3>1. worker[w].item \in 1..Queued'
      BY <1>1, <2>2 DEF TimerFires, SendFrame, ShapesInv, WorkersOK, WorkerAt, Queued, Holding
    <3>2. /\ timers' \subseteq timers \cup {<<w, worker[w].item>>}
          /\ onWire' \subseteq onWire \cup {<<w, worker[w].item>>}
      BY <2>2 DEF TimerFires, SendFrame, linkVars, ackVars
    <3> QED BY <2>1, <3>1, <3>2
  <2>3. timers' \subseteq timers /\ onWire' \subseteq onWire =>
          timers' \subseteq Workers \X (1..Queued') /\ onWire' \subseteq Workers \X (1..Queued')
    BY <2>1
  <2>4. LinkStep => timers' \subseteq timers /\ onWire' \subseteq onWire
    BY <1>0, LinkDoes DEF ackVars
  <2> HIDE DEF Queued
  <2> QED BY <2>2, <2>3, <2>4, ReplySteps DEF Begin, Enqueue, Check, Return, Notify, WorkerStops,
        TakeNext, ClearMark, Register, TakeAnswer, Deliver, OnReplyAckTimeout, HandleReplyAck,
        ClearAcks, ClearQueues, ClearFlags, Authenticated, ackVars, linkVars
<1> QED BY <1>1, <1>2, <1>3, <1>4, <1>5 DEF BoundsOK

-----------------------------------------------------------------------------
(* What each group of variables is changed by.                             *)
LEMMA QueueSteps ==
  ASSUME BoundsOK, [Next]_vars
  PROVE  \/ queues' = queues /\ reqOf' = reqOf
         \/ \E s \in Senders, r \in Reqs : Enqueue(s, r) /\ reqOf' # reqOf
         \/ \E w \in Workers : TakeAnswer(w)
         \/ ClearQueues
<1>1. LinkStep => queues' = queues /\ reqOf' = reqOf
  BY LinkDoes DEF itemVars, queueVars
<1>2. \A s \in Senders, r \in Reqs :
        Enqueue(s, r) => (queues' = queues /\ reqOf' = reqOf) \/ reqOf' # reqOf
  <2>1. Len(reqOf) \in Nat /\ \A r \in Reqs : Len(Append(reqOf, r)) = Len(reqOf) + 1
    BY DEF BoundsOK
  <2> QED BY <2>1 DEF Enqueue
<1> QED BY <1>1, <1>2, ReplySteps DEF Begin, Check, Return, Notify, WorkerStops, TakeNext,
      ClearMark, SendFrame, Register, Deliver, TimerFires, OnReplyAckTimeout, HandleReplyAck,
      ClearAcks, ClearFlags, Authenticated, itemVars, queueVars

LEMMA MarkSteps ==
  ASSUME BoundsOK, [Next]_vars
  PROVE  \/ processing' = processing
         \/ \E s \in Senders : Check(s)
         \/ \E w \in Workers : ClearMark(w)
         \/ ClearFlags
<1>1. LinkStep => processing' = processing
  BY LinkDoes DEF queueVars
<1> QED BY <1>1, ReplySteps DEF Begin, Enqueue, Return, Notify, WorkerStops, TakeNext,
      SendFrame, Register, TakeAnswer, Deliver, TimerFires, OnReplyAckTimeout, HandleReplyAck,
      ClearAcks, ClearQueues, Authenticated, queueVars

LEMMA SentSteps ==
  ASSUME BoundsOK, [Next]_vars
  PROVE  \/ lastSent' = lastSent /\ disorder' = disorder
         \/ \E w \in Workers : SendFrame(w)
<1>1. LinkStep => lastSent' = lastSent /\ disorder' = disorder
  BY LinkDoes DEF histVars
<1> QED BY <1>1, ReplySteps DEF Begin, Enqueue, Check, Return, Notify, WorkerStops, TakeNext,
      ClearMark, Register, TakeAnswer, Deliver, TimerFires, OnReplyAckTimeout, HandleReplyAck,
      ClearAcks, ClearQueues, ClearFlags, Authenticated, histVars

LEMMA SenderSteps ==
  ASSUME BoundsOK, [Next]_vars
  PROVE  \/ sender' = sender
         \/ \E s \in Senders : Begin(s) \/ Check(s) \/ Return(s)
         \/ \E s \in Senders, r \in Reqs : Enqueue(s, r)
         \/ \E s \in Senders, w \in Workers : Notify(s, w)
<1>1. LinkStep => sender' = sender
  BY LinkDoes
<1> QED BY <1>1, ReplySteps DEF WorkerStops, TakeNext, ClearMark, SendFrame, Register, TakeAnswer,
      Deliver, TimerFires, OnReplyAckTimeout, HandleReplyAck, ClearAcks, ClearQueues,
      ClearFlags, Authenticated

LEMMA WorkerSteps ==
  ASSUME BoundsOK, [Next]_vars
  PROVE  \/ worker' = worker /\ ctx' = ctx
         \/ \E s \in Senders, w \in Workers : Notify(s, w)
         \/ \E w \in Workers : \/ WorkerStops(w) \/ TakeNext(w) \/ ClearMark(w) \/ SendFrame(w)
                               \/ Register(w) \/ TakeAnswer(w) \/ Deliver(w)
         \/ Authenticated
<1>1. LinkStep => worker' = worker /\ ctx' = ctx
  BY LinkDoes
<1> QED BY <1>1, ReplySteps DEF Begin, Enqueue, Check, Return, TimerFires, OnReplyAckTimeout,
      HandleReplyAck, ClearAcks, ClearQueues, ClearFlags, ctxVars

LEMMA AckSteps ==
  ASSUME BoundsOK, [Next]_vars
  PROVE  \/ UNCHANGED <<pending, ackBox, mistaken, givenUp>>
         \/ \E w \in Workers : Register(w)
         \/ \E a \in timers : OnReplyAckTimeout(a)
         \/ \E f \in onWire : \E good \in BOOLEAN : HandleReplyAck(f, good)
         \/ ClearAcks
<1>1. LinkStep => UNCHANGED <<pending, ackBox, mistaken, givenUp>>
  BY LinkDoes DEF ackVars, histVars
<1>2. ASSUME NEW s \in Senders,
             \/ Begin(s) \/ Check(s) \/ Return(s)
             \/ \E r \in Reqs : Enqueue(s, r)
             \/ \E w \in Workers : Notify(s, w)
      PROVE  UNCHANGED <<pending, ackBox, mistaken, givenUp>>
  BY <1>2 DEF Begin, Enqueue, Check, Return, Notify, ackVars, histVars
<1>3. ASSUME NEW w \in Workers,
             \/ WorkerStops(w) \/ TakeNext(w) \/ ClearMark(w) \/ SendFrame(w)
             \/ TakeAnswer(w) \/ Deliver(w) \/ TimerFires(w)
      PROVE  UNCHANGED <<pending, ackBox, mistaken, givenUp>>
  BY <1>3 DEF WorkerStops, TakeNext, ClearMark, SendFrame, TakeAnswer, Deliver, TimerFires,
      ackVars, histVars
<1>4. ClearQueues \/ ClearFlags \/ Authenticated => UNCHANGED <<pending, ackBox, mistaken, givenUp>>
  BY DEF ClearQueues, ClearFlags, Authenticated, ackVars, histVars
<1> QED BY <1>1, <1>2, <1>3, <1>4, ReplySteps

LEMMA ClearedGrows ==
  ASSUME BoundsOK, [Next]_vars
  PROVE  /\ cleared \subseteq cleared'
         /\ cleared' = cleared \/ ClearQueues \/ ClearFlags
<1>1. LinkStep => cleared' = cleared
  BY LinkDoes DEF histVars
<1> QED BY <1>1, ReplySteps DEF Begin, Enqueue, Check, Return, Notify, WorkerStops, TakeNext,
      ClearMark, SendFrame, Register, TakeAnswer, Deliver, TimerFires, OnReplyAckTimeout,
      HandleReplyAck, ClearAcks, ClearQueues, ClearFlags, Authenticated, histVars

-----------------------------------------------------------------------------
LEMMA TailOf ==
  ASSUME NEW S, NEW q \in Seq(S), q # <<>>
  PROVE  /\ Tail(q) \in Seq(S) /\ Len(q) \in Nat \ {0} /\ Len(Tail(q)) = Len(q) - 1
         /\ Head(q) = q[1] /\ q[1] \in S
         /\ \A k \in 1..Len(Tail(q)) : Tail(q)[k] = q[k + 1] /\ k + 1 \in 1..Len(q)
OBVIOUS

(* The worker takes its message, or another, off the queue.                *)
LEMMA TakesHead ==
  ASSUME ShapesInv, NEW w \in Workers, TakeAnswer(w)
  PROVE  /\ worker[w].pc \in {"await", "failed"} /\ worker[w].req \in Reqs
         /\ \E x \in Outs : worker' = [worker EXCEPT ![w].pc = "return", ![w].out = x]
         /\ queues' = [queues EXCEPT ![worker[w].req] = IF @ = <<>> THEN @ ELSE Tail(@)]
         /\ UNCHANGED <<processing, sender, reqOf, cleared, givenUp>>
<1>1. worker[w].pc \in {"await", "failed"}
  BY DEF TakeAnswer
<1>2. worker[w].req \in Reqs /\ ackBox[w] \subseteq Outs
  BY <1>1 DEF ShapesInv, WorkersOK, WorkerAt, Queued, AcksOK
<1> QED BY <1>1, <1>2 DEF TakeAnswer, itemVars, Outs

LEMMA ElementOf ==
  ASSUME NEW S, NEW s \in Seq(S), NEW k \in 1..Len(s)
  PROVE  s[k] \in S
OBVIOUS

LEMMA QueuesStep == ShapesInv /\ [Next]_vars => QueuesOK'
<1> SUFFICES ASSUME ShapesInv, [Next]_vars PROVE QueuesOK'
  OBVIOUS
<1>0. BoundsOK /\ QueuesOK
  BY DEF ShapesInv
<1>1. /\ Queued \in Nat /\ Queued' \in Nat /\ Queued <= Queued'
      /\ \A i \in 1..Queued : reqOf'[i] = reqOf[i] /\ reqOf[i] \in Reqs
  BY <1>0, QueuedGrows
<1>2. processing' \subseteq Reqs
  <2>1. ASSUME NEW s \in Senders, Check(s) PROVE processing' \subseteq Reqs
    <3>1. sender[s].item \in 1..Queued
      BY <1>1, <2>1 DEF Check, ShapesInv, SendersOK, SenderAt
    <3> QED BY <1>0, <1>1, <2>1, <3>1 DEF Check, QueuesOK
  <2> QED BY <1>0, <2>1, MarkSteps DEF QueuesOK, ClearMark, ClearFlags
<1>3. lastSent' \in [Reqs -> 0..Queued']
  <2>1. ASSUME NEW w \in Workers, SendFrame(w) PROVE lastSent' \in [Reqs -> 0..Queued]
    <3>1. worker[w].item \in 0..Queued
      BY <2>1 DEF ShapesInv, WorkersOK, WorkerAt, Queued
    <3>2. \/ lastSent' = lastSent
          \/ lastSent' = [lastSent EXCEPT ![worker[w].req] = worker[w].item]
      BY <2>1 DEF SendFrame
    <3> QED BY <1>0, <3>1, <3>2 DEF QueuesOK
  <2>2. lastSent' \in [Reqs -> 0..Queued]
    BY <1>0, <2>1, SentSteps DEF QueuesOK
  <2> QED BY <1>1, <2>2
<1>4. \A r \in Reqs : queues[r] \in Seq(1..Queued') /\ Len(queues[r]) \in Nat
  BY <1>0, <1>1 DEF QueuesOK
<1> DEFINE Right ==
      /\ queues' \in [Reqs -> Seq(1..Queued')]
      /\ \A p \in Reqs : /\ Len(queues'[p]) <= QueueCap
                         /\ \A k \in 1..Len(queues'[p]) : reqOf'[queues'[p][k]] = p
<1>5. Right
  <2>1. CASE queues' = queues /\ reqOf' = reqOf
    BY <1>0, <2>1 DEF QueuesOK, Queued
  <2>2. ASSUME NEW s \in Senders, NEW r \in Reqs, Enqueue(s, r), reqOf' # reqOf
        PROVE  Right
    <3>1. /\ Queued' = Queued + 1 /\ reqOf'[Queued + 1] = r /\ Len(queues[r]) < QueueCap
          /\ queues' = [queues EXCEPT ![r] = Append(@, Queued + 1)]
      BY <1>0, <2>2, EnqueueDoes
    <3>2. /\ Append(queues[r], Queued + 1) \in Seq(1..Queued')
          /\ Len(Append(queues[r], Queued + 1)) = Len(queues[r]) + 1
          /\ \A k \in 1..Len(queues[r]) : Append(queues[r], Queued + 1)[k] = queues[r][k]
          /\ Append(queues[r], Queued + 1)[Len(queues[r]) + 1] = Queued + 1
      BY <1>1, <1>4, <3>1
    <3>3. /\ queues' \in [Reqs -> Seq(1..Queued')]
          /\ queues'[r] = Append(queues[r], Queued + 1)
          /\ \A p \in Reqs \ {r} : queues'[p] = queues[p]
      <4> DEFINE n == Append(queues[r], Queued + 1)
      <4>1. queues' = [queues EXCEPT ![r] = n] /\ n \in Seq(1..Queued')
        BY <3>1, <3>2
      <4>2. queues \in [Reqs -> Seq(1..Queued')]
        BY <1>0, <1>4 DEF QueuesOK
      <4> HIDE DEF n
      <4>3. /\ queues' \in [Reqs -> Seq(1..Queued')] /\ queues'[r] = n
            /\ \A p \in Reqs \ {r} : queues'[p] = queues[p]
        BY <4>1, <4>2
      <4> QED BY <4>3 DEF n
    <3>4. ASSUME NEW p \in Reqs, NEW k \in 1..Len(queues[p]) PROVE reqOf'[queues[p][k]] = p
      <4>1. queues[p] \in Seq(1..Queued) /\ reqOf[queues[p][k]] = p
        BY <1>0 DEF QueuesOK
      <4>2. queues[p][k] \in 1..Queued
        BY <4>1, ElementOf, Zenon
      <4>3. reqOf'[queues[p][k]] = reqOf[queues[p][k]]
        BY <1>1, <4>2, Zenon
      <4> QED BY <4>1, <4>3
    <3>5. Len(queues'[r]) <= QueueCap /\ \A k \in 1..Len(queues'[r]) : reqOf'[queues'[r][k]] = r
      <4>1. Len(queues'[r]) = Len(queues[r]) + 1 /\ Len(queues'[r]) <= QueueCap
        BY <1>4, <3>1, <3>2, <3>3, WxComAssumption
      <4>2. ASSUME NEW k \in 1..Len(queues'[r]) PROVE reqOf'[queues'[r][k]] = r
        <5>1. CASE k = Len(queues[r]) + 1
          BY <3>1, <3>2, <3>3, <5>1
        <5>2. CASE k \in 1..Len(queues[r])
          BY <3>2, <3>3, <3>4, <5>2
        <5> QED BY <1>4, <4>1, <5>1, <5>2
      <4> QED BY <4>1, <4>2
    <3>6. \A p \in Reqs \ {r} :
             /\ Len(queues'[p]) <= QueueCap
             /\ \A k \in 1..Len(queues'[p]) : reqOf'[queues'[p][k]] = p
      BY <1>0, <3>3, <3>4 DEF QueuesOK
    <3> QED BY <3>3, <3>5, <3>6
  <2>3. ASSUME NEW w \in Workers, TakeAnswer(w) PROVE Right
    <3> DEFINE r == worker[w].req
               q == queues[r]
    <3>1. /\ r \in Reqs /\ reqOf' = reqOf
          /\ queues' = [queues EXCEPT ![r] = IF q = <<>> THEN q ELSE Tail(q)]
      BY <2>3, TakesHead
    <3>2. q \in Seq(1..Queued) /\ Queued' = Queued
      BY <1>0, <3>1 DEF QueuesOK, Queued
    <3>3. \A p \in Reqs \ {r} : queues'[p] = queues[p]
      BY <1>0, <3>1 DEF QueuesOK
    <3>4. queues'[r] = IF q = <<>> THEN q ELSE Tail(q)
      BY <1>0, <3>1 DEF QueuesOK
    <3>5. /\ queues'[r] \in Seq(1..Queued) /\ Len(queues'[r]) <= QueueCap
          /\ \A k \in 1..Len(queues'[r]) : reqOf[queues'[r][k]] = r
      <4>1. CASE q = <<>>
        BY <1>0, <3>1, <3>2, <3>4, <4>1 DEF QueuesOK
      <4>2. CASE q # <<>>
        <5>1. /\ Tail(q) \in Seq(1..Queued) /\ Len(Tail(q)) = Len(q) - 1 /\ Len(q) \in Nat
              /\ \A k \in 1..Len(Tail(q)) : Tail(q)[k] = q[k + 1] /\ k + 1 \in 1..Len(q)
          BY <3>2, <4>2, TailOf
        <5>2. Len(q) <= QueueCap /\ \A k \in 1..Len(q) : reqOf[q[k]] = r
          BY <1>0, <3>1 DEF QueuesOK
        <5> HIDE DEF q, r
        <5> QED BY <3>4, <4>2, <5>1, <5>2, WxComAssumption
      <4> QED BY <4>1, <4>2
    <3>6. queues' \in [Reqs -> Seq(1..Queued')]
      BY <1>0, <3>1, <3>2, <3>4, <3>5 DEF QueuesOK
    <3> HIDE DEF q
    <3> QED BY <1>0, <3>1, <3>3, <3>5, <3>6 DEF QueuesOK
  <2>4. CASE ClearQueues
    BY <1>0, <1>1, <2>4, WxComAssumption DEF ClearQueues
  <2> QED BY <1>0, <2>1, <2>2, <2>3, <2>4, QueueSteps
<1> QED BY <1>2, <1>3, <1>5 DEF QueuesOK

-----------------------------------------------------------------------------
LEMMA SendersStep == ShapesInv /\ [Next]_vars => SendersOK'
<1> SUFFICES ASSUME ShapesInv, [Next]_vars PROVE SendersOK'
  OBVIOUS
<1>0. BoundsOK /\ SendersOK /\ QueuesOK
  BY DEF ShapesInv
<1>1. Queued \in Nat /\ Queued' \in Nat /\ Queued <= Queued'
  BY <1>0, QueuedGrows
<1>2. sender' = [s \in Senders |-> sender'[s]]
  BY <1>0, SenderSteps DEF SendersOK, Begin, Check, Return, Enqueue, Notify
<1>3. ASSUME NEW t \in Senders PROVE SenderAt(sender'[t], Queued')
  <2>1. SenderAt(sender[t], Queued) /\ SenderAt(sender[t], Queued')
    BY <1>0, <1>1 DEF SendersOK, SenderAt
  <2>2. SenderAt(Resting, Queued')
    BY <1>1 DEF Resting, SenderAt
  <2>3. ASSUME NEW s \in Senders, Begin(s) \/ Check(s) PROVE SenderAt(sender'[t], Queued')
    <3>1. \E p \in {"enter", "notify", "wait"} :
            /\ sender' = [sender EXCEPT ![s].pc = p]
            /\ p # "enter" => sender[s].pc = "check"
      BY <2>3 DEF Begin, Check
    <3>2. t # s => sender'[t] = sender[t]
      BY <1>0, <3>1 DEF SendersOK
    <3>3. t = s => SenderAt(sender'[t], Queued')
      BY <1>0, <2>1, <3>1 DEF SendersOK, SenderAt
    <3> QED BY <2>1, <3>2, <3>3
  <2>4. ASSUME NEW s \in Senders, Return(s) PROVE SenderAt(sender'[t], Queued')
    BY <1>0, <2>1, <2>2, <2>4 DEF Return, SendersOK
  <2>5. ASSUME NEW s \in Senders, NEW r \in Reqs, Enqueue(s, r)
        PROVE  SenderAt(sender'[t], Queued')
    <3>1. CASE reqOf' # reqOf
      <4>1. SenderAt([pc |-> "check", item |-> Queued + 1], Queued')
        BY <1>0, <1>1, <2>5, <3>1, EnqueueDoes DEF SenderAt
      <4> QED BY <1>0, <2>1, <2>5, <3>1, <4>1, EnqueueDoes DEF SendersOK
    <3>2. CASE reqOf' = reqOf
      <4>1. Len(Append(reqOf, r)) # Len(reqOf)
        BY <1>0 DEF BoundsOK
      <4>2. sender' = [sender EXCEPT ![s] = Resting]
        BY <2>5, <3>2, <4>1 DEF Enqueue
      <4> QED BY <1>0, <2>1, <2>2, <4>2 DEF SendersOK
    <3> QED BY <3>1, <3>2
  <2>6. ASSUME NEW s \in Senders, NEW w \in Workers, Notify(s, w)
        PROVE  SenderAt(sender'[t], Queued')
    <3>1. t # s => sender'[t] = sender[t]
      BY <1>0, <2>6 DEF Notify, SendersOK
    <3>2. t = s => SenderAt(sender'[t], Queued')
      BY <1>0, <2>1, <2>6 DEF Notify, SendersOK, SenderAt
    <3> QED BY <2>1, <3>1, <3>2
  <2> QED BY <1>0, <2>1, <2>3, <2>4, <2>5, <2>6, SenderSteps
<1> QED BY <1>2, <1>3 DEF SendersOK

LEMMA WorkerDoes ==
  ASSUME BoundsOK, WorkersOK, [Next]_vars, NEW v \in Workers
  PROVE  \/ worker'[v] = worker[v]
         \/ \E s \in Senders : Notify(s, v)
         \/ \/ WorkerStops(v) \/ TakeNext(v) \/ ClearMark(v) \/ SendFrame(v)
            \/ Register(v) \/ TakeAnswer(v) \/ Deliver(v)
         \/ Authenticated
<1>1. ASSUME NEW w \in Workers \ {v},
             \/ \E s \in Senders : Notify(s, w)
             \/ \/ WorkerStops(w) \/ TakeNext(w) \/ ClearMark(w) \/ SendFrame(w)
                \/ Register(w) \/ TakeAnswer(w) \/ Deliver(w)
      PROVE  worker'[v] = worker[v]
  BY <1>1 DEF WorkersOK, Notify, WorkerStops, TakeNext, ClearMark, SendFrame, Register,
      TakeAnswer, Deliver
<1> QED BY SMTT(30), <1>1, WorkerSteps

LEMMA WorkerMoves ==
  ASSUME NEW x, NEW of, NEW now, WorkerAt(x, of, now), NEW p, NEW i,
         NEW y, y = [x EXCEPT !.pc = p, !.item = i]
  PROVE  y = [pc |-> p, req |-> x.req, item |-> i, ctx |-> x.ctx, out |-> x.out]
BY DEF WorkerAt

LEMMA IdleIs ==
  ASSUME NEW c, NEW y, y = Idle(c)
  PROVE  y = [pc |-> "idle", req |-> Nobody, item |-> 0, ctx |-> c, out |-> "none"]
BY DEF Idle, Off

LEMMA WorkersStep == ShapesInv /\ [Next]_vars => WorkersOK'
<1> SUFFICES ASSUME ShapesInv, [Next]_vars PROVE WorkersOK'
  OBVIOUS
<1> USE DEF Queued
<1>0. BoundsOK /\ SendersOK /\ QueuesOK /\ WorkersOK /\ AcksOK
  BY DEF ShapesInv
<1>1. /\ Queued \in Nat /\ Queued' \in Nat /\ Queued <= Queued'
      /\ \A i \in 1..Queued : reqOf'[i] = reqOf[i] /\ reqOf[i] \in Reqs
  BY <1>0, QueuedGrows
<1>2. worker' = [w \in Workers |-> worker'[w]]
  <2>1. Authenticated => worker' = [w \in Workers |-> worker'[w]]
    BY DEF Authenticated
  <2> QED BY <1>0, <2>1, WorkerSteps DEF WorkersOK, Notify, WorkerStops, TakeNext, ClearMark,
        SendFrame, Register, TakeAnswer, Deliver
<1>3. ctx \in Nat /\ ctx' \in Nat /\ ctx <= ctx'
  <2>1. Authenticated => ctx' = ctx + 1
    BY DEF Authenticated
  <2>2. ~Authenticated => ctx' = ctx
    BY <1>0, WorkerSteps DEF Notify, WorkerStops, TakeNext, ClearMark, SendFrame, Register,
        TakeAnswer, Deliver, ctxVars
  <2> QED BY <1>0, <2>1, <2>2 DEF BoundsOK
<1>4. \A c \in 0..ctx' : WorkerAt(Idle(c), reqOf', ctx') /\ WorkerAt(Off, reqOf', ctx')
  <2>1. ASSUME NEW c \in 0..ctx', NEW p \in {"off", "idle"}
        PROVE  WorkerAt([pc |-> p, req |-> Nobody, item |-> 0, ctx |-> c, out |-> "none"],
                        reqOf', ctx')
    BY <1>1, <1>3 DEF WorkerAt, Holding
  <2>2. \A c : Idle(c) = [pc |-> "idle", req |-> Nobody, item |-> 0, ctx |-> c, out |-> "none"]
    BY IdleIs
  <2>3. 0 \in 0..ctx'
    BY <1>3
  <2> QED BY <2>1, <2>2, <2>3 DEF Off
<1>5. ASSUME NEW v \in Workers PROVE WorkerAt(worker'[v], reqOf', ctx')
  <2>1. WorkerAt(worker[v], reqOf, ctx)
    BY <1>0 DEF WorkersOK
  <2>2. WorkerAt(worker[v], reqOf', ctx')
    BY <1>1, <1>3, <2>1 DEF WorkerAt, Holding
  <2>3. ASSUME NEW s \in Senders, Notify(s, v) PROVE WorkerAt(worker'[v], reqOf', ctx')
    <3>1. reqOf[sender[s].item] \in Reqs
      BY <1>0, <1>1, <2>3 DEF Notify, SendersOK, SenderAt
    <3> DEFINE x == [worker[v] EXCEPT !.pc = "next", !.req = reqOf[sender[s].item]]
    <3>2. worker'[v] = x
      BY <1>0, <2>3 DEF Notify, WorkersOK
    <3>3. WorkerAt(x, reqOf', ctx')
      BY <2>2, <3>1, WxComAssumption DEF WorkerAt, Holding
    <3> QED BY <3>2, <3>3
  <2>4. CASE WorkerStops(v) \/ ClearMark(v)
    BY <1>0, <1>3, <1>4, <2>4 DEF WorkerStops, ClearMark, WorkersOK
  <2>5. CASE TakeNext(v)
    <3> DEFINE r == worker[v].req
    <3>1. r \in Reqs
      BY <2>1, <2>5 DEF TakeNext, WorkerAt
    <3>2. CASE queues[r] = <<>>
      <4>1. worker'[v] = [worker[v] EXCEPT !.pc = "clear", !.item = 0]
        BY <1>0, <2>5, <3>2 DEF TakeNext, WorkersOK
      <4>2. worker[v].pc = "next" /\ 0 \in 0..Len(reqOf')
        BY <1>1, <2>5 DEF TakeNext
      <4> QED BY <2>2, <4>1, <4>2, WorkerMoves DEF WorkerAt, Holding
    <3>3. CASE queues[r] # <<>>
      <4>1. worker'[v] = [worker[v] EXCEPT !.pc = "send", !.item = Head(queues[r])]
        BY <1>0, <2>5, <3>3 DEF TakeNext, WorkersOK
      <4>2. queues[r] \in Seq(1..Queued) /\ \A k \in 1..Len(queues[r]) : reqOf[queues[r][k]] = r
        BY <1>0, <3>1 DEF QueuesOK
      <4>3. Head(queues[r]) \in 1..Queued /\ reqOf'[Head(queues[r])] = r
        BY <1>1, <3>3, <4>2, TailOf
      <4>4. /\ worker[v].pc = "next" /\ Head(queues[r]) \in 0..Len(reqOf')
            /\ Head(queues[r]) # 0 /\ reqOf'[Head(queues[r])] = worker[v].req
        BY <1>1, <2>5, <4>3 DEF TakeNext
      <4> QED BY <2>2, <4>1, <4>4, WorkerMoves DEF WorkerAt, Holding
    <3> QED BY <3>2, <3>3
  <2>6. CASE SendFrame(v) \/ Register(v)
    <3>1. \E p \in {"register", "failed", "await"} : worker'[v] = [worker[v] EXCEPT !.pc = p]
      BY <1>0, <2>6 DEF SendFrame, Register, WorkersOK
    <3>2. worker[v].pc \in {"send", "register"}
      BY <2>6 DEF SendFrame, Register
    <3> QED BY <2>2, <3>1, <3>2 DEF WorkerAt, Holding
  <2>7. CASE TakeAnswer(v)
    <3>1. /\ worker[v].pc \in {"await", "failed"}
          /\ \E x \in Outs : worker' = [worker EXCEPT ![v].pc = "return", ![v].out = x]
      BY <2>7, TakesHead
    <3>2. \E x \in Outs : worker'[v] = [worker[v] EXCEPT !.pc = "return", !.out = x]
      BY <1>0, <3>1 DEF WorkersOK
    <3> QED BY <2>2, <3>1, <3>2 DEF WorkerAt, Holding, Outs
  <2>8. CASE Deliver(v)
    <3>1. worker'[v] = [worker[v] EXCEPT !.pc = "next", !.item = 0, !.out = "none"]
      BY <1>0, <2>8 DEF Deliver, WorkersOK
    <3>2. 0 \in 0..Len(reqOf') /\ worker[v].pc = "return"
      BY <1>1, <2>8 DEF Deliver
    <3>3. worker[v].req # Nobody
      BY <2>2, <3>2 DEF WorkerAt
    <3>4. worker'[v] = [pc |-> "next", req |-> worker[v].req, item |-> 0, ctx |-> worker[v].ctx,
                        out |-> "none"]
      BY <2>2, <3>1 DEF WorkerAt
    <3> QED BY <2>2, <3>2, <3>3, <3>4 DEF WorkerAt, Holding
  <2>9. CASE Authenticated
    <3>1. worker'[v] = worker[v] \/ worker'[v] = Idle(ctx')
      BY <2>9 DEF Authenticated
    <3> QED BY <1>3, <1>4, <2>2, <3>1
  <2> QED BY <1>0, <2>2, <2>3, <2>4, <2>5, <2>6, <2>7, <2>8, <2>9, WorkerDoes
<1> QED BY <1>2, <1>5 DEF WorkersOK

-----------------------------------------------------------------------------
(* A worker that waits for an acknowledgement goes on only with an answer. *)
LEMMA AwaitKept ==
  ASSUME ShapesInv, [Next]_vars, NEW v \in Workers, worker[v].pc = "await"
  PROVE  worker'[v] = worker[v] \/ (TakeAnswer(v) /\ ackBox[v] # {})
<1>0. BoundsOK /\ WorkersOK
  BY DEF ShapesInv
<1>1. Authenticated => worker'[v] = worker[v]
  BY DEF Authenticated, Stopped
<1>2. TakeAnswer(v) => ackBox[v] # {}
  BY DEF TakeAnswer
<1> QED BY <1>0, <1>1, <1>2, WorkerDoes DEF Notify, WorkerStops, TakeNext, ClearMark, SendFrame,
      Register, Deliver

LEMMA AcksStep == ShapesInv /\ [Next]_vars => AcksOK'
<1> SUFFICES ASSUME ShapesInv, [Next]_vars PROVE AcksOK'
  OBVIOUS
<1>0. BoundsOK /\ WorkersOK /\ AcksOK
  BY DEF ShapesInv
<1>1. /\ Queued \in Nat /\ Queued <= MaxWork /\ MaxWork \in Nat
      /\ \A i \in 1..Queued : reqOf[i] \in Reqs
  BY <1>0, QueuedGrows, WxComAssumption
<1> DEFINE Registered(p, b, at, r, w, i) ==
      p[r] = <<w, i>> => at[w].pc = "await" /\ at[w].item = i /\ at[w].req = r /\ b[w] = {}
<1>2. /\ pending \in [Reqs -> (Workers \X Items) \cup {Nobody}]
      /\ ackBox \in [Workers -> SUBSET Outs]
      /\ \A r \in Reqs, w \in Workers :
           \A i \in Items : Registered(pending, ackBox, worker, r, w, i)
  BY <1>0 DEF AcksOK
<1>3. \A w \in Workers : WorkerAt(worker[w], reqOf, ctx)
  BY <1>0 DEF WorkersOK
<1>4. CASE UNCHANGED <<pending, ackBox>>
  <2>1. ASSUME NEW r \in Reqs, NEW w \in Workers, NEW i \in Items
        PROVE  Registered(pending', ackBox', worker', r, w, i)
    BY <1>2, <1>4, <2>1, AwaitKept
  <2> QED BY <1>2, <1>4, <2>1 DEF AcksOK
<1>5. ASSUME NEW v \in Workers, Register(v) PROVE AcksOK'
  <2>1. /\ worker[v].req \in Reqs /\ worker[v].item \in Items
    BY <1>1, <1>3, <1>5 DEF Register, WorkerAt, Holding, Items, Queued
  <2>2. /\ pending' = [pending EXCEPT ![worker[v].req] = <<v, worker[v].item>>]
        /\ ackBox' = [ackBox EXCEPT ![v] = {}] /\ worker[v].pc = "register"
    BY <1>5 DEF Register
  <2>3. /\ worker'[v].pc = "await" /\ worker'[v].item = worker[v].item
        /\ worker'[v].req = worker[v].req
        /\ \A w \in Workers \ {v} : worker'[w] = worker[w]
    BY <1>0, <1>3, <1>5 DEF Register, WorkersOK, WorkerAt
  <2>4. ASSUME NEW r \in Reqs, NEW w \in Workers, NEW i \in Items
        PROVE  Registered(pending', ackBox', worker', r, w, i)
    <3>1. CASE r = worker[v].req
      <4>1. pending'[r] = <<v, worker[v].item>> /\ ackBox'[v] = {}
        BY <1>2, <2>2, <3>1
      <4> QED BY <2>3, <3>1, <4>1
    <3>2. CASE r # worker[v].req /\ w # v
      BY <1>2, <2>2, <2>3, <3>2
    <3>3. CASE r # worker[v].req /\ w = v
      BY <1>2, <2>2, <3>3
    <3> QED BY <3>1, <3>2, <3>3
  <2>5. /\ pending' \in [Reqs -> (Workers \X Items) \cup {Nobody}]
        /\ ackBox' \in [Workers -> SUBSET Outs]
    BY <1>2, <2>1, <2>2
  <2> QED BY <2>4, <2>5 DEF AcksOK
<1>6. ASSUME NEW a \in timers, OnReplyAckTimeout(a) PROVE AcksOK'
  <2> DEFINE q == reqOf[a[2]]
  <2>1. a[1] \in Workers /\ a[2] \in 1..Queued /\ q \in Reqs
    BY <1>0, <1>1 DEF BoundsOK
  <2>2. /\ pending' = [pending EXCEPT ![q] = Nobody] /\ worker' = worker
        /\ ackBox' = IF worker[a[1]].item = a[2] THEN [ackBox EXCEPT ![a[1]] = @ \cup {"err"}]
                                                 ELSE ackBox
    BY <1>6 DEF OnReplyAckTimeout
  <2>3. /\ pending' \in [Reqs -> (Workers \X Items) \cup {Nobody}]
        /\ ackBox' \in [Workers -> SUBSET Outs]
    BY <1>2, <2>1, <2>2 DEF Outs
  <2>4. ASSUME NEW r \in Reqs, NEW w \in Workers, NEW i \in Items
        PROVE  Registered(pending', ackBox', worker', r, w, i)
    <3> SUFFICES ASSUME pending'[r] = <<w, i>>
                 PROVE  worker[w].pc = "await" /\ worker[w].item = i /\ worker[w].req = r
                        /\ ackBox'[w] = {}
      BY <2>2
    <3>1. r # q /\ pending[r] = <<w, i>>
      <4>1. <<w, i>> # Nobody
        BY WxComAssumption DEF Items
      <4>2. pending'[r] = IF r = q THEN Nobody ELSE pending[r]
        BY <1>2, <2>2
      <4> QED BY <4>1, <4>2
    <3>2. worker[w].pc = "await" /\ worker[w].item = i /\ worker[w].req = r /\ ackBox[w] = {}
      BY <1>2, <3>1
    <3>3. reqOf[worker[w].item] = worker[w].req
      BY <1>3, <3>2 DEF WorkerAt, Holding
    <3>4. ~(w = a[1] /\ i = a[2])
      BY <3>1, <3>2, <3>3
    <3> QED BY <1>2, <2>1, <2>2, <3>2, <3>4
  <2> QED BY <2>3, <2>4 DEF AcksOK
<1>7. ASSUME NEW f \in onWire, NEW good \in BOOLEAN, HandleReplyAck(f, good) PROVE AcksOK'
  <2> DEFINE q == reqOf[f[2]]
             a == pending[q]
             x == IF good THEN "ok" ELSE "err"
  <2>1. q \in Reqs
    BY <1>0, <1>1 DEF BoundsOK
  <2>2. /\ pending' = [pending EXCEPT ![q] = Nobody] /\ worker' = worker
        /\ \/ ackBox' = ackBox /\ a = Nobody
           \/ ackBox' = [ackBox EXCEPT ![a[1]] = @ \cup {x}] /\ a # Nobody
    BY <1>7 DEF HandleReplyAck
  <2>3. x \in Outs
    BY DEF Outs
  <2>4. /\ pending' \in [Reqs -> (Workers \X Items) \cup {Nobody}]
        /\ ackBox' \in [Workers -> SUBSET Outs]
    BY <1>2, <2>1, <2>2, <2>3
  <2>5. ASSUME NEW r \in Reqs, NEW w \in Workers, NEW i \in Items
        PROVE  Registered(pending', ackBox', worker', r, w, i)
    <3> SUFFICES ASSUME pending'[r] = <<w, i>>
                 PROVE  worker[w].pc = "await" /\ worker[w].item = i /\ worker[w].req = r
                        /\ ackBox'[w] = {}
      BY <2>2
    <3>1. r # q /\ pending[r] = <<w, i>>
      <4>1. <<w, i>> # Nobody
        BY WxComAssumption DEF Items
      <4>2. pending'[r] = IF r = q THEN Nobody ELSE pending[r]
        BY <1>2, <2>2
      <4> QED BY <4>1, <4>2
    <3>2. worker[w].pc = "await" /\ worker[w].item = i /\ worker[w].req = r /\ ackBox[w] = {}
      BY <1>2, <3>1
    <3>3. a # Nobody => a[1] \in Workers /\ worker[a[1]].req = q
      <4>1. a # Nobody => a = <<a[1], a[2]>> /\ a[1] \in Workers /\ a[2] \in Items
        BY <1>2, <2>1
      <4> QED BY <1>2, <2>1, <4>1
    <3>4. a # Nobody => w # a[1]
      BY <3>1, <3>2, <3>3
    <3> HIDE DEF q, a, x
    <3> QED BY <1>2, <2>2, <3>2, <3>3, <3>4
  <2> QED BY <2>4, <2>5 DEF AcksOK
<1>8. CASE ClearAcks
  <2>1. pending' = [r \in Reqs |-> Nobody] /\ worker' = worker
    BY <1>8 DEF ClearAcks
  <2>2. ackBox' \in [Workers -> SUBSET Outs]
    BY <1>2, <1>8 DEF ClearAcks, Outs
  <2>3. \A w \in Workers, i \in Items : Nobody # <<w, i>>
    BY WxComAssumption DEF Items
  <2> QED BY <2>1, <2>2, <2>3 DEF AcksOK
<1> QED BY <1>0, <1>4, <1>5, <1>6, <1>7, <1>8, AckSteps

-----------------------------------------------------------------------------
LEMMA ShapesInit == Init => ShapesInv
<1> SUFFICES ASSUME Init PROVE ShapesInv
  OBVIOUS
<1>1. reqOf = <<>> /\ Queued = 0 /\ losses = 0 /\ ctx = 1
  BY DEF Init, Queued
<1>2. BoundsOK
  <2>1. reqOf \in Seq(Reqs) /\ Used <= MaxWork /\ losses \in 0..MaxLosses /\ ctx \in Nat
    BY <1>1, WxComAssumption DEF Used
  <2>2. box \in [Items -> SUBSET Outs] /\ timers = {} /\ onWire = {}
    BY DEF Init
  <2>3. {ctxLive, alive, connected, authed, manual} \subseteq BOOLEAN
    BY DEF Init
  <2> QED BY <2>1, <2>2, <2>3 DEF BoundsOK
<1>3. QueuesOK
  <2>1. queues = [r \in Reqs |-> <<>>] /\ processing = {} /\ lastSent = [r \in Reqs |-> 0]
    BY DEF Init
  <2> QED BY <1>1, <2>1, WxComAssumption DEF QueuesOK
<1>4. SendersOK
  BY <1>1 DEF Init, SendersOK, SenderAt, Resting
<1>5. WorkersOK
  <2>1. \A w \in Workers : worker[w] = Idle(1) \/ worker[w] = Off
    BY DEF Init
  <2>2. \A x : x = Idle(1) \/ x = Off => WorkerAt(x, reqOf, ctx)
    <3>1. Idle(1) = [pc |-> "idle", req |-> Nobody, item |-> 0, ctx |-> 1, out |-> "none"]
      BY IdleIs
    <3> QED BY <1>1, <3>1 DEF WorkerAt, Off, Holding
  <2>3. worker = [w \in Workers |-> worker[w]]
    BY DEF Init
  <2> QED BY <2>1, <2>2, <2>3 DEF WorkersOK
<1>6. AcksOK
  <2>1. \A w \in Workers, i \in Items : Nobody # <<w, i>>
    BY WxComAssumption DEF Items
  <2>2. pending = [r \in Reqs |-> Nobody] /\ ackBox = [w \in Workers |-> {}]
    BY DEF Init
  <2> QED BY <2>1, <2>2 DEF AcksOK
<1> QED BY <1>2, <1>3, <1>4, <1>5, <1>6 DEF ShapesInv

LEMMA ShapesStep == ShapesInv /\ [Next]_vars => ShapesInv'
BY BoundsStep, QueuesStep, SendersStep, WorkersStep, AcksStep DEF ShapesInv

LEMMA ShapesHold == Spec => []ShapesInv
BY ShapesInit, ShapesStep, PTL DEF Spec

(* In every state the program reaches the queues are sequences of at most  *)
(* QueueCap messages that were handed to SendReply, every goroutine has in *)
(* hand what its stage needs, and an acknowledgement is registered only    *)
(* while its worker waits for it.                                          *)
THEOREM TypeCorrect == Spec => []TypeOK
<1>1. ShapesInv => TypeOK
  <2> SUFFICES ASSUME ShapesInv PROVE TypeOK
    OBVIOUS
  <2>0. BoundsOK /\ QueuesOK /\ SendersOK /\ WorkersOK /\ AcksOK
    BY DEF ShapesInv
  <2>1. sender \in [Senders -> [pc : {"free", "enter", "check", "notify", "wait"},
                                item : 0..Queued]]
    BY <2>0 DEF SendersOK, SenderAt
  <2>2. worker \in [Workers -> [pc : {"off", "idle", "next", "clear", "send", "register",
                                      "await", "failed", "return"},
                                req : Reqs \cup {Nobody}, item : 0..Queued, ctx : 0..ctx,
                                out : Outs \cup {"none"}]]
    <3>1. \A w \in Workers : worker[w] \in
            [pc : {"off", "idle", "next", "clear", "send", "register", "await", "failed", "return"},
             req : Reqs \cup {Nobody}, item : 0..Queued, ctx : 0..ctx, out : Outs \cup {"none"}]
      BY <2>0 DEF WorkersOK, WorkerAt, Holding, Queued
    <3> QED BY <2>0, <3>1 DEF WorkersOK
  <2>3. ASSUME NEW r \in Reqs, pending[r] # Nobody
        PROVE  /\ pending[r] \in Workers \X Items
               /\ worker[pending[r][1]].pc = "await" /\ worker[pending[r][1]].item = pending[r][2]
    <3>1. pending[r] \in Workers \X Items
      BY <2>0, <2>3 DEF AcksOK
    <3>2. /\ pending[r] = <<pending[r][1], pending[r][2]>>
          /\ pending[r][1] \in Workers /\ pending[r][2] \in Items
      BY <3>1
    <3> QED BY <2>0, <3>1, <3>2 DEF AcksOK
  <2>4. \A r \in Reqs : queues[r] \in Seq(1..Queued) /\ Len(queues[r]) <= QueueCap
    BY <2>0 DEF QueuesOK
  <2>5. ackBox \in [Workers -> SUBSET Outs] /\ processing \subseteq Reqs
    BY <2>0 DEF AcksOK, QueuesOK
  <2> QED BY <2>0, <2>1, <2>2, <2>3, <2>4, <2>5 DEF TypeOK, BoundsOK
<1> QED BY <1>1, ShapesHold, PTL

-----------------------------------------------------------------------------
(* A worker gets a request from a sender that wakes it, a sender is about  *)
(* to wake one when it has set the mark.                                   *)
LEMMA WorkerTakes ==
  ASSUME ShapesInv, [Next]_vars, NEW v \in Workers, NEW r \in Reqs, worker'[v].req = r
  PROVE  worker[v].req = r \/ \E s \in Senders : Notify(s, v) /\ Waking(s, r)
<1>0. BoundsOK /\ WorkersOK
  BY DEF ShapesInv
<1>1. \A c : Idle(c).req = Nobody /\ Off.req = Nobody
  BY DEF Idle, Off
<1>2. r # Nobody
  BY WxComAssumption
<1>3. CASE \/ WorkerStops(v) \/ ClearMark(v) \/ Authenticated
  <2>1. worker'[v] = worker[v] \/ worker'[v] = Off \/ \E c : worker'[v] = Idle(c)
    BY <1>0, <1>3 DEF WorkerStops, ClearMark, Authenticated, WorkersOK
  <2> QED BY <1>1, <1>2, <2>1
<1>4. ASSUME NEW s \in Senders, Notify(s, v) PROVE Waking(s, r)
  BY <1>0, <1>4 DEF Notify, WorkersOK, WorkerAt, Waking
<1>5. ASSUME TakeNext(v) \/ SendFrame(v) \/ Register(v) \/ TakeAnswer(v) \/ Deliver(v)
      PROVE  worker[v].req = r
  <2> DEFINE q == queues[worker[v].req]
  <2>1. CASE TakeNext(v)
    <3>1. worker'[v] = [worker[v] EXCEPT !.pc = IF q = <<>> THEN "clear" ELSE "send",
                                         !.item = IF q = <<>> THEN 0 ELSE Head(q)]
      BY <1>0, <2>1 DEF TakeNext, WorkersOK
    <3> HIDE DEF q
    <3> QED BY <1>0, <3>1 DEF WorkersOK, WorkerAt
  <2>2. CASE SendFrame(v) \/ Register(v)
    BY <1>0, <2>2 DEF SendFrame, Register, WorkersOK, WorkerAt
  <2>3. CASE TakeAnswer(v)
    <3>1. PICK x \in Outs : worker' = [worker EXCEPT ![v].pc = "return", ![v].out = x]
      BY <2>3, TakesHead
    <3> QED BY <1>0, <3>1 DEF WorkersOK, WorkerAt
  <2>4. CASE Deliver(v)
    BY <1>0, <2>4 DEF Deliver, WorkersOK, WorkerAt
  <2> QED BY <1>5, <2>1, <2>2, <2>3, <2>4
<1> QED BY <1>0, <1>3, <1>4, <1>5, WorkerDoes

LEMMA SenderWakes ==
  ASSUME ShapesInv, [Next]_vars, NEW s \in Senders, NEW r \in Reqs, Waking(s, r)'
  PROVE  Waking(s, r) \/ (Check(s) /\ r \notin processing /\ reqOf[sender[s].item] = r)
<1>0. BoundsOK /\ SendersOK
  BY DEF ShapesInv
<1>1. sender'[s].pc = "notify" /\ reqOf'[sender'[s].item] = r
  BY DEF Waking
<1>2. \A i \in 1..Queued : reqOf'[i] = reqOf[i]
  BY <1>0, QueuedGrows
<1>3. CASE sender'[s] = sender[s]
  <2>1. sender[s].item \in 1..Queued
    BY <1>0, <1>1, <1>3, QueuedGrows DEF SendersOK, SenderAt
  <2> QED BY <1>1, <1>2, <1>3, <2>1 DEF Waking
<1>4. CASE Check(s)
  <2>1. sender'[s] = [sender[s] EXCEPT !.pc = IF reqOf[sender[s].item] \in processing
                                             THEN "wait" ELSE "notify"]
    BY <1>0, <1>4 DEF Check, SendersOK
  <2>2. reqOf[sender[s].item] \notin processing /\ sender'[s].item = sender[s].item
    BY <1>0, <1>1, <2>1 DEF SendersOK, SenderAt
  <2>3. reqOf' = reqOf
    BY <1>4 DEF Check, itemVars
  <2> QED BY <1>1, <1>4, <2>2, <2>3
<1>5. CASE \/ Begin(s) \/ Return(s)
           \/ \E q \in Reqs : Enqueue(s, q)
           \/ \E w \in Workers : Notify(s, w)
  <2>1. \E x : sender'[s] = [sender[s] EXCEPT !.pc = "enter"] \/ sender'[s] = Resting
               \/ sender'[s] = [pc |-> "check", item |-> x]
               \/ sender'[s] = [sender[s] EXCEPT !.pc = "wait"]
    BY <1>0, <1>5 DEF Begin, Return, Enqueue, Notify, SendersOK
  <2>2. sender'[s].pc # "notify"
    BY <1>0, <2>1 DEF SendersOK, SenderAt, Resting
  <2> QED BY <1>1, <2>2
<1>6. ASSUME NEW t \in Senders \ {s},
             \/ Begin(t) \/ Check(t) \/ Return(t)
             \/ \E q \in Reqs : Enqueue(t, q)
             \/ \E w \in Workers : Notify(t, w)
      PROVE  sender'[s] = sender[s]
  BY <1>0, <1>6 DEF Begin, Check, Return, Enqueue, Notify, SendersOK
<1> QED BY <1>0, <1>3, <1>4, <1>5, <1>6, SenderSteps

LEMMA HolderStep == ShapesInv /\ HolderInv /\ [Next]_vars => HolderInv'
<1> SUFFICES ASSUME ShapesInv, HolderInv, [Next]_vars, NEW r \in Reqs \ cleared'
             PROVE  /\ \A w \in Workers : worker'[w].req = r => r \in processing'
                    /\ \A s \in Senders : Waking(s, r)' => r \in processing'
                    /\ \A v, w \in Workers : worker'[v].req = r /\ worker'[w].req = r => v = w
                    /\ \A s, t \in Senders : Waking(s, r)' /\ Waking(t, r)' => s = t
                    /\ \A w \in Workers, s \in Senders : ~(worker'[w].req = r /\ Waking(s, r)')
  BY DEF HolderInv, Marked, OneHolder
<1>0. BoundsOK /\ WorkersOK /\ SendersOK /\ r \in Reqs \ cleared
  BY ClearedGrows DEF ShapesInv
<1>1. /\ \A w \in Workers : worker[w].req = r => r \in processing
      /\ \A s \in Senders : Waking(s, r) => r \in processing
      /\ \A v, w \in Workers : worker[v].req = r /\ worker[w].req = r => v = w
      /\ \A s, t \in Senders : Waking(s, r) /\ Waking(t, r) => s = t
      /\ \A w \in Workers, s \in Senders : ~(worker[w].req = r /\ Waking(s, r))
  BY <1>0 DEF HolderInv, Marked, OneHolder
<1>2. \A v \in Workers : worker'[v].req = r =>
        worker[v].req = r \/ \E s \in Senders : Notify(s, v) /\ Waking(s, r)
  BY <1>0, WorkerTakes
<1>3. \A s \in Senders : Waking(s, r)' =>
        Waking(s, r) \/ (Check(s) /\ r \notin processing /\ reqOf[sender[s].item] = r)
  BY <1>0, SenderWakes
<1>4. ASSUME NEW s \in Senders, NEW w \in Workers, Notify(s, w)
      PROVE  /\ processing' = processing /\ ~Waking(s, r)'
             /\ \A t \in Senders : ~Check(t)
             /\ \A v \in Workers \ {w}, t \in Senders : ~Notify(t, v)
             /\ \A t \in Senders \ {s} : ~Notify(t, w)
  <2>1. sender'[s].pc = "wait" /\ \A t \in Senders \ {s} : sender'[t] = sender[t]
    BY <1>0, <1>4 DEF Notify, SendersOK, SenderAt
  <2>2. sender[s].pc = "notify"
    BY <1>4 DEF Notify
  <2>3. ASSUME NEW t \in Senders PROVE ~Check(t)
    <3>1. SUFFICES ASSUME Check(t) PROVE FALSE
      OBVIOUS
    <3>2. t # s
      BY <2>2, <3>1 DEF Check
    <3>3. sender'[t].pc \in {"wait", "notify"} /\ sender[t].pc = "check"
      BY <1>0, <3>1 DEF Check, SendersOK, SenderAt
    <3> QED BY <2>1, <3>2, <3>3
  <2>4. \A t \in Senders \ {s} : \A v \in Workers : ~Notify(t, v)
    <3>1. SUFFICES ASSUME NEW t \in Senders \ {s}, NEW v \in Workers, Notify(t, v) PROVE FALSE
      OBVIOUS
    <3>2. sender[t].pc = "notify" /\ sender'[t].pc = "wait"
      BY <1>0, <3>1 DEF Notify, SendersOK, SenderAt
    <3> QED BY <2>1, <3>2
  <2>5. \A v \in Workers \ {w} : ~Notify(s, v)
    <3>1. SUFFICES ASSUME NEW v \in Workers \ {w}, Notify(s, v) PROVE FALSE
      OBVIOUS
    <3>2. worker'[v].pc = "next" /\ worker[v].pc = "idle"
      BY <1>0, <3>1 DEF Notify, WorkersOK, WorkerAt
    <3>3. worker'[v] = worker[v]
      BY <1>0, <1>4 DEF Notify, WorkersOK
    <3> QED BY <3>2, <3>3
  <2> QED BY <1>4, <2>1, <2>3, <2>4, <2>5 DEF Notify, queueVars, Waking
<1>5. CASE \E s \in Senders, w \in Workers : Notify(s, w)
  BY <1>1, <1>2, <1>3, <1>4, <1>5
<1> DEFINE NoNotify == \A s \in Senders, w \in Workers : ~Notify(s, w)
<1>6. ASSUME NEW s \in Senders, Check(s), NoNotify
      PROVE  /\ \A t \in Senders \ {s} : ~Check(t) 
             /\ r \in processing => r \in processing'
             /\ reqOf[sender[s].item] = r => r \in processing'
  <2>1. \A t \in Senders \ {s} : ~Check(t)
    <3>1. SUFFICES ASSUME NEW t \in Senders \ {s}, Check(t) PROVE FALSE
      OBVIOUS
    <3>2. sender'[t].pc \in {"wait", "notify"} /\ sender[t].pc = "check"
      BY <1>0, <3>1 DEF Check, SendersOK, SenderAt
    <3>3. sender'[t] = sender[t]
      BY <1>0, <1>6 DEF Check, SendersOK
    <3> QED BY <3>2, <3>3
  <2> QED BY <1>6, <2>1 DEF Check
<1>7. CASE NoNotify /\ \E s \in Senders : Check(s)
  BY <1>1, <1>2, <1>3, <1>6, <1>7
<1> DEFINE NoCheck == \A s \in Senders : ~Check(s)
<1>8. CASE NoNotify /\ NoCheck /\ \E w \in Workers : ClearMark(w)
  <2>1. PICK w \in Workers : ClearMark(w)
    BY <1>8
  <2>2. worker'[w].req = Nobody /\ Nobody # r
    BY <1>0, <2>1, WxComAssumption DEF ClearMark, WorkersOK, Idle, Off
  <2>3. processing' = processing \ {worker[w].req}
    BY <2>1 DEF ClearMark
  <2> QED BY <1>1, <1>2, <1>3, <1>8, <2>2, <2>3
<1>9. CASE NoNotify /\ NoCheck /\ ClearFlags
  <2>1. r \notin processing
    BY <1>9 DEF ClearFlags
  <2> QED BY <1>1, <1>2, <1>3, <1>9, <2>1
<1>10. CASE NoNotify /\ NoCheck /\ processing' = processing
  BY <1>1, <1>2, <1>3, <1>10
<1> QED BY <1>0, <1>5, <1>7, <1>8, <1>9, <1>10, MarkSteps

-----------------------------------------------------------------------------
(* A worker with a message in hand has just taken it off its queue's head, *)
(* or had it before; one that sent it goes on only with its answer.        *)
LEMMA HandSteps ==
  ASSUME ShapesInv, [Next]_vars, NEW v \in Workers, InHand(worker'[v])
  PROVE  /\ worker'[v].req = worker[v].req /\ worker[v].req \in Reqs
         /\ \/ InHand(worker[v]) /\ worker'[v].item = worker[v].item
            \/ /\ TakeNext(v) /\ queues[worker[v].req] # <<>> /\ worker'[v].pc = "send"
               /\ worker'[v].item = Head(queues[worker[v].req])
<1>0. BoundsOK /\ WorkersOK
  BY DEF ShapesInv
<1>1. CASE worker'[v] = worker[v]
  BY <1>0, <1>1 DEF InHand, WorkersOK, WorkerAt
<1>2. CASE TakeNext(v)
  <2> DEFINE q == queues[worker[v].req]
  <2>1. worker'[v] = [worker[v] EXCEPT !.pc = IF q = <<>> THEN "clear" ELSE "send",
                                       !.item = IF q = <<>> THEN 0 ELSE Head(q)]
    BY <1>0, <1>2 DEF TakeNext, WorkersOK
  <2>2. worker[v].pc = "next" /\ worker[v].req \in Reqs
    BY <1>0, <1>2 DEF TakeNext, WorkersOK, WorkerAt
  <2> HIDE DEF q
  <2>3. /\ worker'[v].pc = IF q = <<>> THEN "clear" ELSE "send"
        /\ worker'[v].item = IF q = <<>> THEN 0 ELSE Head(q)
        /\ worker'[v].req = worker[v].req
    BY <1>0, <2>1 DEF WorkersOK, WorkerAt
  <2>4. q # <<>> /\ worker'[v].pc = "send" /\ worker'[v].item = Head(q)
    BY <2>3 DEF InHand
  <2> QED BY <1>2, <2>2, <2>3, <2>4 DEF q
<1>3. CASE SendFrame(v) \/ Register(v)
  <2>1. worker[v].pc \in {"send", "register"}
    BY <1>3 DEF SendFrame, Register
  <2>2. worker'[v].req = worker[v].req /\ worker'[v].item = worker[v].item
    BY <1>0, <1>3 DEF SendFrame, Register, WorkersOK, WorkerAt
  <2> QED BY <1>0, <2>1, <2>2 DEF InHand, WorkersOK, WorkerAt
<1>4. ASSUME \/ WorkerStops(v) \/ ClearMark(v) \/ TakeAnswer(v) \/ Deliver(v)
             \/ \E s \in Senders : Notify(s, v)
      PROVE  ~InHand(worker'[v])
  <2>1. CASE WorkerStops(v) \/ ClearMark(v)
    <3>1. \A c : Idle(c).pc = "idle" /\ Off.pc = "off"
      BY DEF Idle, Off
    <3> QED BY <1>0, <2>1, <3>1 DEF InHand, WorkerStops, ClearMark, WorkersOK
  <2>2. CASE TakeAnswer(v)
    <3>1. PICK x \in Outs : worker' = [worker EXCEPT ![v].pc = "return", ![v].out = x]
      BY <2>2, TakesHead
    <3> QED BY <1>0, <3>1 DEF WorkersOK, WorkerAt, InHand
  <2>3. CASE Deliver(v)
    BY <1>0, <2>3 DEF Deliver, WorkersOK, WorkerAt, InHand
  <2>4. ASSUME NEW s \in Senders, Notify(s, v) PROVE ~InHand(worker'[v])
    BY <1>0, <2>4 DEF Notify, WorkersOK, WorkerAt, InHand
  <2> QED BY <1>4, <2>1, <2>2, <2>3, <2>4
<1>5. CASE Authenticated
  <2>1. worker'[v] = worker[v] \/ worker'[v] = Idle(ctx + 1)
    BY <1>5 DEF Authenticated
  <2>2. Idle(ctx + 1).pc = "idle"
    BY DEF Idle, Off
  <2> QED BY <1>1, <2>1, <2>2 DEF InHand
<1> QED BY <1>0, <1>1, <1>2, <1>3, <1>4, <1>5, WorkerDoes

LEMMA SentKept ==
  ASSUME ShapesInv, [Next]_vars, NEW v \in Workers, Sent(v)
  PROVE  TakeAnswer(v) \/ (Sent(v)' /\ worker'[v].req = worker[v].req)
<1>0. BoundsOK /\ WorkersOK
  BY DEF ShapesInv
<1>1. CASE worker'[v] = worker[v]
  BY <1>1 DEF Sent
<1>2. CASE Register(v)
  BY <1>0, <1>2 DEF Register, WorkersOK, WorkerAt, Sent
<1>3. CASE Authenticated
  BY <1>1, <1>3 DEF Authenticated, Stopped, Sent
<1> QED BY <1>0, <1>1, <1>2, <1>3, WorkerDoes DEF Sent, WorkerStops, TakeNext, ClearMark,
      SendFrame, Deliver, Notify

(* A queue that is not cleared grows at its end or loses its head.         *)
LEMMA QueueDoes ==
  ASSUME ShapesInv, [Next]_vars, NEW r \in Reqs \ cleared'
  PROVE  \/ queues'[r] = queues[r]
         \/ \E s \in Senders : /\ Enqueue(s, r) /\ worker' = worker
                               /\ queues'[r] = Append(queues[r], Queued + 1)
         \/ \E w \in Workers : /\ TakeAnswer(w) /\ worker[w].req = r /\ queues[r] # <<>>
                               /\ worker'[w].pc = "return" /\ queues'[r] = Tail(queues[r])
<1>0. BoundsOK /\ QueuesOK /\ WorkersOK
  BY DEF ShapesInv
<1>1. ASSUME NEW s \in Senders, NEW p \in Reqs, Enqueue(s, p), reqOf' # reqOf
      PROVE  \/ queues'[r] = queues[r]
             \/ Enqueue(s, r) /\ worker' = worker /\ queues'[r] = Append(queues[r], Queued + 1)
  <2>1. queues' = [queues EXCEPT ![p] = Append(@, Queued + 1)]
    BY <1>0, <1>1, EnqueueDoes
  <2>2. worker' = worker
    BY <1>1 DEF Enqueue
  <2> QED BY <1>0, <1>1, <2>1, <2>2 DEF QueuesOK
<1>2. ASSUME NEW w \in Workers, TakeAnswer(w)
      PROVE  \/ queues'[r] = queues[r]
             \/ /\ worker[w].req = r /\ queues[r] # <<>>
                /\ worker'[w].pc = "return" /\ queues'[r] = Tail(queues[r])
  <2>1. PICK x \in Outs : worker' = [worker EXCEPT ![w].pc = "return", ![w].out = x]
    BY <1>2, TakesHead
  <2>2. worker'[w].pc = "return"
    BY <1>0, <2>1 DEF WorkersOK, WorkerAt
  <2>3. queues' = [queues EXCEPT ![worker[w].req] = IF @ = <<>> THEN @ ELSE Tail(@)]
    BY <1>2, TakesHead
  <2> QED BY <1>0, <2>2, <2>3 DEF QueuesOK
<1>3. CASE ClearQueues
  <2>1. queues'[r] = <<>> /\ queues[r] = <<>>
    BY <1>3 DEF ClearQueues
  <2> QED BY <2>1
<1> QED BY <1>0, <1>1, <1>2, <1>3, QueueSteps

-----------------------------------------------------------------------------
LEMMA SendStep == ShapesInv /\ HolderInv /\ SendInv /\ [Next]_vars => SendInv'
<1> SUFFICES ASSUME ShapesInv, HolderInv, SendInv, [Next]_vars PROVE SendInv'
  OBVIOUS
<1>0. BoundsOK /\ QueuesOK /\ WorkersOK
  BY DEF ShapesInv
<1>1. Queued \in Nat /\ \A r \in Reqs : queues[r] \in Seq(1..Queued) /\ lastSent[r] \in 0..Queued
  BY <1>0, QueuedGrows DEF QueuesOK
<1>2. ASSUME NEW r \in Reqs \ cleared
      PROVE  /\ \A k, l \in 1..Len(queues[r]) : k < l => queues[r][k] < queues[r][l]
             /\ \A w \in Workers : worker[w].req = r /\ InHand(worker[w]) =>
                  Len(queues[r]) >= 1 /\ queues[r][1] = worker[w].item
             /\ \A k \in 1..Len(queues[r]) :
                  \/ lastSent[r] < queues[r][k]
                  \/ k = 1 /\ \E w \in Workers : worker[w].req = r /\ Sent(w)
             /\ \A v, w \in Workers : worker[v].req = r /\ worker[w].req = r => v = w
  BY <1>2 DEF SendInv, Rising, HeadHeld, Later, HolderInv, OneHolder
<1>3. ASSUME NEW w \in Workers, SendFrame(w), worker[w].req \notin cleared
      PROVE  /\ worker[w].req \in Reqs /\ InHand(worker[w]) /\ ~Sent(w)
             /\ lastSent[worker[w].req] < worker[w].item
  <2> DEFINE r == worker[w].req
  <2>1. worker[w].pc = "send" /\ r \in Reqs \ cleared
    BY <1>0, <1>3 DEF SendFrame, WorkersOK, WorkerAt
  <2>2. InHand(worker[w]) /\ ~Sent(w)
    BY <2>1 DEF InHand, Sent
  <2>3. Len(queues[r]) >= 1 /\ queues[r][1] = worker[w].item /\ 1 \in 1..Len(queues[r])
    BY <1>1, <1>2, <2>1, <2>2
  <2>4. ~ \E v \in Workers : worker[v].req = r /\ Sent(v)
    BY <1>2, <2>1, <2>2
  <2> QED BY <1>2, <2>1, <2>2, <2>3, <2>4
<1>4. disorder' \subseteq cleared'
  <2>1. ASSUME NEW w \in Workers, SendFrame(w) PROVE disorder' \subseteq cleared
    <3>1. /\ disorder' \subseteq disorder \cup {worker[w].req}
          /\ worker[w].item > lastSent[worker[w].req] => disorder' = disorder
      BY <2>1 DEF SendFrame
    <3>2. worker[w].req \notin cleared =>
            worker[w].item > lastSent[worker[w].req]
      <4>1. worker[w].item \in Nat
        BY <1>0, <1>1 DEF WorkersOK, WorkerAt, Queued
      <4> QED BY <1>1, <1>3, <2>1, <4>1
    <3> QED BY <3>1, <3>2 DEF SendInv
  <2> QED BY <1>0, <2>1, SentSteps, ClearedGrows DEF SendInv
<1>5. ASSUME NEW r \in Reqs \ cleared'
      PROVE  /\ \A k, l \in 1..Len(queues'[r]) : k < l => queues'[r][k] < queues'[r][l]
             /\ \A w \in Workers : worker'[w].req = r /\ InHand(worker'[w]) =>
                  Len(queues'[r]) >= 1 /\ queues'[r][1] = worker'[w].item
             /\ \A k \in 1..Len(queues'[r]) :
                  \/ lastSent'[r] < queues'[r][k]
                  \/ k = 1 /\ \E w \in Workers : worker'[w].req = r /\ Sent(w)'
  <2> DEFINE q == queues[r]
             n == queues'[r]
             Same == n = q
             Adds(s) == Enqueue(s, r) /\ worker' = worker /\ n = Append(q, Queued + 1)
             Takes(w) == /\ TakeAnswer(w) /\ worker[w].req = r /\ q # <<>>
                         /\ worker'[w].pc = "return" /\ n = Tail(q)
  <2>0. r \in Reqs \ cleared
    BY <1>0, ClearedGrows
  <2>1. Same \/ (\E s \in Senders : Adds(s)) \/ \E w \in Workers : Takes(w)
    BY QueueDoes
  <2>2. q \in Seq(1..Queued)
    BY <1>1
  <2>3. /\ \A k, l \in 1..Len(q) : k < l => q[k] < q[l]
        /\ \A w \in Workers : worker[w].req = r /\ InHand(worker[w]) =>
             Len(q) >= 1 /\ q[1] = worker[w].item
        /\ \A k \in 1..Len(q) : \/ lastSent[r] < q[k]
                                \/ k = 1 /\ \E w \in Workers : worker[w].req = r /\ Sent(w)
        /\ \A v, w \in Workers : worker[v].req = r /\ worker[w].req = r => v = w
    BY <1>2, <2>0
  <2>4. \A s \in Senders : Adds(s) => 
          /\ Len(n) = Len(q) + 1 /\ n[Len(q) + 1] = Queued + 1
          /\ \A k \in 1..Len(q) : n[k] = q[k] /\ q[k] \in 1..Queued
          /\ UNCHANGED <<lastSent, worker>>
    BY <1>1, <2>2 DEF Enqueue, histVars
  <2>5. \A w \in Workers : Takes(w) =>
          /\ Len(n) = Len(q) - 1 /\ Len(q) \in Nat \ {0}
          /\ \A k \in 1..Len(n) : n[k] = q[k + 1] /\ k + 1 \in 1..Len(q)
          /\ lastSent' = lastSent
    <3>1. ASSUME NEW w \in Workers, TakeAnswer(w) PROVE lastSent' = lastSent
      BY <3>1 DEF TakeAnswer
    <3>2. q # <<>> =>
            /\ Len(Tail(q)) = Len(q) - 1 /\ Len(q) \in Nat \ {0}
            /\ \A k \in 1..Len(Tail(q)) : Tail(q)[k] = q[k + 1] /\ k + 1 \in 1..Len(q)
      BY <2>2, TailOf
    <3> HIDE DEF q, n
    <3> QED BY <3>1, <3>2
  <2>6. /\ Len(q) \in Nat /\ lastSent[r] \in 0..Queued
        /\ \A k \in 1..Len(q) : q[k] \in 1..Queued
    BY <1>1, <2>2
  <2> HIDE DEF q, n
  <2>7. \A k, l \in 1..Len(n) : k < l => n[k] < n[l]
    <3>1. ASSUME NEW s \in Senders, Adds(s) PROVE \A k, l \in 1..Len(n) : k < l => n[k] < n[l]
      <4>1. ASSUME NEW k \in 1..Len(n), NEW l \in 1..Len(n), k < l PROVE n[k] < n[l]
        <5>1. k \in 1..Len(q)
          BY <2>4, <2>6, <3>1, <4>1
        <5>2. CASE l = Len(q) + 1
          BY <1>1, <2>4, <2>6, <3>1, <5>1, <5>2
        <5>3. CASE l \in 1..Len(q)
          BY <2>3, <2>4, <3>1, <4>1, <5>1, <5>3
        <5> QED BY <2>4, <2>6, <3>1, <5>2, <5>3
      <4> QED BY <4>1
    <3>2. ASSUME NEW w \in Workers, Takes(w) PROVE \A k, l \in 1..Len(n) : k < l => n[k] < n[l]
      <4>1. ASSUME NEW k \in 1..Len(n), NEW l \in 1..Len(n), k < l PROVE n[k] < n[l]
        <5>1. n[k] = q[k + 1] /\ k + 1 \in 1..Len(q) /\ n[l] = q[l + 1] /\ l + 1 \in 1..Len(q)
          BY <2>5, <3>2
        <5>2. k + 1 < l + 1
          BY <4>1
        <5> QED BY <2>3, <5>1, <5>2
      <4> QED BY <4>1
    <3> QED BY <2>1, <2>3, <3>1, <3>2
  <2>8. ASSUME NEW v \in Workers, worker'[v].req = r, InHand(worker'[v])
        PROVE  Len(n) >= 1 /\ n[1] = worker'[v].item
    <3>1. /\ worker[v].req = r
          /\ \/ InHand(worker[v]) /\ worker'[v].item = worker[v].item
             \/ TakeNext(v) /\ q # <<>> /\ worker'[v].item = Head(q)
      BY <2>8, HandSteps DEF q
    <3>2. CASE Same
      <4>1. CASE InHand(worker[v]) /\ worker'[v].item = worker[v].item
        BY <2>3, <3>1, <3>2, <4>1
      <4>2. CASE TakeNext(v) /\ q # <<>> /\ worker'[v].item = Head(q)
        BY <2>2, <2>6, <3>2, <4>2, TailOf
      <4> QED BY <3>1, <4>1, <4>2
    <3>3. ASSUME NEW s \in Senders, Adds(s) PROVE Len(n) >= 1 /\ n[1] = worker'[v].item
      <4>1. worker' = worker
        BY <3>3
      <4>2. Len(q) >= 1 /\ q[1] = worker[v].item
        BY <2>3, <2>8, <4>1
      <4> QED BY <2>4, <2>6, <3>3, <4>1, <4>2
    <3>4. \A w \in Workers : ~Takes(w)
      BY <2>3, <2>8, <3>1 DEF InHand
    <3> QED BY <2>1, <3>2, <3>3, <3>4
  <2>9. ASSUME NEW k \in 1..Len(n)
        PROVE  \/ lastSent'[r] < n[k]
               \/ k = 1 /\ \E w \in Workers : worker'[w].req = r /\ Sent(w)'
    <3>1. ASSUME NEW s \in Senders, Adds(s)
          PROVE  \/ lastSent'[r] < n[k]
                 \/ k = 1 /\ \E w \in Workers : worker'[w].req = r /\ Sent(w)'
      <4>1. CASE k = Len(q) + 1
        BY <1>1, <2>4, <2>6, <3>1, <4>1
      <4>2. CASE k \in 1..Len(q)
        BY <2>3, <2>4, <3>1, <4>2 DEF Sent
      <4> QED BY <2>4, <2>6, <3>1, <4>1, <4>2
    <3>2. ASSUME NEW w \in Workers, Takes(w) PROVE lastSent'[r] < n[k]
      <4>1. n[k] = q[k + 1] /\ k + 1 \in 1..Len(q) /\ k + 1 # 1
        BY <2>5, <3>2
      <4> QED BY <2>3, <2>5, <3>2, <4>1
    <3>3. ASSUME Same, NEW w \in Workers, SendFrame(w), worker[w].req = r
          PROVE  \/ lastSent'[r] < n[k]
                 \/ k = 1 /\ \E v \in Workers : worker'[v].req = r /\ Sent(v)'
      <4>1. InHand(worker[w]) /\ ~Sent(w) /\ lastSent[r] < worker[w].item
        BY <1>3, <2>0, <3>3
      <4>2. q[1] = worker[w].item /\ \A l \in 1..Len(q) : l # 1 => q[1] < q[l]
        BY <2>3, <2>6, <3>3, <4>1
      <4>3. \A l \in 1..Len(q) : lastSent[r] < q[l]
        BY <2>3, <3>3, <4>1
      <4>4. worker'[w].req = r /\ Sent(w)'
        BY <1>0, <3>3 DEF SendFrame, WorkersOK, WorkerAt, Sent
      <4>5. lastSent'[r] \in {lastSent[r], worker[w].item}
        BY <1>0, <2>0, <3>3 DEF SendFrame, QueuesOK
      <4> QED BY <2>6, <3>3, <4>2, <4>3, <4>4, <4>5
    <3>4. ASSUME Same, lastSent'[r] = lastSent[r]
          PROVE  \/ lastSent'[r] < n[k]
                 \/ k = 1 /\ \E v \in Workers : worker'[v].req = r /\ Sent(v)'
      <4>1. ASSUME NEW w \in Workers, worker[w].req = r, Sent(w), ~TakeAnswer(w)
            PROVE  worker'[w].req = r /\ Sent(w)'
        BY <4>1, SentKept
      <4>2. ASSUME NEW w \in Workers, worker[w].req = r, TakeAnswer(w) PROVE FALSE
        <5>1. q # <<>>
          BY <2>2, <3>4
        <5>2. n = Tail(q)
          BY <1>0, <2>0, <4>2, <5>1, TakesHead DEF QueuesOK, q, n
        <5> QED BY <2>2, <3>4, <5>1, <5>2, TailOf
      <4> QED BY <2>3, <3>4, <4>1, <4>2
    <3>5. \/ lastSent'[r] = lastSent[r]
          \/ \E w \in Workers : SendFrame(w) /\ worker[w].req = r
      <4>1. ASSUME NEW w \in Workers, SendFrame(w), worker[w].req # r
            PROVE  lastSent'[r] = lastSent[r]
        BY <1>0, <2>0, <4>1 DEF SendFrame, QueuesOK
      <4> QED BY <1>0, <4>1, SentSteps
    <3> QED BY <2>1, <3>1, <3>2, <3>3, <3>4, <3>5
  <2> QED BY <2>7, <2>8, <2>9 DEF n
<1> QED BY <1>4, <1>5 DEF SendInv, Rising, HeadHeld, Later

-----------------------------------------------------------------------------
LEMMA OrderInit == Init => HolderInv /\ SendInv
<1> SUFFICES ASSUME Init PROVE HolderInv /\ SendInv
  OBVIOUS
<1>1. \A w \in Workers : worker[w].req = Nobody
  BY DEF Init, Idle, Off
<1>2. \A s \in Senders : sender[s].pc = "free"
  BY DEF Init, Resting
<1>3. \A r \in Reqs : r # Nobody /\ queues[r] = <<>>
  BY WxComAssumption DEF Init
<1>4. disorder = {}
  BY DEF Init
<1> QED BY <1>1, <1>2, <1>3, <1>4
     DEF HolderInv, Marked, OneHolder, Waking, SendInv, Rising, HeadHeld, Later

LEMMA OrderHolds == Spec => [](ShapesInv /\ HolderInv /\ SendInv)
<1>1. Init => ShapesInv /\ HolderInv /\ SendInv
  BY ShapesInit, OrderInit
<1>2. ShapesInv /\ HolderInv /\ SendInv /\ [Next]_vars => (ShapesInv /\ HolderInv /\ SendInv)'
  BY ShapesStep, HolderStep, SendStep
<1> QED BY <1>1, <1>2, PTL DEF Spec

LEMMA AtMostOne ==
  ASSUME NEW S, \A x, y \in S : x = y
  PROVE  IsFiniteSet(S) /\ Cardinality(S) \in {0, 1} /\ (S = {} => Cardinality(S) = 0)
<1>1. CASE S = {}
  BY <1>1, FS_EmptySet
<1>2. CASE S # {}
  <2>1. PICK x \in S : S = {x}
    BY <1>2
  <2> QED BY <1>2, <2>1, FS_Singleton
<1> QED BY <1>1, <1>2

(* The messages of a request are sent in the order in which SendReply      *)
(* queued them and each once, by one worker at a time: whoever finds the   *)
(* request unmarked marks it before anybody wakes a worker for it.  Only a *)
(* lost or closed connection, which takes queues and marks away, ends that.*)
THEOREM SentOneByOne == Spec => []OneByOne
<1>1. ShapesInv /\ HolderInv /\ SendInv => OneByOne
  <2> SUFFICES ASSUME ShapesInv, HolderInv, SendInv PROVE OneByOne
    OBVIOUS
  <2>1. disorder \subseteq cleared
    BY DEF SendInv
  <2>2. ASSUME NEW r \in Reqs \ cleared
        PROVE  Cardinality({w \in Workers : worker[w].req = r}) + Cardinality(Notifying(r)) <= 1
    <3> DEFINE W == {w \in Workers : worker[w].req = r}
               N == Notifying(r)
    <3>1. /\ \A v, w \in W : v = w
          /\ \A s, t \in N : s = t
          /\ W = {} \/ N = {}
      BY <2>2 DEF HolderInv, OneHolder, Waking, Notifying
    <3>2. /\ Cardinality(W) \in {0, 1} /\ (W = {} => Cardinality(W) = 0)
          /\ Cardinality(N) \in {0, 1} /\ (N = {} => Cardinality(N) = 0)
      <4> HIDE DEF W, N
      <4> QED BY <3>1, AtMostOne
    <3> QED BY <3>1, <3>2
  <2> QED BY <2>1, <2>2 DEF OneByOne
<1> QED BY <1>1, OrderHolds, PTL

-----------------------------------------------------------------------------
LEMMA GivenUpGrows ==
  ASSUME BoundsOK, [Next]_vars
  PROVE  givenUp \subseteq givenUp'
BY SMTT(30), AckSteps DEF Register, OnReplyAckTimeout, HandleReplyAck, ClearAcks, histVars

LEMMA WireSteps ==
  ASSUME BoundsOK, [Next]_vars, NEW w \in Workers, NEW i,
         <<w, i>> \in onWire', <<w, i>> \notin onWire
  PROVE  SendFrame(w) /\ i = worker[w].item
<1>1. ASSUME NEW v \in Workers, SendFrame(v) PROVE v = w /\ i = worker[w].item
  BY <1>1 DEF SendFrame
<1>2. LinkStep => onWire' \subseteq onWire
  BY LinkDoes
<1> QED BY <1>1, <1>2, ReplySteps DEF Begin, Enqueue, Check, Return, Notify, WorkerStops, TakeNext,
      ClearMark, Register, TakeAnswer, Deliver, TimerFires, OnReplyAckTimeout, HandleReplyAck,
      ClearAcks, ClearQueues, ClearFlags, Authenticated, linkVars

(* Who takes another message's acknowledgement is of a request of which    *)
(* one was given up: otherwise its only frame is its worker's.             *)
LEMMA MistakenStep ==
  ASSUME ShapesInv, HolderInv, AckInv, [Next]_vars
  PROVE  mistaken' \subseteq 1..Queued' /\ AckMatches'
<1>0. BoundsOK /\ WorkersOK /\ AcksOK
  BY DEF ShapesInv
<1>1. /\ Queued \in Nat /\ Queued' \in Nat /\ Queued <= Queued'
      /\ \A i \in 1..Queued : reqOf'[i] = reqOf[i] /\ reqOf[i] \in Reqs
  BY <1>0, QueuedGrows
<1>2. ASSUME NEW f \in onWire, NEW good \in BOOLEAN, HandleReplyAck(f, good), NEW i \in mistaken'
      PROVE  i \in mistaken \/ (i \in 1..Queued /\ reqOf[i] \in givenUp \cup cleared)
  <2> DEFINE r == reqOf[f[2]]
             a == pending[r]
  <2> SUFFICES ASSUME i \notin mistaken
               PROVE  i \in 1..Queued /\ reqOf[i] \in givenUp \cup cleared
    OBVIOUS
  <2>1. i = a[2] /\ a # Nobody /\ a[2] # f[2]
    BY <1>2 DEF HandleReplyAck
  <2>2. f = <<f[1], f[2]>> /\ f[1] \in Workers /\ f[2] \in 1..Queued /\ r \in Reqs
    BY <1>0, <1>1 DEF BoundsOK
  <2>3. a = <<a[1], a[2]>> /\ a[1] \in Workers /\ a[2] \in Items
    BY <1>0, <2>1, <2>2 DEF AcksOK
  <2>4. worker[a[1]].pc = "await" /\ worker[a[1]].item = a[2] /\ worker[a[1]].req = r
    BY <1>0, <2>2, <2>3 DEF AcksOK
  <2>5. a[2] \in 1..Queued /\ reqOf[a[2]] = r
    BY <1>0, <1>1, <2>3, <2>4 DEF WorkersOK, WorkerAt, Holding, Queued
  <2>6. r \notin givenUp \cup cleared => worker[f[1]].req = r /\ worker[f[1]].item = f[2]
    <3>1. f[2] \in Items
      BY <1>0, <2>2, QueuedGrows, WxComAssumption DEF Items
    <3> QED BY <2>2, <3>1 DEF AckInv, OwnFrame
  <2>7. r \notin cleared /\ worker[f[1]].req = r => f[1] = a[1]
    BY <2>2, <2>3, <2>4 DEF HolderInv, OneHolder
  <2> HIDE DEF a, r
  <2>8. r \in givenUp \cup cleared
    BY <2>1, <2>4, <2>6, <2>7
  <2> QED BY <2>1, <2>5, <2>8
<1>3. mistaken \subseteq 1..Queued /\ \A i \in mistaken : reqOf[i] \in givenUp \cup cleared
  BY DEF AckInv, AckMatches
<1>4. ASSUME NEW i \in mistaken'
      PROVE  i \in 1..Queued /\ reqOf[i] \in givenUp \cup cleared
  BY <1>0, <1>2, <1>3, <1>4, AckSteps DEF Register, OnReplyAckTimeout, ClearAcks, histVars
<1>5. givenUp \subseteq givenUp' /\ cleared \subseteq cleared'
  BY <1>0, GivenUpGrows, ClearedGrows
<1> QED BY <1>1, <1>4, <1>5 DEF AckMatches

LEMMA OwnFrameStep ==
  ASSUME ShapesInv, ShapesInv', HolderInv, AckInv, [Next]_vars
  PROVE  OwnFrame'
<1>0. BoundsOK /\ WorkersOK /\ AcksOK
  BY DEF ShapesInv
<1>1. /\ Queued \in Nat /\ Queued <= MaxWork /\ MaxWork \in Nat
      /\ \A i \in 1..Queued : reqOf'[i] = reqOf[i] /\ reqOf[i] \in Reqs
  BY <1>0, QueuedGrows, WxComAssumption
<1> SUFFICES ASSUME NEW r \in Reqs \ (cleared' \cup givenUp'), NEW w \in Workers, NEW i \in Items,
                    <<w, i>> \in onWire', reqOf'[i] = r
             PROVE  /\ worker'[w].req = r /\ worker'[w].item = i
                    /\ worker'[w].pc \in {"register", "await"}
                    /\ worker'[w].pc = "await" => pending'[r] = <<w, i>>
  BY DEF OwnFrame
<1>2. r \in Reqs \ (cleared \cup givenUp)
  BY <1>0, ClearedGrows, GivenUpGrows
<1>3. CASE <<w, i>> \notin onWire
  <2>1. SendFrame(w) /\ i = worker[w].item
    BY <1>0, <1>3, WireSteps
  <2>2. worker[w].pc = "send" /\ reqOf' = reqOf
    BY <2>1 DEF SendFrame, itemVars
  <2>3. worker[w].req = r
    BY <1>0, <2>1, <2>2 DEF WorkersOK, WorkerAt, Holding
  <2>4. worker' = [worker EXCEPT ![w].pc = "register"]
    BY <1>3, <2>1 DEF SendFrame
  <2> QED BY <1>0, <2>1, <2>3, <2>4 DEF WorkersOK, WorkerAt
<1>4. CASE <<w, i>> \in onWire
  <2>1. i \in 1..Queued /\ reqOf[i] = r
    BY <1>0, <1>1, <1>4 DEF BoundsOK
  <2>2. /\ worker[w].req = r /\ worker[w].item = i /\ worker[w].pc \in {"register", "await"}
        /\ worker[w].pc = "await" => pending[r] = <<w, i>>
    BY <1>2, <1>4, <2>1 DEF AckInv, OwnFrame
  <2>3. \A v \in Workers : worker[v].req = r => v = w
    BY <1>2, <2>2 DEF HolderInv, OneHolder
  <2>4. CASE Register(w)
    <3>1. /\ pending' = [pending EXCEPT ![worker[w].req] = <<w, worker[w].item>>]
          /\ worker' = [worker EXCEPT ![w].pc = "await"]
      BY <2>4 DEF Register
    <3> QED BY <1>0, <1>2, <2>2, <3>1 DEF WorkersOK, WorkerAt, AcksOK
  <2>5. ~TakeAnswer(w)
    <3>1. worker[w].pc = "await" => ackBox[w] = {}
      BY <1>0, <1>2, <2>2 DEF AcksOK
    <3> QED BY <2>2, <3>1 DEF TakeAnswer
  <2>6. CASE ~Register(w)
    <3>1. worker'[w] = worker[w]
      <4>1. Authenticated => worker'[w] = worker[w]
        BY <2>2 DEF Authenticated, Stopped
      <4> QED BY <1>0, <2>2, <2>5, <2>6, <4>1, WorkerDoes DEF Notify, WorkerStops, TakeNext,
            ClearMark, SendFrame, Deliver
    <3>2. ASSUME worker[w].pc = "await" PROVE pending'[r] = pending[r]
      <4>1. ASSUME NEW v \in Workers, Register(v) PROVE pending'[r] = pending[r]
        <5>1. worker[v].req # r
          BY <2>3, <2>6, <4>1
        <5> QED BY <1>0, <1>2, <4>1, <5>1 DEF Register, AcksOK
      <4>2. ASSUME NEW a \in timers, OnReplyAckTimeout(a) PROVE pending'[r] = pending[r]
        <5>1. reqOf[a[2]] # r
          BY <4>2 DEF OnReplyAckTimeout
        <5> QED BY <1>0, <1>2, <4>2, <5>1 DEF OnReplyAckTimeout, AcksOK
      <4>3. ASSUME NEW f \in onWire, NEW good \in BOOLEAN, HandleReplyAck(f, good)
            PROVE  pending'[r] = pending[r]
        <5>1. f = <<f[1], f[2]>> /\ f[1] \in Workers /\ f[2] \in 1..Queued /\ f[2] \in Items
          BY <1>0, <1>1 DEF BoundsOK, Items
        <5>2. reqOf[f[2]] = r => f[1] = w /\ f[2] = i
          BY <1>2, <2>2, <2>3, <5>1 DEF AckInv, OwnFrame
        <5>3. f # <<w, i>>
          BY <4>3 DEF HandleReplyAck
        <5> QED BY <1>0, <1>2, <4>3, <5>1, <5>2, <5>3 DEF HandleReplyAck, AcksOK
      <4>4. ~ClearAcks
        <5>1. <<w, i>> # Nobody
          BY WxComAssumption DEF Items
        <5> QED BY <2>2, <3>2, <5>1 DEF ClearAcks
      <4> QED BY <1>0, <4>1, <4>2, <4>3, <4>4, AckSteps
    <3> QED BY <2>2, <3>1, <3>2
  <2> QED BY <2>4, <2>6
<1> QED BY <1>3, <1>4

(* A message is reported as sent on its own acknowledgement only, as long  *)
(* as no acknowledgement of its request was given up at a timeout and the  *)
(* request was not cleared: an acknowledgement names the request, not the  *)
(* message.                                                                *)
THEOREM AcknowledgedItself == Spec => []AckMatches
<1>1. Init => AckInv
  BY DEF Init, AckInv, OwnFrame, AckMatches
<1>2. (/\ ShapesInv /\ HolderInv /\ AckInv
       /\ ShapesInv' /\ [Next]_vars) => AckInv'
  BY MistakenStep, OwnFrameStep DEF AckInv
<1>3. AckInv => AckMatches
  BY DEF AckInv
<1> QED BY <1>1, <1>2, <1>3, OrderHolds, PTL DEF Spec

-----------------------------------------------------------------------------
(* Calls that wait for a response: types, who closes a response channel,   *)
(* and that no call ever returns the answer to another one.                *)

(* What HandleResponse carries, and what a channel holds, belongs to the   *)
(* request it is addressed to.                                             *)
InTransit ==
  /\ fan # NoCall => target = fan
  /\ \A r \in Requesters : buf[r] \in {r, NoCall}

Inv == CallsTypeOK /\ MapOwnsChannel /\ InTransit /\ OwnAnswer

LEMMA AppendKeepsType ==
  ASSUME NEW S, NEW q \in Seq(S), NEW x \in S, NEW q2, q2 = Append(q, x) \/ q2 = q
  PROVE  q2 \in Seq(S)
<1>1. CASE q2 = Append(q, x)
  BY <1>1
<1>2. CASE q2 = q
  BY <1>2
<1> QED BY <1>1, <1>2

LEMMA InitInv == CallsInit => Inv
BY RequestAssumption DEF RequestAssumption, CallsInit, Inv, CallsTypeOK, MapOwnsChannel,
  InTransit, OwnAnswer

(* The steps of one call: only its own entry, channel and result change.   *)
LEMMA RequesterKeepsInv ==
  ASSUME Inv, NEW r \in Requesters, RequesterStep(r)
  PROVE  Inv'
<1> USE RequestAssumption DEF RequestAssumption, Inv, CallsTypeOK, MapOwnsChannel,
      InTransit, OwnAnswer, GoTo, callVars, mapVars, wireVars
<1>1. CASE CreateRequest(r)
  BY <1>1 DEF CreateRequest
<1>2. CASE PublishRequest(r)
  <2> DEFINE m == [kind |-> "request", id |-> r]
  <2>1. m \in Message
    BY DEF Message
  <2>2. outQ' \in Seq(Message)
    <3>1. outQ' = Append(outQ, m) \/ outQ' = outQ
      BY <1>2 DEF PublishRequest
    <3> HIDE DEF m
    <3>2. outQ \in Seq(Message)
      OBVIOUS
    <3> QED BY <2>1, <3>1, <3>2, AppendKeepsType
  <2>3. pc' \in [Requesters -> {"idle", "created", "waiting", "leaving", "done"}]
    BY <1>2 DEF PublishRequest
  <2>4. /\ \A q \in Requesters : result'[q] = "ok" => result[q] = "ok"
        /\ result' \in [Requesters ->
             {"none", "unsent", "ok", "nil", "deadline", "cancelled"}]
    BY <1>2 DEF PublishRequest
  <2> QED BY <1>2, <2>2, <2>3, <2>4 DEF PublishRequest
<1>3. CASE TakeResponse(r)
  BY <1>3 DEF TakeResponse
<1>4. CASE TakeTimeout(r)
  BY <1>4 DEF TakeTimeout
<1>5. CASE TakeCancel(r)
  BY <1>5 DEF TakeCancel
<1>6. CASE Leave(r)
  BY <1>6 DEF Leave, Drop
<1>7. CASE Expire(r) \/ Cancel(r)
  BY <1>7 DEF Expire, Cancel
<1> QED BY <1>1, <1>2, <1>3, <1>4, <1>5, <1>6, <1>7 DEF RequesterStep

(* The steps of the sweeper, the fanout and the dispatcher.                *)
LEMMA OthersKeepInv ==
  ASSUME Inv,
         CleanupStaleRequests \/ FanRequest \/ HandleResponse \/ HandleSend
           \/ Dispatch \/ Respond
  PROVE  Inv'
<1> USE RequestAssumption DEF RequestAssumption, Inv, CallsTypeOK, MapOwnsChannel,
      InTransit, OwnAnswer, callVars, mapVars, wireVars
<1>1. CASE CleanupStaleRequests
  <2>1. PICK S \in SUBSET registered : Drop(S)
    BY <1>1 DEF CleanupStaleRequests
  <2> QED BY <1>1, <2>1 DEF CleanupStaleRequests, Drop
<1>2. CASE FanRequest
  <2>1. Head(outQ) \in Message /\ Tail(outQ) \in Seq(Message)
    BY <1>2 DEF FanRequest
  <2>2. Head(outQ).id \in Requesters
    BY <2>1 DEF Message
  <2>3. sub' \in Seq(Requesters)
    <3>1. sub' = Append(sub, Head(outQ).id) \/ sub' = sub
      BY <1>2 DEF FanRequest
    <3>2. sub \in Seq(Requesters)
      OBVIOUS
    <3> QED BY <2>2, <3>1, <3>2, AppendKeepsType
  <2> QED BY <1>2, <2>1, <2>3 DEF FanRequest
<1>3. CASE HandleResponse
  <2>1. Head(outQ) \in Message /\ Tail(outQ) \in Seq(Message)
    BY <1>3 DEF HandleResponse
  <2>2. Head(outQ).id \in Requesters
    BY <2>1 DEF Message
  <2>3. \/ fan' = fan /\ target' = target
        \/ fan' = Head(outQ).id /\ target' = Head(outQ).id
    BY <1>3 DEF HandleResponse
  <2> QED BY <1>3, <2>1, <2>2, <2>3 DEF HandleResponse
<1>4. CASE HandleSend
  BY <1>4 DEF HandleSend
<1>5. CASE Dispatch
  BY <1>5 DEF Dispatch
<1>6. CASE Respond
  <2> DEFINE m == [kind |-> "response", id |-> serving]
  <2>1. m \in Message
    BY <1>6 DEF Message, Respond
  <2>2. outQ' \in Seq(Message)
    <3>1. outQ' = Append(outQ, m) \/ outQ' = outQ
      BY <1>6 DEF Respond
    <3> HIDE DEF m
    <3>2. outQ \in Seq(Message)
      OBVIOUS
    <3> QED BY <2>1, <3>1, <3>2, AppendKeepsType
  <2> QED BY <1>6, <2>2 DEF Respond
<1> QED BY <1>1, <1>2, <1>3, <1>4, <1>5, <1>6

LEMMA NextInv == Inv /\ [CallsNext]_callsVars => Inv'
<1> SUFFICES ASSUME Inv, [CallsNext]_callsVars PROVE Inv'
  OBVIOUS
<1>1. CASE CallsNext
  BY <1>1, RequesterKeepsInv, OthersKeepInv DEF CallsNext
<1>2. CASE UNCHANGED callsVars
  BY <1>2 DEF callsVars, callVars, mapVars, wireVars, Inv, CallsTypeOK, MapOwnsChannel,
    InTransit, OwnAnswer
<1> QED BY <1>1, <1>2

LEMMA Invariance == CallsSpec => []Inv
BY InitInv, NextInv, PTL DEF CallsSpec

(* The variables keep their shape; every message names a call.             *)
THEOREM CallsTypeCorrect == CallsSpec => []CallsTypeOK
<1>1. Inv => CallsTypeOK
  BY DEF Inv
<1> QED BY <1>1, Invariance, PTL

(* A response channel is open exactly while its entry is in the map, so    *)
(* WaitForResponse's deferred cleanup and CleanupStaleRequests never close *)
(* one twice.                                                              *)
THEOREM MapOwnsChannels == CallsSpec => []MapOwnsChannel
<1>1. Inv => MapOwnsChannel
  BY DEF Inv
<1> QED BY <1>1, Invariance, PTL

(* No call returns the answer to another call's request, however the       *)
(* timeouts, sweeps, responses and new calls interleave (HandleResponse).  *)
THEOREM AnswersMatch == CallsSpec => []OwnAnswer
<1>1. Inv => OwnAnswer
  BY DEF Inv
<1> QED BY <1>1, Invariance, PTL
=============================================================================
