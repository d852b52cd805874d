---------------------------- MODULE EventTopics ----------------------------
(***************************************************************************)
(* The chat-event and log-event topics of bus.MessageBus and the slog      *)
(* handlers that feed the log topic.                                       *)
(*                                                                         *)
(* A publisher never waits for room: a full queue drops the event, and     *)
(* reports it with slog.Debug while it still holds b.mu.RLock.  Which slog *)
(* handler receives that record depends on the program.  The TUI installs  *)
(* bus.busLogHandler at debug level (bus/slog_handler.go): it asks         *)
(* IsClosed, which takes the read lock again, and then sends on logEvents  *)
(* with no lock.  The gateway installs a handler of its own at info level, *)
(* which goes through PublishLogEvent (gateway/gateway.go) and drops       *)
(* debug.                                                                  *)
(***************************************************************************)
EXTENDS Naturals, Sequences, FiniteSets

CONSTANTS
  Emitters,     \* goroutines that publish events or write log records
  Closer,       \* the goroutine that calls Close
  Subs,         \* subscriptions of both topics
  TopicOf,      \* the topic of each subscription
  Channels,     \* channel names of chat events
  FilterOf,     \* the channel filter of each subscription; {} is "all"
  Handlers,     \* the slog handlers to consider, see direct
  Nobody,
  BufSize,      \* capacity of a topic's queue (100)
  SubBuf,       \* capacity of a subscriber's channel (100)
  MaxEvents     \* bound on the events accepted, for TLC only

Topics == {"chat", "log"}
Procs == Emitters \cup {Closer}

ASSUME TopicsAssumption ==
  /\ Closer \notin Emitters /\ Nobody \notin Procs
  /\ TopicOf \in [Subs -> Topics]
  /\ FilterOf \in [Subs -> SUBSET Channels]
  /\ \A s \in Subs : TopicOf[s] = "log" => FilterOf[s] = {}
  /\ Handlers \subseteq BOOLEAN
  /\ BufSize \in Nat \ {0} /\ SubBuf \in Nat \ {0} /\ MaxEvents \in Nat

VARIABLES
  direct,    \* TRUE: bus.busLogHandler at debug level (the TUI); fixed at the start
  pc,        \* where each emitter and the closer are
  topic,     \* the topic an emitter is publishing to
  readers,   \* who holds b.mu.RLock
  writer,    \* the closer, once it called b.mu.Lock
  hmu,       \* who holds busLogHandler.mu
  closed,    \* b.closed
  open,      \* b.chatEvents and b.logEvents are open channels
  queue,     \* the content of each topic's queue, as indices of accepted
  accepted,  \* every event a topic's queue took, in order
  fan,       \* the fanout goroutine of each topic: the event in its hands, 0: none
  chan,      \* "none", "open" or "closed": the subscribers' channels
  subQ, got, \* what each subscriber's channel holds, and what was read from it
  panicked

lockVars == <<readers, writer, hmu>>
queueVars == <<queue, accepted>>
subVars == <<chan, subQ, got>>
vars == <<direct, pc, topic, lockVars, closed, open, queueVars, fan, subVars, panicked>>

(* An event is known by its channel; log events all look the same.         *)
Event(t) == IF t = "chat" THEN Channels ELSE {"log"}

CanRLock == writer = Nobody
GoTo(p, l) == pc' = [pc EXCEPT ![p] = l]

Matching(t, e) ==
  {s \in Subs : /\ TopicOf[s] = t /\ chan[s] = "open"
                /\ FilterOf[s] = {} \/ e \in FilterOf[s]}

Init ==
  /\ direct \in Handlers
  /\ pc = [p \in Procs |-> "idle"] /\ topic = [p \in Emitters |-> "chat"]
  /\ readers = {} /\ writer = Nobody /\ hmu = Nobody
  /\ closed = FALSE /\ open = TRUE
  /\ queue = [t \in Topics |-> <<>>] /\ accepted = [t \in Topics |-> <<>>]
  /\ fan = [t \in Topics |-> 0]
  /\ chan = [s \in Subs |-> "none"]
  /\ subQ = [s \in Subs |-> <<>>] /\ got = [s \in Subs |-> <<>>]
  /\ panicked = FALSE

-----------------------------------------------------------------------------
(* TLC's bound, with the events about to be offered counted in.            *)
Room ==
  Len(accepted["chat"]) + Len(accepted["log"])
    + Cardinality({p \in Emitters : pc[p] = "select"}) < MaxEvents

(* PublishChatEvent and PublishLogEvent: the read lock, then the select.   *)
Publish(p, t) ==
  /\ pc[p] = "idle" /\ CanRLock /\ ~closed /\ Room
  /\ readers' = readers \cup {p}
  /\ topic' = [topic EXCEPT ![p] = t]
  /\ GoTo(p, "select")
  /\ UNCHANGED <<direct, writer, hmu, closed, open, queueVars, fan, subVars, panicked>>

Enqueue(t, e) ==
  /\ accepted' = [accepted EXCEPT ![t] = Append(@, e)]
  /\ queue' = [queue EXCEPT ![t] = Append(@, Len(accepted[t]) + 1)]

(* Mutant: the send is a plain one, outside the lock.                      *)
OfferUnlocked(p) ==
  /\ pc[p] = "select" /\ p \in readers
  /\ readers' = readers \ {p}
  /\ GoTo(p, "send")
  /\ UNCHANGED <<direct, topic, writer, hmu, closed, open, queueVars, fan, subVars, panicked>>

(* There is room: the event is queued, unless the context is done as well  *)
(* and the select takes that arm.  A closed channel makes the send panic.  *)
Offer(p) ==
  /\ pc[p] = "select" /\ Len(queue[topic[p]]) < BufSize
  /\ \/ open /\ UNCHANGED panicked /\ \E e \in Event(topic[p]) : Enqueue(topic[p], e)
     \/ open /\ UNCHANGED <<panicked, queueVars>>
     \/ ~open /\ panicked' = TRUE /\ UNCHANGED queueVars
  /\ readers' = readers \ {p}
  /\ GoTo(p, "idle")
  /\ UNCHANGED <<direct, topic, writer, hmu, closed, open, fan, subVars>>

(* Mutant: the record is handed to a handler that asks IsClosed, in any    *)
(* mode.                                                                   *)
FullHandled(p) ==
  /\ pc[p] = "select" /\ Len(queue[topic[p]]) = BufSize
  /\ GoTo(p, "handle")
  /\ UNCHANGED <<direct, topic, lockVars, closed, open, queueVars, fan, subVars, panicked>>

(* No room: the default arm drops the event and writes a debug record,     *)
(* which the TUI's handler takes on the spot, inside the read lock.        *)
Full(p) ==
  /\ pc[p] = "select" /\ Len(queue[topic[p]]) = BufSize
  /\ IF direct
     THEN GoTo(p, "handle") /\ UNCHANGED readers
     ELSE GoTo(p, "idle") /\ readers' = readers \ {p}
  /\ UNCHANGED <<direct, topic, writer, hmu, closed, open, queueVars, fan, subVars, panicked>>

(* Any other slog call of the program under the TUI's handler.             *)
LogDirect(p) ==
  /\ direct /\ pc[p] = "idle"
  /\ GoTo(p, "handle")
  /\ UNCHANGED <<direct, topic, lockVars, closed, open, queueVars, fan, subVars, panicked>>

(* busLogHandler.Handle: h.mu, IsClosed, then a bare non-blocking send.    *)
HandleLock(p) ==
  /\ pc[p] = "handle" /\ hmu = Nobody
  /\ hmu' = p
  /\ GoTo(p, "check")
  /\ UNCHANGED <<direct, topic, readers, writer, closed, open, queueVars, fan, subVars, panicked>>

(* Handle's defers, and those of the publish call it may be nested in.     *)
LeaveHandle(p) ==
  /\ hmu' = Nobody
  /\ readers' = readers \ {p}

HandleIsClosed(p) ==
  /\ pc[p] = "check" /\ CanRLock
  /\ IF closed
     THEN LeaveHandle(p) /\ GoTo(p, "idle")
     ELSE GoTo(p, "send") /\ UNCHANGED <<hmu, readers>>
  /\ UNCHANGED <<direct, topic, writer, closed, open, queueVars, fan, subVars, panicked>>

HandleSend(p) ==
  /\ pc[p] = "send"
  /\ IF open
     THEN /\ IF Len(queue["log"]) < BufSize /\ Room
             THEN Enqueue("log", "log") ELSE UNCHANGED queueVars
          /\ UNCHANGED panicked
     ELSE panicked' = TRUE /\ UNCHANGED queueVars
  /\ LeaveHandle(p)
  /\ GoTo(p, "idle")
  /\ UNCHANGED <<direct, topic, writer, closed, open, fan, subVars>>

-----------------------------------------------------------------------------
Subscribe(s) ==
  /\ chan[s] = "none"
  /\ chan' = [chan EXCEPT ![s] = "open"]
  /\ UNCHANGED <<direct, pc, topic, lockVars, closed, open, queueVars, fan, subQ, got, panicked>>

(* The map entry goes with the channel: an id that is gone is not closed.  *)
Unsubscribe(s) ==
  /\ chan[s] = "open"
  /\ chan' = [chan EXCEPT ![s] = "closed"]
  /\ UNCHANGED <<direct, pc, topic, lockVars, closed, open, queueVars, fan, subQ, got, panicked>>

Receive(s) ==
  /\ subQ[s] # <<>>
  /\ got' = [got EXCEPT ![s] = Append(@, Head(subQ[s]))]
  /\ subQ' = [subQ EXCEPT ![s] = Tail(@)]
  /\ UNCHANGED <<direct, pc, topic, lockVars, closed, open, queueVars, fan, chan, panicked>>

(* fanoutChatEvents and fanoutLogEvents: take an event ...                 *)
FanReceive(t) ==
  /\ fan[t] = 0 /\ queue[t] # <<>>
  /\ fan' = [fan EXCEPT ![t] = Head(queue[t])]
  /\ queue' = [queue EXCEPT ![t] = Tail(@)]
  /\ UNCHANGED <<direct, pc, topic, lockVars, closed, open, accepted, subVars, panicked>>

(* ... drop it when nobody subscribes at the moment it counts ...          *)
FanSkip(t) ==
  /\ fan[t] # 0 /\ \A s \in Subs : TopicOf[s] = t => chan[s] # "open"
  /\ fan' = [fan EXCEPT ![t] = 0]
  /\ UNCHANGED <<direct, pc, topic, lockVars, closed, open, queueVars, subVars, panicked>>

(* Mutant: the event stays in hand and is offered again.                   *)
FanDeliverAgain(t) ==
  /\ fan[t] # 0
  /\ LET to == Matching(t, accepted[t][fan[t]]) IN
       subQ' = [s \in Subs |-> IF s \in to /\ Len(subQ[s]) < SubBuf
                               THEN Append(subQ[s], fan[t]) ELSE subQ[s]]
  /\ UNCHANGED <<direct, pc, topic, lockVars, closed, open, queueVars, fan, chan, got, panicked>>

(* ... or offer it to every matching subscriber without waiting.           *)
FanDeliver(t) ==
  /\ fan[t] # 0
  /\ LET to == Matching(t, accepted[t][fan[t]]) IN
       subQ' = [s \in Subs |-> IF s \in to /\ Len(subQ[s]) < SubBuf
                               THEN Append(subQ[s], fan[t]) ELSE subQ[s]]
  /\ fan' = [fan EXCEPT ![t] = 0]
  /\ UNCHANGED <<direct, pc, topic, lockVars, closed, open, queueVars, chan, got, panicked>>

-----------------------------------------------------------------------------
CloseBegin ==
  /\ pc[Closer] = "idle"
  /\ writer' = Closer
  /\ GoTo(Closer, "lock")
  /\ UNCHANGED <<direct, topic, readers, hmu, closed, open, queueVars, fan, subVars, panicked>>

(* The body of Close: sweep both maps of subscribers.                      *)
CloseSweep ==
  /\ pc[Closer] = "lock" /\ readers = {}
  /\ closed' = TRUE
  /\ chan' = [s \in Subs |-> IF chan[s] = "open" THEN "closed" ELSE chan[s]]
  /\ GoTo(Closer, "swept")
  /\ UNCHANGED <<direct, topic, lockVars, open, queueVars, fan, subQ, got, panicked>>

(* close(b.chatEvents), close(b.logEvents), and the deferred Unlock.       *)
CloseQueues ==
  /\ pc[Closer] = "swept"
  /\ open' = FALSE
  /\ writer' = Nobody
  /\ GoTo(Closer, "done")
  /\ UNCHANGED <<direct, topic, readers, hmu, closed, queueVars, fan, subVars, panicked>>

-----------------------------------------------------------------------------
Next ==
  \/ \E p \in Emitters :
       \/ \E t \in Topics : Publish(p, t)
       \/ Offer(p) \/ Full(p) \/ LogDirect(p)
       \/ HandleLock(p) \/ HandleIsClosed(p) \/ HandleSend(p)
  \/ \E s \in Subs : Subscribe(s) \/ Unsubscribe(s) \/ Receive(s)
  \/ \E t \in Topics : FanReceive(t) \/ FanSkip(t) \/ FanDeliver(t)
  \/ CloseBegin \/ CloseSweep \/ CloseQueues

Spec == Init /\ [][Next]_vars

(* Goroutines that can run do; the mutex of the handler and the lock of    *)
(* the bus are handed to those who wait for them.                          *)
Fairness ==
  /\ \A p \in Emitters :
       /\ WF_vars(Offer(p)) /\ WF_vars(Full(p))
       /\ SF_vars(HandleLock(p)) /\ SF_vars(HandleIsClosed(p))
       /\ WF_vars(HandleSend(p))
  /\ \A t \in Topics : WF_vars(FanReceive(t)) /\ WF_vars(FanSkip(t) \/ FanDeliver(t))
  /\ WF_vars(CloseSweep) /\ WF_vars(CloseQueues)

FairSpec == Spec /\ Fairness

-----------------------------------------------------------------------------
(* Shapes of the variables; the handler's mutex has one holder, who is in  *)
(* Handle, and readers of the bus lock are publishers that have not        *)
(* returned.                                                               *)
ControlOK ==
  /\ pc \in [Procs -> {"idle", "select", "handle", "check", "send",
                       "lock", "swept", "done"}]
  /\ topic \in [Emitters -> Topics]
  /\ readers \subseteq Emitters /\ writer \in {Closer, Nobody}
  /\ hmu \in Emitters \cup {Nobody}
  /\ direct \in BOOLEAN /\ closed \in BOOLEAN /\ open \in BOOLEAN /\ panicked \in BOOLEAN
  /\ \A p \in Emitters : pc[p] \in {"check", "send"} => hmu = p
  /\ \A p \in readers : pc[p] \in {"select", "handle", "check", "send"}
QueueOK == /\ queue \in [Topics -> Seq(Nat)]
           /\ accepted \in [Topics -> Seq(Channels \cup {"log"})]
           /\ fan \in [Topics -> Nat]
SubsOK == /\ chan \in [Subs -> {"none", "open", "closed"}]
          /\ subQ \in [Subs -> Seq(Nat)] /\ got \in [Subs -> Seq(Nat)]

TypeOK == ControlOK /\ QueueOK /\ SubsOK

(* With the gateway's handler every send is made under the read lock, and  *)
(* no event is sent on a topic that Close has closed.                      *)
NoPanic == panicked => direct

Delivered(s) == got[s] \o subQ[s]

(* Each subscriber sees a subsequence of its topic's events, in the order  *)
(* they were published and none of them twice, filtered by channel.        *)
EventOrder ==
  \A s \in Subs :
    LET d == Delivered(s) IN
      /\ \A k \in 2..Len(d) : d[k - 1] < d[k]
      /\ \A k \in 1..Len(d) :
           FilterOf[s] # {} => accepted[TopicOf[s]][d[k]] \in FilterOf[s]

(* Publishing never waits for a subscriber, a fanout or a full queue: with *)
(* the gateway's handler a publisher that got past the lock comes back     *)
(* (comment of Handle, "non-blocking", and the default arms of the         *)
(* selects). And Close is not kept waiting for ever by publishers of       *)
(* events.                                                                 *)
PublishReturns ==
  /\ \A p \in Emitters : pc[p] \in {"select", "handle"} ~> pc[p] = "idle" \/ direct
  /\ pc[Closer] = "lock" ~> pc[Closer] = "done" \/ direct
=============================================================================
