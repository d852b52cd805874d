----------------------------- MODULE MessageBus -----------------------------
(***************************************************************************)
(* The inbound and outbound halves of bus.MessageBus (src/bus/queue.go).   *)
(*                                                                         *)
(* Publishers and the one inbound consumer (agent.Manager) hold the read   *)
(* lock of b.mu for as long as their channel operation blocks; Close and   *)
(* SetResponseHandler need the write lock.  One goroutine, the fanout,     *)
(* empties the outbound channel: it offers a response to the response      *)
(* handler and copies every other message, without blocking, into the      *)
(* buffer of each subscriber whose filter matches.                         *)
(*                                                                         *)
(* sync.RWMutex is modelled with Go's rule that a pending Lock stops new   *)
(* RLocks.  outSubsMu is only held across straight-line code, so each of   *)
(* its critical sections is one step.  A Go channel is a sequence with a   *)
(* capacity and an open flag; a send to, or a second close of, a closed    *)
(* channel panics and takes the process down.                              *)
(***************************************************************************)
EXTENDS Naturals, Sequences, FiniteSets

CONSTANTS
  Publishers,   \* goroutines that publish to either queue
  Consumer,     \* the goroutine that runs agent.Manager.processMessages
  Fan,          \* the goroutine that runs fanoutMessages
  Closers,      \* goroutines that call Close
  Setters,      \* goroutines that call SetResponseHandler
  Subs,         \* subscription ids
  Takers,       \* the ids that ConsumeOutboundFiltered creates for itself
  Channels,     \* channel names
  Kinds,        \* the outbound messages that are published
  FilterOf,     \* the channel filter of each subscription; {} is "all"
  Cancellable,  \* callers whose context is cancelled some day
  Nobody,       \* no process, no message
  BufSize,      \* capacity of the two queues (100 in gateway.go)
  SubBuf,       \* capacity of a subscriber's channel (100)
  MaxSent       \* bound on what is published, for TLC only

Procs == Publishers \cup {Consumer, Fan} \cup Closers \cup Setters \cup Takers

ASSUME BusAssumption ==
  /\ Takers \subseteq Subs
  /\ FilterOf \in [Subs -> SUBSET Channels]
  /\ Cancellable \subseteq Publishers \cup {Consumer} \cup Takers
  /\ Nobody \notin Procs
  /\ Consumer # Fan
  /\ Consumer \notin Publishers \cup Closers \cup Setters \cup Takers
  /\ Fan \notin Publishers \cup Closers \cup Setters \cup Takers
  /\ Publishers \cap (Closers \cup Setters \cup Takers) = {}
  /\ Closers \cap (Setters \cup Takers) = {}
  /\ Setters \cap Takers = {}
  /\ BufSize \in Nat \ {0} /\ SubBuf \in Nat \ {0}
  /\ MaxSent \in Nat

VARIABLES
  pc,          \* where each goroutine is
  readers,     \* who holds b.mu.RLock
  writer,      \* who called b.mu.Lock: pending while readers # {}, then holder
  cancelled,   \* whose context is done
  closed,      \* b.closed
  handlerSet,  \* b.responseHandler # nil
  inQ, inOpen, \* the inbound channel: sequence numbers of its messages
  inSent,      \* how many messages were ever accepted inbound
  taken,       \* the inbound messages ConsumeInbound returned, in order
  outQ,        \* the outbound channel: indices into log
  outOpen,
  log,         \* every message the outbound channel accepted, in order
  cur,         \* the message the fanout is working on, 0 for none
  handled,     \* messages the response handler claimed
  outSubs,     \* the keys of b.outSubs
  chan,        \* "none", "open" or "closed": each subscriber's channel
  subQ,        \* the content of each subscriber's channel
  got,         \* what each subscriber has received, in order
  held,        \* the outbound message a publisher is trying to send
  panicked     \* a goroutine hit a closed channel

lockVars == <<readers, writer>>
inVars   == <<inQ, inOpen, inSent, taken>>
outVars  == <<outQ, outOpen, log, held>>
fanVars  == <<cur, handled>>
subVars  == <<outSubs, chan, subQ, got>>
flagVars == <<cancelled, closed, handlerSet, panicked>>
vars == <<pc, lockVars, inVars, outVars, fanVars, subVars, flagVars>>

(* An outbound message: its channel and whether it answers a request.      *)
Msg == Kinds \cap [channel : Channels, resp : BOOLEAN]
(* Mutant: the filter is ignored.                                          *)
MatchEverything(c, s) == TRUE

MatchChannel(c, s) == FilterOf[s] = {} \/ c \in FilterOf[s]

CanRLock == writer = Nobody

(* TLC's bound counts the messages on their way in as well.                *)
At(l) == {p \in Procs : pc[p] = l}
Room == inSent + Len(log) + Cardinality(At("sendIn") \cup At("sendOut")) < MaxSent

GoTo(p, l) == pc' = [pc EXCEPT ![p] = l]

Init ==
  /\ pc = [p \in Procs |-> IF p = Fan THEN "recv" ELSE "idle"]
  /\ readers = {} /\ writer = Nobody
  /\ cancelled = {} /\ closed = FALSE /\ handlerSet = FALSE /\ panicked = FALSE
  /\ inQ = <<>> /\ inOpen = TRUE /\ inSent = 0 /\ taken = <<>>
  /\ outQ = <<>> /\ outOpen = TRUE /\ log = <<>>
  /\ held = [p \in Publishers |-> Nobody]
  /\ cur = 0 /\ handled = {}
  /\ outSubs = {} /\ chan = [s \in Subs |-> "none"]
  /\ subQ = [s \in Subs |-> <<>>] /\ got = [s \in Subs |-> <<>>]

-----------------------------------------------------------------------------
(* Mutant: the lock is released before the send.                           *)
PublishInboundUnlocked(p) ==
  /\ pc[p] = "idle" /\ CanRLock /\ ~closed /\ Room
  /\ GoTo(p, "sendIn")
  /\ UNCHANGED <<lockVars, inVars, outVars, fanVars, subVars, flagVars>>

(* PublishInbound: take the read lock, give up if the bus is closed, else  *)
(* block in the select with the lock held.                                 *)
PublishInbound(p) ==
  /\ pc[p] = "idle" /\ CanRLock /\ ~closed /\ Room
  /\ readers' = readers \cup {p}
  /\ GoTo(p, "sendIn")
  /\ UNCHANGED <<writer, inVars, outVars, fanVars, subVars, flagVars>>

(* The send itself, then the deferred RUnlock.                             *)
SendInbound(p) ==
  /\ pc[p] = "sendIn"
  /\ IF inOpen
     THEN /\ Len(inQ) < BufSize
          /\ inSent' = inSent + 1
          /\ inQ' = Append(inQ, inSent + 1)
          /\ UNCHANGED panicked
     ELSE panicked' = TRUE /\ UNCHANGED <<inQ, inSent>>
  /\ readers' = readers \ {p}
  /\ GoTo(p, "idle")
  /\ UNCHANGED <<writer, inOpen, taken, outVars, fanVars, subVars,
                 cancelled, closed, handlerSet>>

PublishOutbound(p) ==
  /\ pc[p] = "idle" /\ CanRLock /\ ~closed /\ Room
  /\ \E m \in Msg : held' = [held EXCEPT ![p] = m]
  /\ readers' = readers \cup {p}
  /\ GoTo(p, "sendOut")
  /\ UNCHANGED <<writer, inVars, outQ, outOpen, log, fanVars, subVars, flagVars>>

SendOutbound(p) ==
  /\ pc[p] = "sendOut"
  /\ IF outOpen
     THEN /\ Len(outQ) < BufSize
          /\ log' = Append(log, held[p])
          /\ outQ' = Append(outQ, Len(log) + 1)
          /\ UNCHANGED panicked
     ELSE panicked' = TRUE /\ UNCHANGED <<log, outQ>>
  /\ held' = [held EXCEPT ![p] = Nobody]
  /\ readers' = readers \ {p}
  /\ GoTo(p, "idle")
  /\ UNCHANGED <<writer, inVars, outOpen, fanVars, subVars,
                 cancelled, closed, handlerSet>>
(* Mutant: a select without the ctx.Done() arm.                            *)
PublishUncancellable(p) == FALSE /\ UNCHANGED vars

(* The other arm of a publisher's select: ctx.Done().                      *)
PublishCancelled(p) ==
  /\ pc[p] \in {"sendIn", "sendOut"} /\ p \in cancelled
  /\ held' = [held EXCEPT ![p] = Nobody]
  /\ readers' = readers \ {p}
  /\ GoTo(p, "idle")
  /\ UNCHANGED <<writer, inVars, outQ, outOpen, log, fanVars, subVars, flagVars>>

-----------------------------------------------------------------------------
(* ConsumeInbound as processMessages calls it, over and over: ErrBusClosed *)
(* and a cancelled context end the loop.                                   *)
ConsumeInbound ==
  /\ pc[Consumer] = "idle" /\ CanRLock
  /\ IF closed
     THEN GoTo(Consumer, "done") /\ UNCHANGED readers
     ELSE GoTo(Consumer, "wait") /\ readers' = readers \cup {Consumer}
  /\ UNCHANGED <<writer, inVars, outVars, fanVars, subVars, flagVars>>
ReceiveInbound ==
  /\ pc[Consumer] = "wait" /\ inQ # <<>>
  /\ taken' = Append(taken, Head(inQ))
  /\ inQ' = Tail(inQ)
  /\ readers' = readers \ {Consumer}
  /\ GoTo(Consumer, "idle")
  /\ UNCHANGED <<writer, inOpen, inSent, outVars, fanVars, subVars, flagVars>>

(* Mutant: the context is looked at after the receive.                     *)
ConsumeCancelledLate ==
  /\ Consumer \in cancelled
  /\ pc[Consumer] \in {"idle", "wait"}
  /\ inQ # <<>> /\ inQ' = Tail(inQ)
  /\ readers' = readers \ {Consumer}
  /\ GoTo(Consumer, "done")
  /\ UNCHANGED <<writer, inOpen, inSent, taken, outVars, fanVars, subVars, flagVars>>

ConsumeCancelled ==
  /\ Consumer \in cancelled
  /\ pc[Consumer] \in {"idle", "wait"}
  /\ readers' = readers \ {Consumer}
  /\ GoTo(Consumer, "done")
  /\ UNCHANGED <<writer, inVars, outVars, fanVars, subVars, flagVars>>

(* The owner of a context cancels it.                                      *)
Cancel(p) ==
  /\ p \in Cancellable \ cancelled
  /\ cancelled' = cancelled \cup {p}
  /\ UNCHANGED <<pc, lockVars, inVars, outVars, fanVars, subVars,
                 closed, handlerSet, panicked>>

-----------------------------------------------------------------------------
(* Subscriptions.  SubscribeOutboundFiltered never looks at b.closed.      *)
AddSub(s) ==
  /\ chan[s] = "none"
  /\ chan' = [chan EXCEPT ![s] = "open"]
  /\ outSubs' = outSubs \cup {s}
  /\ UNCHANGED <<subQ, got>>

SubscribeOutboundFiltered(s) ==
  /\ AddSub(s)
  /\ UNCHANGED <<pc, lockVars, inVars, outVars, fanVars, flagVars>>

(* delete(b.outSubs, id); close(sub.ch), only when the id is present.      *)
RemoveSub(s) ==
  IF s \in outSubs
  THEN /\ outSubs' = outSubs \ {s}
       /\ chan' = [chan EXCEPT ![s] = "closed"]
       /\ panicked' = (panicked \/ chan[s] = "closed")
  ELSE UNCHANGED <<outSubs, chan, panicked>>

UnsubscribeOutbound(s) ==
  /\ chan[s] # "none"
  /\ RemoveSub(s)
  /\ UNCHANGED <<pc, lockVars, inVars, outVars, fanVars, subQ, got,
                 cancelled, closed, handlerSet>>

(* A subscriber's goroutine takes the next message; a closed channel still *)
(* hands out what it holds.                                                *)
Receive(s) ==
  /\ subQ[s] # <<>>
  /\ got' = [got EXCEPT ![s] = Append(@, Head(subQ[s]))]
  /\ subQ' = [subQ EXCEPT ![s] = Tail(@)]
  /\ UNCHANGED <<pc, lockVars, inVars, outVars, fanVars, outSubs, chan, flagVars>>

(* ConsumeOutboundFiltered: a subscription that lives for one message,     *)
(* with the read lock of b.mu held throughout.                             *)
TakeBegin(s) ==
  /\ pc[s] = "idle" /\ CanRLock /\ ~closed /\ AddSub(s)
  /\ readers' = readers \cup {s}
  /\ GoTo(s, "wait")
  /\ UNCHANGED <<writer, inVars, outVars, fanVars, flagVars>>

TakeEnd(s) ==
  /\ pc[s] = "wait"
  /\ \/ /\ subQ[s] # <<>>
        /\ got' = [got EXCEPT ![s] = Append(@, Head(subQ[s]))]
        /\ subQ' = [subQ EXCEPT ![s] = Tail(@)]
     \/ s \in cancelled /\ UNCHANGED <<got, subQ>>
  /\ RemoveSub(s)
  /\ readers' = readers \ {s}
  /\ GoTo(s, "done")
  /\ UNCHANGED <<writer, inVars, outVars, fanVars, cancelled, closed, handlerSet>>

-----------------------------------------------------------------------------
(* fanoutMessages, the only reader of the outbound channel.                *)
FanReceive ==
  /\ pc[Fan] = "recv" /\ outQ # <<>>
  /\ cur' = Head(outQ)
  /\ outQ' = Tail(outQ)
  /\ GoTo(Fan, "handle")
  /\ UNCHANGED <<lockVars, inVars, outOpen, log, held, handled, subVars, flagVars>>
(* Mutant: no continue after a handled response.                           *)
FanHandleFallThrough ==
  /\ pc[Fan] = "handle" /\ CanRLock
  /\ handled' = IF handlerSet /\ log[cur].resp THEN handled \cup {cur} ELSE handled
  /\ GoTo(Fan, "count")
  /\ UNCHANGED <<cur, lockVars, inVars, outVars, subVars, flagVars>>

(* Read b.responseHandler under the read lock; a handler that returns true *)
(* for a response ends its way here.                                       *)
FanHandle ==
  /\ pc[Fan] = "handle" /\ CanRLock
  /\ \/ /\ handlerSet /\ log[cur].resp
        /\ handled' = handled \cup {cur}
        /\ cur' = 0
        /\ GoTo(Fan, "recv")
     \/ GoTo(Fan, "count") /\ UNCHANGED <<handled, cur>>
  /\ UNCHANGED <<lockVars, inVars, outVars, subVars, flagVars>>

(* len(b.outSubs) is read in a critical section of its own.                *)
FanCount ==
  /\ pc[Fan] = "count"
  /\ IF outSubs = {}
     THEN GoTo(Fan, "recv") /\ cur' = 0
     ELSE GoTo(Fan, "deliver") /\ UNCHANGED cur
  /\ UNCHANGED <<lockVars, inVars, outVars, handled, subVars, flagVars>>

Matching(m) == {s \in outSubs : MatchChannel(m.channel, s)}
(* Mutants: the send has no default arm, and no bound.                     *)
FanDeliverBlocking ==
  /\ pc[Fan] = "deliver"
  /\ \A s \in Matching(log[cur]) : Len(subQ[s]) < SubBuf
  /\ subQ' = [s \in Subs |-> IF s \in Matching(log[cur])
                             THEN Append(subQ[s], cur) ELSE subQ[s]]
  /\ cur' = 0 /\ GoTo(Fan, "recv")
  /\ UNCHANGED <<lockVars, inVars, outVars, handled, outSubs, chan, got, flagVars>>

(* Non-blocking sends to every matching subscriber, full buffers skipped.  *)
FanDeliver ==
  /\ pc[Fan] = "deliver"
  /\ LET to == Matching(log[cur]) IN
       /\ panicked' = (panicked \/ \E s \in to : chan[s] = "closed")
       /\ subQ' = [s \in Subs |-> IF s \in to /\ Len(subQ[s]) < SubBuf
                                  THEN Append(subQ[s], cur) ELSE subQ[s]]
  /\ cur' = 0
  /\ GoTo(Fan, "recv")
  /\ UNCHANGED <<lockVars, inVars, outVars, handled, outSubs, chan, got,
                 cancelled, closed, handlerSet>>

(* The range loop ends when outbound is closed and empty; fanoutStopped is *)
(* then set under the write lock.                                          *)
FanExit ==
  /\ pc[Fan] = "recv" /\ outQ = <<>> /\ ~outOpen /\ writer = Nobody
  /\ writer' = Fan
  /\ GoTo(Fan, "lock")
  /\ UNCHANGED <<readers, inVars, outVars, fanVars, subVars, flagVars>>

FanStopped ==
  /\ pc[Fan] = "lock" /\ readers = {}
  /\ writer' = Nobody
  /\ GoTo(Fan, "done")
  /\ UNCHANGED <<readers, inVars, outVars, fanVars, subVars, flagVars>>

-----------------------------------------------------------------------------
(* SetResponseHandler and Close: Lock() announces a writer, which proceeds *)
(* once the readers are gone.                                              *)
LockBegin(w) ==
  /\ pc[w] = "idle" /\ writer = Nobody
  /\ writer' = w
  /\ GoTo(w, "lock")
  /\ UNCHANGED <<readers, inVars, outVars, fanVars, subVars, flagVars>>

SetResponseHandler(w) ==
  /\ w \in Setters /\ pc[w] = "lock" /\ readers = {}
  /\ handlerSet' = TRUE
  /\ writer' = Nobody
  /\ GoTo(w, "done")
  /\ UNCHANGED <<readers, inVars, outVars, fanVars, subVars,
                 cancelled, closed, panicked>>
(* Close, up to the end of the outSubsMu section: a second Close returns.  *)
CloseSubs(w) ==
  /\ w \in Closers /\ pc[w] = "lock" /\ readers = {}
  /\ IF closed
     THEN /\ writer' = Nobody
          /\ GoTo(w, "done")
          /\ UNCHANGED <<closed, outSubs, chan, panicked>>
     ELSE /\ closed' = TRUE
          /\ panicked' = (panicked \/ \E s \in outSubs : chan[s] = "closed")
          /\ chan' = [s \in Subs |-> IF s \in outSubs THEN "closed" ELSE chan[s]]
          /\ outSubs' = {}
          /\ GoTo(w, "swept")
          /\ UNCHANGED writer
  /\ UNCHANGED <<readers, inVars, outVars, fanVars, subQ, got,
                 cancelled, handlerSet>>

(* The rest of Close: close the queues, release the lock.                  *)
CloseQueues(w) ==
  /\ w \in Closers /\ pc[w] = "swept"
  /\ panicked' = (panicked \/ ~inOpen \/ ~outOpen)
  /\ inOpen' = FALSE /\ outOpen' = FALSE
  /\ writer' = Nobody
  /\ GoTo(w, "done")
  /\ UNCHANGED <<readers, inQ, inSent, taken, outQ, log, held, fanVars, subVars,
                 cancelled, closed, handlerSet>>

-----------------------------------------------------------------------------
PublisherStep(p) ==
  \/ PublishInbound(p) \/ SendInbound(p)
  \/ PublishOutbound(p) \/ SendOutbound(p)
  \/ PublishCancelled(p)

ConsumerStep == ConsumeInbound \/ ReceiveInbound \/ ConsumeCancelled

FanStep == \/ FanReceive \/ FanHandle \/ FanCount \/ FanDeliver
           \/ FanExit \/ FanStopped

WriterStep(w) ==
  LockBegin(w) \/ SetResponseHandler(w) \/ CloseSubs(w) \/ CloseQueues(w)

SubscriberStep(s) ==
  SubscribeOutboundFiltered(s) \/ UnsubscribeOutbound(s) \/ Receive(s)

Next ==
  \/ \E p \in Publishers : PublisherStep(p)
  \/ ConsumerStep
  \/ FanStep
  \/ \E w \in Closers \cup Setters : WriterStep(w)
  \/ \E s \in Subs \ Takers : SubscriberStep(s)
  \/ \E s \in Takers : TakeBegin(s) \/ TakeEnd(s)
  \/ \E p \in Cancellable : Cancel(p)

Spec == Init /\ [][Next]_vars

(* The Go scheduler runs every goroutine that can run; contexts are        *)
(* cancelled by their owners during shutdown.  Publishing, subscribing and *)
(* calling Close are the callers' choice and get no fairness.  A goroutine *)
(* waiting in Lock or RLock is served even when others keep the lock busy, *)
(* because a pending Lock stops new readers: hence SF for the read locks.  *)
Fairness ==
  /\ \A p \in Publishers :
       WF_vars(SendInbound(p) \/ SendOutbound(p) \/ PublishCancelled(p))
  /\ WF_vars(ReceiveInbound \/ ConsumeCancelled)
  /\ WF_vars(FanReceive \/ FanCount \/ FanDeliver \/ FanStopped)
  /\ SF_vars(FanHandle \/ FanExit)
  /\ \A w \in Closers \cup Setters :
       WF_vars(SetResponseHandler(w) \/ CloseSubs(w) \/ CloseQueues(w))
  /\ \A s \in Takers : WF_vars(TakeEnd(s))
  /\ WF_vars(\E p \in Cancellable : Cancel(p))

FairSpec == Spec /\ Fairness

-----------------------------------------------------------------------------
ControlOK ==
  /\ pc \in [Procs -> {"idle", "sendIn", "sendOut", "wait", "lock", "swept",
                       "recv", "handle", "count", "deliver", "done"}]
  /\ readers \subseteq Procs /\ writer \in Procs \cup {Nobody}
  /\ cancelled \subseteq Procs
FlagsOK == /\ closed \in BOOLEAN /\ handlerSet \in BOOLEAN
           /\ panicked \in BOOLEAN
InOK == /\ inQ \in Seq(Nat) /\ inOpen \in BOOLEAN
        /\ inSent \in Nat /\ taken \in Seq(Nat)
OutOK == /\ outQ \in Seq(Nat) /\ outOpen \in BOOLEAN /\ log \in Seq(Msg)
         /\ held \in [Publishers -> Msg \cup {Nobody}]
FanOK == cur \in Nat /\ handled \subseteq Nat
SubsOK == /\ outSubs \subseteq Subs /\ chan \in [Subs -> {"none", "open", "closed"}]
          /\ subQ \in [Subs -> Seq(Nat)] /\ got \in [Subs -> Seq(Nat)]

(* The variables keep their shape: in particular only messages, never the  *)
(* placeholder of an idle publisher, reach the log.                        *)
TypeOK == ControlOK /\ FlagsOK /\ InOK /\ OutOK /\ FanOK /\ SubsOK

(* No goroutine ever sends to a closed channel or closes one twice,        *)
(* however Close interleaves with publishers, the fanout and               *)
(* unsubscription: the map entry guards a subscriber's channel, the lock   *)
(* guards the queues.                                                      *)
NoPanic == ~panicked

(* What subscriber s has been handed so far, read or still buffered.       *)
Delivered(s) == got[s] \o subQ[s]

(* A response the handler claimed is never also broadcast (the handler     *)
(* runs first and its true ends the message's way), so no subscriber sees  *)
(* it.                                                                     *)
HandledNotBroadcast ==
  \A s \in Subs : \A k \in 1..Len(Delivered(s)) : Delivered(s)[k] \notin handled

(* Inbound messages reach the agent manager in the order they were         *)
(* accepted with none lost or repeated, cancellation and Close included.   *)
InboundFIFO == taken \o inQ = [k \in 1..inSent |-> k]

(* Readers and writer exclude each other: nobody is between RLock and      *)
(* RUnlock while Close closes the queues under the write lock.             *)
LockDiscipline ==
  \A p \in Procs : pc[p] = "swept" => writer = p /\ readers = {}

(* What the bus promises its outbound side, as LossyBroadcast states it: a *)
(* subscriber sees a subsequence, in order and without duplicates, of the  *)
(* accepted messages that match its filter; nothing is accepted after      *)
(* Close.                                                                  *)
Broadcast == INSTANCE LossyBroadcast WITH
  accepted <- log, received <- [s \in Subs |-> Delivered(s)], stopped <- closed

BroadcastSpec == Broadcast!Spec

(* Time and again the bus comes to rest: Close has had its lock, because   *)
(* every context its callers wait with is cancelled, even with a publisher *)
(* stuck on a full outbound queue whose only reader, the fanout, is itself *)
(* kept out by the pending Close; and the fanout has routed every accepted *)
(* message, what Close left in the queue too, after which it stops.        *)
AtRest ==
  /\ At("lock") \cup At("swept") = {}
  /\ outQ = <<>> /\ cur = 0
  /\ closed => pc[Fan] = "done"

Drains == []<>AtRest
=============================================================================
