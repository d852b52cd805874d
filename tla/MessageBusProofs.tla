-------------------------- MODULE MessageBusProofs --------------------------
(***************************************************************************)
(* Proofs about MessageBus: type correctness, the absence of panics, the   *)
(* order of the inbound queue, what the response handler claims, and the   *)
(* refinement of LossyBroadcast, for any number of publishers, closers and *)
(* subscribers, any filter and any buffer sizes.                           *)
(***************************************************************************)
EXTENDS MessageBus, TLAPS

(* Facts about sequences alone. An element of a concatenation is one of    *)
(* either part.                                                            *)
LEMMA ConcatAt ==
  ASSUME NEW a \in Seq(Nat), NEW b \in Seq(Nat)
  PROVE  /\ DOMAIN (a \o b) = 1..(Len(a) + Len(b))
         /\ \A k \in 1..(Len(a) + Len(b)) :
              (a \o b)[k] = IF k <= Len(a) THEN a[k] ELSE b[k - Len(a)]
OBVIOUS

(* If two sequences make up 1, ..., n then appending n + 1 to the second   *)
(* makes up 1, ..., n + 1 (what SendInbound does to taken and inQ).        *)
LEMMA ExtendUpTo ==
  ASSUME NEW a \in Seq(Nat), NEW b \in Seq(Nat), NEW n \in Nat,
         a \o b = [k \in 1..n |-> k]
  PROVE  a \o Append(b, n + 1) = [k \in 1..(n + 1) |-> k]
<1> DEFINE c == Append(b, n + 1)
           s == a \o c
<1>1. c \in Seq(Nat) /\ Len(c) = Len(b) + 1 /\ s \in Seq(Nat)
  OBVIOUS
<1>2. Len(a) + Len(b) = n
  <2>1. DOMAIN (a \o b) = 1..(Len(a) + Len(b))
    BY ConcatAt, Zenon
  <2>2. DOMAIN (a \o b) = 1..n
    OBVIOUS
  <2> QED BY <2>1, <2>2
<1>3. \A k \in 1..n : IF k <= Len(a) THEN a[k] = k ELSE b[k - Len(a)] = k
  <2>1. \A k \in 1..n : (a \o b)[k] = k
    OBVIOUS
  <2> QED BY <1>2, <2>1, ConcatAt
<1>4. \A k \in 1..(n + 1) : s[k] = IF k <= Len(a) THEN a[k] ELSE c[k - Len(a)]
  <2> HIDE DEF c
  <2> QED BY <1>1, <1>2, ConcatAt
<1>5. ASSUME NEW k \in 1..(n + 1) PROVE s[k] = k
  <2>1. CASE k <= Len(a)
    <3>1. k \in 1..n
      BY <1>2, <2>1
    <3> HIDE DEF s
    <3> QED BY <1>3, <1>4, <2>1, <3>1
  <2>2. CASE ~(k <= Len(a)) /\ k # n + 1
    <3>1. k \in 1..n /\ k - Len(a) \in 1..Len(b)
      BY <1>2, <2>2
    <3>2. c[k - Len(a)] = b[k - Len(a)]
      BY <3>1
    <3> HIDE DEF s, c
    <3> QED BY <1>3, <1>4, <2>2, <3>1, <3>2
  <2>3. CASE ~(k <= Len(a)) /\ k = n + 1
    <3>1. k - Len(a) = Len(b) + 1
      BY SMTT(30), <1>2, <2>3
    <3>2. c[k - Len(a)] = n + 1
      BY <3>1
    <3> HIDE DEF s, c
    <3> QED BY <1>4, <2>3, <3>2
  <2> QED BY <2>1, <2>2, <2>3
<1>6. s = [k \in 1..(n + 1) |-> k]
  <2> HIDE DEF s
  <2>1. DOMAIN s = 1..(n + 1)
    <3>1. DOMAIN s = 1..(Len(a) + Len(c))
      BY <1>1, ConcatAt DEF s
    <3>2. Len(a) + Len(c) = n + 1
      <4> HIDE DEF c
      <4> QED BY <1>1, <1>2
    <3> QED BY <3>1, <3>2, Zenon
  <2>2. s = [k \in 1..(n + 1) |-> s[k]]
    BY <1>1, <2>1
  <2>3. [k \in 1..(n + 1) |-> s[k]] = [k \in 1..(n + 1) |-> k]
    BY <1>5
  <2> QED BY <2>2, <2>3
<1> QED BY <1>6

(* Moving the head of one to the end of the other keeps what they make up  *)
(* (ReceiveInbound).                                                       *)
LEMMA MoveHead ==
  ASSUME NEW a \in Seq(Nat), NEW b \in Seq(Nat), b # <<>>
  PROVE  Append(a, Head(b)) \o Tail(b) = a \o b
BY SMTT(30)

(* Appending to the second of two sequences appends to what they make up   *)
(* (a send into a subscriber's channel).                                   *)
LEMMA AppendToSecond ==
  ASSUME NEW a \in Seq(Nat), NEW b \in Seq(Nat), NEW i \in Nat
  PROVE  a \o Append(b, i) = Append(a \o b, i)
OBVIOUS

LEMMA AppendAt ==
  ASSUME NEW a \in Seq(Nat), NEW i \in Nat
  PROVE  /\ Append(a, i) \in Seq(Nat) /\ Len(Append(a, i)) = Len(a) + 1
         /\ Append(a, i)[Len(a) + 1] = i
         /\ \A k \in 1..Len(a) : Append(a, i)[k] = a[k]
OBVIOUS

LEMMA TailAt ==
  ASSUME NEW a \in Seq(Nat), a # <<>>
  PROVE  /\ Tail(a) \in Seq(Nat) /\ Len(Tail(a)) = Len(a) - 1 /\ Head(a) = a[1]
         /\ \A k \in 1..Len(Tail(a)) : Tail(a)[k] = a[k + 1]
OBVIOUS

-----------------------------------------------------------------------------
USE DEF Procs

(* A publisher in PublishOutbound's select has a message in hand.          *)
HeldOK == \A p \in Publishers : pc[p] = "sendOut" => held[p] \in Msg

LEMMA InitType == Init => TypeOK /\ HeldOK
<1> SUFFICES ASSUME Init PROVE TypeOK /\ HeldOK
  OBVIOUS
<1>1. ControlOK
  BY DEF Init, ControlOK
<1>2. FlagsOK
  BY DEF Init, FlagsOK
<1>3. InOK /\ OutOK /\ FanOK
  BY DEF Init, InOK, OutOK, FanOK
<1>4. SubsOK
  BY DEF Init, SubsOK
<1>5. HeldOK
  BY BusAssumption DEF BusAssumption, Init, HeldOK
<1> QED BY <1>1, <1>2, <1>3, <1>4, <1>5 DEF TypeOK

-----------------------------------------------------------------------------
(* One lemma for each group of variables: the actions that write the group *)
(* keep its types, and the others leave it alone.                          *)
LEMMA ControlStep == ControlOK /\ [Next]_vars => ControlOK'
BY BusAssumption DEF ControlOK, BusAssumption, Next, PublisherStep, ConsumerStep,
  FanStep, WriterStep, SubscriberStep, PublishInbound, SendInbound,
  PublishOutbound, SendOutbound, PublishCancelled, ConsumeInbound,
  ReceiveInbound, ConsumeCancelled, Cancel, SubscribeOutboundFiltered,
  UnsubscribeOutbound, Receive, TakeBegin, TakeEnd, FanReceive, FanHandle,
  FanCount, FanDeliver, FanExit, FanStopped, LockBegin, SetResponseHandler,
  CloseSubs, CloseQueues, GoTo, vars, lockVars, flagVars, AddSub, RemoveSub

LEMMA FlagsStep == FlagsOK /\ [Next]_vars => FlagsOK'
<1> SUFFICES ASSUME FlagsOK, [Next]_vars PROVE FlagsOK'
  OBVIOUS
<1> USE DEF FlagsOK
<1>1. CASE UNCHANGED flagVars
  BY <1>1 DEF flagVars
<1>2. ASSUME NEW p \in Procs, SendInbound(p) \/ SendOutbound(p) \/ Cancel(p)
      PROVE  FlagsOK'
  BY <1>2 DEF SendInbound, SendOutbound, Cancel
<1>3. ASSUME NEW w \in Procs, SetResponseHandler(w) \/ CloseSubs(w) \/ CloseQueues(w)
      PROVE  FlagsOK'
  BY <1>3 DEF SetResponseHandler, CloseSubs, CloseQueues
<1>4. CASE FanDeliver
  BY <1>4 DEF FanDeliver
<1>5. ASSUME NEW s \in Subs, UnsubscribeOutbound(s) \/ TakeEnd(s)
      PROVE  FlagsOK'
  BY <1>5 DEF UnsubscribeOutbound, TakeEnd, RemoveSub
<1>6. \/ UNCHANGED flagVars \/ FanDeliver
      \/ \E p \in Procs : SendInbound(p) \/ SendOutbound(p) \/ Cancel(p)
      \/ \E w \in Procs : SetResponseHandler(w) \/ CloseSubs(w) \/ CloseQueues(w)
      \/ \E s \in Subs : UnsubscribeOutbound(s) \/ TakeEnd(s)
  BY BusAssumption DEF BusAssumption, Next, PublisherStep, ConsumerStep, FanStep,
    WriterStep, SubscriberStep, PublishInbound, PublishOutbound,
    PublishCancelled, ConsumeInbound, ReceiveInbound, ConsumeCancelled,
    SubscribeOutboundFiltered, Receive, TakeBegin, FanReceive, FanHandle,
    FanCount, FanExit, FanStopped, LockBegin, vars
<1> QED BY <1>1, <1>2, <1>3, <1>4, <1>5, <1>6

LEMMA InStep == InOK /\ [Next]_vars => InOK'
<1> SUFFICES ASSUME InOK, [Next]_vars PROVE InOK'
  OBVIOUS
<1> USE DEF InOK
<1>1. CASE UNCHANGED inVars
  BY <1>1 DEF inVars
<1>2. ASSUME NEW p \in Publishers, SendInbound(p) PROVE InOK'
  <2>1. CASE inOpen
    <3>1. /\ inQ' = Append(inQ, inSent + 1) /\ inSent' = inSent + 1
          /\ UNCHANGED <<inOpen, taken>>
      BY <1>2, <2>1 DEF SendInbound
    <3> QED BY <3>1
  <2>2. CASE ~inOpen
    BY <1>2, <2>2 DEF SendInbound
  <2> QED BY <2>1, <2>2
<1>3. CASE ReceiveInbound
  BY <1>3 DEF ReceiveInbound
<1>4. ASSUME NEW w \in Closers, CloseQueues(w) PROVE InOK'
  BY <1>4 DEF CloseQueues
<1>5. \/ UNCHANGED inVars \/ ReceiveInbound
      \/ \E p \in Publishers : SendInbound(p)
      \/ \E w \in Closers : CloseQueues(w)
  BY DEF Next, PublisherStep, ConsumerStep, FanStep, WriterStep,
    SubscriberStep, PublishInbound, PublishOutbound, SendOutbound,
    PublishCancelled, ConsumeInbound, ConsumeCancelled, Cancel,
    SubscribeOutboundFiltered, UnsubscribeOutbound, Receive, TakeBegin, TakeEnd,
    FanReceive, FanHandle, FanCount, FanDeliver, FanExit, FanStopped, LockBegin,
    SetResponseHandler, CloseSubs, CloseQueues, vars
<1> QED BY <1>1, <1>2, <1>3, <1>4, <1>5

(* The outbound log depends on what publishers hold, so the two go         *)
(* together.                                                               *)
LEMMA OutStep == ControlOK /\ OutOK /\ HeldOK /\ [Next]_vars => OutOK' /\ HeldOK'
<1> SUFFICES ASSUME ControlOK, OutOK, HeldOK, [Next]_vars PROVE OutOK' /\ HeldOK'
  OBVIOUS
<1> USE DEF OutOK, HeldOK, GoTo, ControlOK
<1>1. ASSUME NEW p \in Publishers, SendOutbound(p) PROVE OutOK' /\ HeldOK'
  <2>1. held[p] \in Msg /\ Len(log) \in Nat
    BY <1>1 DEF SendOutbound
  <2>2. CASE outOpen
    <3>1. log' = Append(log, held[p]) /\ outQ' = Append(outQ, Len(log) + 1)
      BY <1>1, <2>2 DEF SendOutbound
    <3>2. log' \in Seq(Msg)
      BY <2>1, <3>1
    <3>3. outQ' \in Seq(Nat)
      BY <2>1, <3>1
    <3> QED BY <1>1, <3>2, <3>3 DEF SendOutbound
  <2>3. CASE ~outOpen
    BY <1>1, <2>3 DEF SendOutbound
  <2> QED BY <2>2, <2>3
<1>2. ASSUME NEW p \in Publishers, PublishOutbound(p) \/ PublishCancelled(p)
      PROVE  OutOK' /\ HeldOK'
  <2>1. CASE PublishCancelled(p)
    BY <1>2, <2>1 DEF PublishCancelled
  <2>2. CASE PublishOutbound(p)
    <3>1. PICK m \in Msg : held' = [held EXCEPT ![p] = m]
      BY <2>2 DEF PublishOutbound
    <3> QED BY <2>2, <3>1 DEF PublishOutbound
  <2> QED BY <1>2, <2>1, <2>2
<1>3. CASE FanReceive
  <2>1. outQ' \in Seq(Nat)
    BY <1>3 DEF FanReceive
  <2> QED BY <1>3, <2>1, BusAssumption DEF FanReceive, BusAssumption
<1>4. ASSUME NEW w \in Closers, CloseQueues(w) PROVE OutOK' /\ HeldOK'
  BY <1>4, BusAssumption DEF CloseQueues, BusAssumption
<1>5. CASE UNCHANGED outVars /\ \A p \in Publishers : pc'[p] = "sendOut" => pc[p] = "sendOut"
  BY <1>5 DEF outVars
<1>6. \/ UNCHANGED outVars /\ \A p \in Publishers : pc'[p] = "sendOut" => pc[p] = "sendOut"
      \/ FanReceive
      \/ \E p \in Publishers : SendOutbound(p) \/ PublishOutbound(p) \/ PublishCancelled(p)
      \/ \E w \in Closers : CloseQueues(w)
  BY DEF Next, PublisherStep, ConsumerStep, FanStep, WriterStep,
    SubscriberStep, PublishInbound, SendInbound,
    ConsumeInbound, ReceiveInbound, ConsumeCancelled, Cancel,
    SubscribeOutboundFiltered, UnsubscribeOutbound, Receive, TakeBegin, TakeEnd,
    FanHandle, FanCount, FanDeliver, FanExit, FanStopped, LockBegin,
    SetResponseHandler, CloseSubs, CloseQueues, vars
<1> QED BY <1>1, <1>2, <1>3, <1>4, <1>5, <1>6

LEMMA FanTypeStep == OutOK /\ FanOK /\ [Next]_vars => FanOK'
<1> SUFFICES ASSUME OutOK, FanOK, [Next]_vars PROVE FanOK'
  OBVIOUS
<1> USE DEF FanOK
<1>1. CASE FanReceive
  <2>1. outQ \in Seq(Nat) /\ outQ # <<>> /\ cur' = Head(outQ)
    BY <1>1 DEF FanReceive, OutOK
  <2>2. cur' \in Nat
    BY <2>1
  <2> QED BY <1>1, <2>2 DEF FanReceive
<1>2. CASE FanHandle \/ FanCount \/ FanDeliver
  <2>1. cur' \in {cur, 0} /\ handled' \in {handled, handled \cup {cur}}
    BY <1>2 DEF FanHandle, FanCount, FanDeliver
  <2> QED BY <2>1
<1>3. CASE UNCHANGED fanVars
  BY <1>3 DEF fanVars
<1>4. UNCHANGED fanVars \/ FanReceive \/ FanHandle \/ FanCount \/ FanDeliver
  BY DEF Next, PublisherStep, ConsumerStep, FanStep, WriterStep,
    SubscriberStep, PublishInbound, SendInbound, PublishOutbound, SendOutbound,
    PublishCancelled, ConsumeInbound, ReceiveInbound, ConsumeCancelled, Cancel,
    SubscribeOutboundFiltered, UnsubscribeOutbound, Receive, TakeBegin, TakeEnd,
    FanExit, FanStopped, LockBegin, SetResponseHandler, CloseSubs, CloseQueues, vars
<1> QED BY <1>1, <1>2, <1>3, <1>4

LEMMA SubsStep == FanOK /\ SubsOK /\ [Next]_vars => SubsOK'
<1> SUFFICES ASSUME FanOK, SubsOK, [Next]_vars PROVE SubsOK'
  OBVIOUS
<1> USE DEF SubsOK
<1>1. CASE UNCHANGED subVars
  BY <1>1 DEF subVars
<1>2. CASE FanDeliver
  BY <1>2 DEF FanDeliver, FanOK
<1>3. ASSUME NEW s \in Subs, SubscribeOutboundFiltered(s) \/ UnsubscribeOutbound(s)
      PROVE  SubsOK'
  BY <1>3 DEF SubscribeOutboundFiltered, UnsubscribeOutbound, AddSub, RemoveSub
<1>4. ASSUME NEW s \in Subs, Receive(s) PROVE SubsOK'
  BY <1>4 DEF Receive
<1>5. ASSUME NEW s \in Subs, TakeBegin(s) PROVE SubsOK'
  BY <1>5 DEF TakeBegin, AddSub
<1>6. ASSUME NEW s \in Subs, TakeEnd(s) PROVE SubsOK'
  <2>1. outSubs' \subseteq Subs /\ chan' \in [Subs -> {"none", "open", "closed"}]
    BY <1>6 DEF TakeEnd, RemoveSub
  <2>2. subQ' \in [Subs -> Seq(Nat)] /\ got' \in [Subs -> Seq(Nat)]
    <3>1. CASE /\ subQ[s] # <<>>
               /\ got' = [got EXCEPT ![s] = Append(@, Head(subQ[s]))]
               /\ subQ' = [subQ EXCEPT ![s] = Tail(@)]
      BY <3>1
    <3>2. CASE UNCHANGED <<got, subQ>>
      BY <3>2
    <3> QED BY <1>6, <3>1, <3>2 DEF TakeEnd
  <2> QED BY <2>1, <2>2
<1>7. ASSUME NEW w \in Closers, CloseSubs(w) PROVE SubsOK'
  BY <1>7 DEF CloseSubs
<1>8. \/ UNCHANGED subVars \/ FanDeliver
      \/ \E s \in Subs : \/ SubscribeOutboundFiltered(s) \/ UnsubscribeOutbound(s)
                         \/ Receive(s) \/ TakeBegin(s) \/ TakeEnd(s)
      \/ \E w \in Closers : CloseSubs(w)
  BY BusAssumption DEF BusAssumption, Next, PublisherStep, ConsumerStep, FanStep,
    WriterStep, SubscriberStep, PublishInbound, SendInbound, PublishOutbound,
    SendOutbound, PublishCancelled, ConsumeInbound, ReceiveInbound,
    ConsumeCancelled, Cancel, FanReceive, FanHandle, FanCount, FanExit,
    FanStopped, LockBegin, SetResponseHandler, CloseSubs, CloseQueues, vars
<1> QED BY <1>1, <1>2, <1>3, <1>4, <1>5, <1>6, <1>7, <1>8

LEMMA TypeStep == TypeOK /\ HeldOK /\ [Next]_vars => TypeOK' /\ HeldOK'
BY ControlStep, FlagsStep, InStep, OutStep, FanTypeStep, SubsStep DEF TypeOK

(* The variables keep their shape in every reachable state; in particular  *)
(* the log of the outbound queue holds messages only (PublishOutbound).    *)
THEOREM TypeCorrect == Spec => []TypeOK
<1>1. Spec => [](TypeOK /\ HeldOK)
  BY InitType, TypeStep, PTL DEF Spec
<1> QED BY <1>1, PTL

-----------------------------------------------------------------------------
(* The lock discipline that keeps every goroutine off a closed channel.    *)
(* Who sends holds the read lock; who waits for or holds the write lock is *)
(* the writer; between the two halves of Close nobody reads and the queues *)
(* are still open; a reader got in before Close; only Close closes queues; *)
(* a subscriber's channel is open exactly while its id is in the map.      *)
SendersRead   == \A p \in Procs : pc[p] \in {"sendIn", "sendOut"} => p \in readers
WriterWaits   == \A p \in Procs : pc[p] \in {"lock", "swept"} => writer = p
SweptExcludes == \A p \in Procs : pc[p] = "swept" => /\ readers = {} /\ closed = TRUE
                                                     /\ inOpen = TRUE
                                                     /\ outOpen = TRUE
ReadersOpen   == closed = TRUE => readers = {}
QueuesOpen    == closed = FALSE => inOpen = TRUE /\ outOpen = TRUE
SubsOpen      == \A s \in Subs : s \in outSubs <=> chan[s] = "open"

LockInv == /\ SendersRead /\ WriterWaits /\ SweptExcludes
           /\ ReadersOpen /\ QueuesOpen /\ SubsOpen

LEMMA InitLock == Init => LockInv /\ NoPanic
BY BusAssumption DEF BusAssumption, Init, LockInv, SendersRead, WriterWaits,
  SweptExcludes, ReadersOpen, QueuesOpen, SubsOpen, NoPanic

LEMMA SendersReadStep ==
  ControlOK /\ SendersRead /\ [Next]_vars => SendersRead'
BY BusAssumption DEF ControlOK, SendersRead, BusAssumption, Next, PublisherStep,
  ConsumerStep, FanStep, WriterStep, SubscriberStep, PublishInbound, SendInbound,
  PublishOutbound, SendOutbound, PublishCancelled, ConsumeInbound,
  ReceiveInbound, ConsumeCancelled, Cancel, SubscribeOutboundFiltered,
  UnsubscribeOutbound, Receive, TakeBegin, TakeEnd, FanReceive, FanHandle,
  FanCount, FanDeliver, FanExit, FanStopped, LockBegin, SetResponseHandler,
  CloseSubs, CloseQueues, GoTo, vars, lockVars

LEMMA WriterWaitsStep ==
  ControlOK /\ WriterWaits /\ [Next]_vars => WriterWaits'
BY BusAssumption DEF ControlOK, WriterWaits, BusAssumption, Next, PublisherStep,
  ConsumerStep, FanStep, WriterStep, SubscriberStep, PublishInbound, SendInbound,
  PublishOutbound, SendOutbound, PublishCancelled, ConsumeInbound,
  ReceiveInbound, ConsumeCancelled, Cancel, SubscribeOutboundFiltered,
  UnsubscribeOutbound, Receive, TakeBegin, TakeEnd, FanReceive, FanHandle,
  FanCount, FanDeliver, FanExit, FanStopped, LockBegin, SetResponseHandler,
  CloseSubs, CloseQueues, GoTo, vars, lockVars

LEMMA ReadersOpenStep ==
  FlagsOK /\ ReadersOpen /\ [Next]_vars => ReadersOpen'
BY BusAssumption DEF FlagsOK, ReadersOpen, BusAssumption, Next, PublisherStep,
  ConsumerStep, FanStep, WriterStep, SubscriberStep, PublishInbound, SendInbound,
  PublishOutbound, SendOutbound, PublishCancelled, ConsumeInbound,
  ReceiveInbound, ConsumeCancelled, Cancel, SubscribeOutboundFiltered,
  UnsubscribeOutbound, Receive, TakeBegin, TakeEnd, FanReceive, FanHandle,
  FanCount, FanDeliver, FanExit, FanStopped, LockBegin, SetResponseHandler,
  CloseSubs, CloseQueues, vars, lockVars, flagVars

LEMMA SweptExcludesStep ==
  TypeOK /\ LockInv /\ [Next]_vars => SweptExcludes'
BY BusAssumption DEF TypeOK, ControlOK, FlagsOK, LockInv, WriterWaits, QueuesOpen,
  SweptExcludes, BusAssumption, Next, PublisherStep, CanRLock,
  ConsumerStep, FanStep, WriterStep, SubscriberStep, PublishInbound, SendInbound,
  PublishOutbound, SendOutbound, PublishCancelled, ConsumeInbound,
  ReceiveInbound, ConsumeCancelled, Cancel, SubscribeOutboundFiltered,
  UnsubscribeOutbound, Receive, TakeBegin, TakeEnd, FanReceive, FanHandle,
  FanCount, FanDeliver, FanExit, FanStopped, LockBegin, SetResponseHandler,
  CloseSubs, CloseQueues, GoTo, vars, lockVars, inVars, outVars, flagVars

LEMMA QueuesOpenStep ==
  TypeOK /\ LockInv /\ [Next]_vars => QueuesOpen'
BY BusAssumption DEF TypeOK, FlagsOK, LockInv, SweptExcludes, QueuesOpen,
  BusAssumption, Next, PublisherStep,
  ConsumerStep, FanStep, WriterStep, SubscriberStep, PublishInbound, SendInbound,
  PublishOutbound, SendOutbound, PublishCancelled, ConsumeInbound,
  ReceiveInbound, ConsumeCancelled, Cancel, SubscribeOutboundFiltered,
  UnsubscribeOutbound, Receive, TakeBegin, TakeEnd, FanReceive, FanHandle,
  FanCount, FanDeliver, FanExit, FanStopped, LockBegin, SetResponseHandler,
  CloseSubs, CloseQueues, vars, flagVars, inVars, outVars

LEMMA SubsOpenStep ==
  SubsOK /\ SubsOpen /\ [Next]_vars => SubsOpen'
BY BusAssumption DEF SubsOK, SubsOpen,
  BusAssumption, Next, PublisherStep,
  ConsumerStep, FanStep, WriterStep, SubscriberStep, PublishInbound, SendInbound,
  PublishOutbound, SendOutbound, PublishCancelled, ConsumeInbound,
  ReceiveInbound, ConsumeCancelled, Cancel, SubscribeOutboundFiltered,
  UnsubscribeOutbound, Receive, TakeBegin, TakeEnd, FanReceive, FanHandle,
  FanCount, FanDeliver, FanExit, FanStopped, LockBegin, SetResponseHandler,
  CloseSubs, CloseQueues, vars, subVars, AddSub, RemoveSub

(* A step panics only by sending on, or closing, a closed channel.         *)
LEMMA NoPanicStep ==
  TypeOK /\ LockInv /\ NoPanic /\ [Next]_vars => NoPanic'
<1> SUFFICES ASSUME TypeOK, LockInv, ~panicked, [Next]_vars PROVE ~panicked'
  BY DEF NoPanic
<1>1. ASSUME NEW p \in Publishers, SendInbound(p) \/ SendOutbound(p)
      PROVE  ~panicked'
  <2>1. closed = FALSE
    BY <1>1 DEF SendInbound, SendOutbound, TypeOK, FlagsOK, LockInv, SendersRead,
      ReadersOpen
  <2> QED BY <1>1, <2>1 DEF SendInbound, SendOutbound, LockInv, QueuesOpen
<1>2. CASE FanDeliver
  BY <1>2 DEF FanDeliver, Matching, TypeOK, SubsOK, LockInv, SubsOpen
<1>3. ASSUME NEW s \in Subs, UnsubscribeOutbound(s) \/ TakeEnd(s)
      PROVE  ~panicked'
  BY <1>3 DEF UnsubscribeOutbound, TakeEnd, RemoveSub, LockInv, SubsOpen
<1>4. ASSUME NEW w \in Closers, CloseSubs(w) PROVE ~panicked'
  BY <1>4 DEF CloseSubs, TypeOK, SubsOK, LockInv, SubsOpen
<1>5. ASSUME NEW w \in Closers, CloseQueues(w) PROVE ~panicked'
  BY <1>5 DEF CloseQueues, LockInv, SweptExcludes
<1>6. CASE UNCHANGED panicked
  BY <1>6
<1>7. \/ UNCHANGED panicked \/ FanDeliver
      \/ \E p \in Publishers : SendInbound(p) \/ SendOutbound(p)
      \/ \E s \in Subs : UnsubscribeOutbound(s) \/ TakeEnd(s)
      \/ \E w \in Closers : CloseSubs(w) \/ CloseQueues(w)
  BY BusAssumption DEF BusAssumption, Next, PublisherStep, ConsumerStep, FanStep,
    WriterStep, SubscriberStep, PublishInbound, PublishOutbound,
    PublishCancelled, ConsumeInbound, ReceiveInbound, ConsumeCancelled, Cancel,
    SubscribeOutboundFiltered, Receive, TakeBegin, FanReceive, FanHandle,
    FanCount, FanExit, FanStopped, LockBegin, SetResponseHandler, vars, flagVars,
    CloseSubs, CloseQueues
<1> QED BY <1>1, <1>2, <1>3, <1>4, <1>5, <1>6, <1>7

LEMMA LockStep ==
  /\ TypeOK /\ HeldOK /\ LockInv /\ NoPanic
  /\ [Next]_vars
  => TypeOK' /\ HeldOK' /\ LockInv' /\ NoPanic'
BY TypeStep, SendersReadStep, WriterWaitsStep, ReadersOpenStep, SweptExcludesStep,
  QueuesOpenStep, SubsOpenStep, NoPanicStep DEF TypeOK, LockInv

LEMMA LockInvariant == Spec => [](TypeOK /\ LockInv /\ NoPanic)
<1>1. Spec => [](TypeOK /\ HeldOK /\ LockInv /\ NoPanic)
  BY InitType, InitLock, LockStep, PTL DEF Spec
<1> QED BY <1>1, PTL

(* No goroutine ever sends to a closed channel, or closes one twice,       *)
(* however many publishers, closers and subscribers interleave (Close,     *)
(* Unsubscribe, fanoutMessages).                                           *)
THEOREM NeverPanics == Spec => []NoPanic
BY LockInvariant, PTL

(* Between the two halves of Close nobody else is inside the bus lock.     *)
THEOREM CloseExcludes == Spec => []LockDiscipline
<1>1. LockInv => LockDiscipline
  BY DEF LockInv, WriterWaits, SweptExcludes, LockDiscipline
<1> QED BY <1>1, LockInvariant, PTL

-----------------------------------------------------------------------------
LEMMA FIFOStep == InOK /\ InboundFIFO /\ [Next]_vars => InboundFIFO'
<1> SUFFICES ASSUME InOK, InboundFIFO, [Next]_vars PROVE InboundFIFO'
  OBVIOUS
<1> USE DEF InOK, InboundFIFO
<1>1. CASE UNCHANGED inVars
  BY <1>1 DEF inVars
<1>2. ASSUME NEW p \in Publishers, SendInbound(p) PROVE InboundFIFO'
  <2>1. CASE inOpen
    <3>1. inQ' = Append(inQ, inSent + 1) /\ inSent' = inSent + 1 /\ taken' = taken
      BY <1>2, <2>1 DEF SendInbound
    <3>2. taken \o Append(inQ, inSent + 1) = [k \in 1..(inSent + 1) |-> k]
      BY ExtendUpTo, Zenon
    <3> QED BY <3>1, <3>2
  <2>2. CASE ~inOpen
    BY <1>2, <2>2 DEF SendInbound
  <2> QED BY <2>1, <2>2
<1>3. CASE ReceiveInbound
  <2>1. /\ inQ # <<>> /\ taken' = Append(taken, Head(inQ))
        /\ inQ' = Tail(inQ) /\ inSent' = inSent
    BY <1>3 DEF ReceiveInbound
  <2> QED BY <2>1, MoveHead
<1>4. ASSUME NEW w \in Closers, CloseQueues(w) PROVE InboundFIFO'
  BY <1>4 DEF CloseQueues
<1>5. \/ UNCHANGED inVars \/ ReceiveInbound
      \/ \E p \in Publishers : SendInbound(p)
      \/ \E w \in Closers : CloseQueues(w)
  BY DEF Next, PublisherStep, ConsumerStep, FanStep, WriterStep,
    SubscriberStep, PublishInbound, PublishOutbound, SendOutbound,
    PublishCancelled, ConsumeInbound, ConsumeCancelled, Cancel,
    SubscribeOutboundFiltered, UnsubscribeOutbound, Receive, TakeBegin, TakeEnd,
    FanReceive, FanHandle, FanCount, FanDeliver, FanExit, FanStopped, LockBegin,
    SetResponseHandler, CloseSubs, CloseQueues, vars
<1> QED BY <1>1, <1>2, <1>3, <1>4, <1>5

(* What the agent manager has taken and what still waits are together the  *)
(* accepted inbound messages, in order and each once, whoever is cancelled *)
(* and whenever Close comes (PublishInbound, ConsumeInbound, Close).       *)
THEOREM InboundInOrder == Spec => []InboundFIFO
<1>1. Init => InboundFIFO
  BY DEF Init, InboundFIFO
<1>2. Spec => [](TypeOK /\ HeldOK /\ InboundFIFO)
  <2>1. TypeOK /\ HeldOK /\ InboundFIFO /\ [Next]_vars
        => TypeOK' /\ HeldOK' /\ InboundFIFO'
    BY TypeStep, FIFOStep DEF TypeOK
  <2> QED BY <1>1, <2>1, InitType, PTL DEF Spec
<1> QED BY <1>2, PTL

-----------------------------------------------------------------------------
(* The outbound side.  The fanout takes messages out of the queue in the   *)
(* order of the log, so everything up to TakenOut is behind it but the one *)
(* in its hands; Past is the last message it is done with.                 *)
TakenOut == Len(log) - Len(outQ)
Past     == IF cur = 0 THEN TakenOut ELSE cur - 1

(* The queue holds the end of the log; the fanout has a message in hand    *)
(* exactly between receive and delivery, and it is the last one taken out; *)
(* what was delivered or claimed is past; so nothing is both.              *)
OutQueueOK    == /\ Len(outQ) <= Len(log)
                 /\ \A k \in 1..Len(outQ) : outQ[k] = TakenOut + k
CurOK         == /\ cur # 0 <=> pc[Fan] \in {"handle", "count", "deliver"}
                 /\ cur # 0 => cur = TakenOut
DeliveredPast == \A s \in Subs : \A k \in 1..Len(Delivered(s)) : Delivered(s)[k] \in 1..Past
HandledPast   == handled \subseteq 1..Past

FanInv == OutQueueOK /\ CurOK /\ DeliveredPast /\ HandledPast /\ HandledNotBroadcast

LEMMA InitFan == Init => FanInv
<1> SUFFICES ASSUME Init PROVE FanInv
  OBVIOUS
<1>1. OutQueueOK /\ CurOK /\ HandledPast
  BY BusAssumption DEF Init, BusAssumption, OutQueueOK, CurOK, HandledPast, TakenOut, Past
<1>2. \A s \in Subs : Len(Delivered(s)) = 0
  BY DEF Init, Delivered
<1> QED BY <1>1, <1>2 DEF FanInv, DeliveredPast, HandledNotBroadcast

(* A subscriber is handed something by the fanout's delivery only; reading *)
(* its channel moves a message from one part to the other.                 *)
LEMMA DeliveredType ==
  SubsOK => \A s \in Subs : Delivered(s) \in Seq(Nat)
BY DEF SubsOK, Delivered

LEMMA DeliveredSame ==
  SubsOK /\ [Next]_vars => FanDeliver \/ \A s \in Subs : Delivered(s)' = Delivered(s)
<1> SUFFICES ASSUME SubsOK, [Next]_vars, ~FanDeliver, NEW x \in Subs
             PROVE  Delivered(x)' = Delivered(x)
  OBVIOUS
<1> USE DEF SubsOK, Delivered
<1>1. CASE UNCHANGED <<subQ, got>>
  BY <1>1
<1>2. ASSUME NEW s \in Subs, subQ[s] # <<>>,
             got' = [got EXCEPT ![s] = Append(@, Head(subQ[s]))],
             subQ' = [subQ EXCEPT ![s] = Tail(@)]
      PROVE  Delivered(x)' = Delivered(x)
  <2>1. CASE x = s
    <3>1. got'[x] = Append(got[x], Head(subQ[x])) /\ subQ'[x] = Tail(subQ[x])
      BY <1>2, <2>1
    <3>2. Append(got[x], Head(subQ[x])) \o Tail(subQ[x]) = got[x] \o subQ[x]
      BY <1>2, <2>1, MoveHead
    <3> QED BY <3>1, <3>2
  <2>2. CASE x # s
    BY <1>2, <2>2
  <2> QED BY <2>1, <2>2
<1>3. \/ UNCHANGED <<subQ, got>>
      \/ \E s \in Subs : /\ subQ[s] # <<>>
                         /\ got' = [got EXCEPT ![s] = Append(@, Head(subQ[s]))]
                         /\ subQ' = [subQ EXCEPT ![s] = Tail(@)]
  <2>1. ASSUME NEW s \in Subs \ Takers, SubscriberStep(s) PROVE <1>3!:
    BY <2>1 DEF SubscriberStep, SubscribeOutboundFiltered, UnsubscribeOutbound, Receive, AddSub
  <2>2. ASSUME NEW s \in Takers, TakeBegin(s) \/ TakeEnd(s) PROVE <1>3!:
    BY <2>2, BusAssumption DEF BusAssumption, TakeBegin, TakeEnd, AddSub
  <2>3. \/ UNCHANGED <<subQ, got>>
        \/ \E s \in Subs \ Takers : SubscriberStep(s)
        \/ \E s \in Takers : TakeBegin(s) \/ TakeEnd(s)
    BY DEF Next, PublisherStep, ConsumerStep, FanStep, WriterStep, PublishInbound,
      SendInbound, PublishOutbound, SendOutbound, PublishCancelled, ConsumeInbound,
      ReceiveInbound, ConsumeCancelled, Cancel, FanReceive, FanHandle, FanCount,
      FanExit, FanStopped, LockBegin, SetResponseHandler, CloseSubs, CloseQueues,
      vars, subVars
  <2> QED BY <2>1, <2>2, <2>3
<1> QED BY <1>1, <1>2, <1>3

(* Those the fanout does not skip.                                         *)
Served == {s \in Matching(log[cur]) : Len(subQ[s]) < SubBuf}

LEMMA DeliveredNew ==
  SubsOK /\ FanOK /\ FanDeliver
  => \A s \in Subs : Delivered(s)' = IF s \in Served THEN Append(Delivered(s), cur)
                                     ELSE Delivered(s)
<1> SUFFICES ASSUME SubsOK, FanOK, FanDeliver, NEW s \in Subs
             PROVE  Delivered(s)' = IF s \in Served THEN Append(Delivered(s), cur)
                                    ELSE Delivered(s)
  OBVIOUS
<1>1. /\ got[s] \in Seq(Nat) /\ subQ[s] \in Seq(Nat) /\ cur \in Nat
      /\ got'[s] = got[s]
      /\ subQ'[s] = IF s \in Served THEN Append(subQ[s], cur) ELSE subQ[s]
  BY DEF SubsOK, FanOK, FanDeliver, Served
<1> QED BY <1>1, AppendToSecond DEF Delivered

(* What a step does to the log, the queue and the message in the fanout's  *)
(* hands.                                                                  *)
InHand(l) == l \in {"handle", "count", "deliver"}

Enqueues(m) == /\ log' = Append(log, m) /\ outQ' = Append(outQ, Len(log) + 1)
               /\ UNCHANGED <<cur, handled>> /\ pc'[Fan] = pc[Fan]

LEMMA OutboundStep ==
  ControlOK /\ [Next]_vars =>
    \/ \E p \in Publishers : SendOutbound(p) /\ Enqueues(held[p])
    \/ FanReceive \/ FanHandle \/ FanCount \/ FanDeliver
    \/ /\ UNCHANGED <<log, outQ, cur, handled>>
       /\ InHand(pc'[Fan]) <=> InHand(pc[Fan])
<1> SUFFICES ASSUME ControlOK, [Next]_vars, ~FanReceive, ~FanHandle, ~FanCount, ~FanDeliver
             PROVE  \/ \E p \in Publishers : SendOutbound(p) /\ Enqueues(held[p])
                    \/ /\ UNCHANGED <<log, outQ, cur, handled>>
                       /\ InHand(pc'[Fan]) <=> InHand(pc[Fan])
  OBVIOUS
<1> USE BusAssumption DEF BusAssumption, ControlOK, InHand, GoTo
<1>1. ASSUME NEW p \in Publishers, SendOutbound(p)
      PROVE  \/ Enqueues(held[p])
             \/ UNCHANGED <<log, outQ, cur, handled>> /\ pc'[Fan] = pc[Fan]
  BY <1>1 DEF SendOutbound, Enqueues, fanVars
<1>2. \/ \E p \in Publishers : SendOutbound(p)
      \/ /\ UNCHANGED <<log, outQ, cur, handled>>
         /\ InHand(pc'[Fan]) <=> InHand(pc[Fan])
  <2>1. ASSUME NEW p \in Publishers, PublisherStep(p), ~SendOutbound(p)
        PROVE  UNCHANGED <<log, outQ, cur, handled>> /\ pc'[Fan] = pc[Fan]
    BY <2>1 DEF PublisherStep, PublishInbound, SendInbound, PublishOutbound,
      PublishCancelled, fanVars, outVars
  <2>2. CASE ConsumerStep
    BY <2>2 DEF ConsumerStep, ConsumeInbound, ReceiveInbound, ConsumeCancelled,
      fanVars, outVars
  <2>3. CASE FanStep
    BY <2>3 DEF FanStep, FanExit, FanStopped, fanVars, outVars
  <2>4. ASSUME NEW w \in Closers \cup Setters, WriterStep(w)
        PROVE  UNCHANGED <<log, outQ, cur, handled>> /\ pc'[Fan] = pc[Fan]
    BY <2>4 DEF WriterStep, LockBegin, SetResponseHandler, CloseSubs, CloseQueues,
      fanVars, outVars
  <2>5. ASSUME NEW s \in Subs \ Takers, SubscriberStep(s)
        PROVE  UNCHANGED <<log, outQ, cur, handled, pc>>
    BY <2>5 DEF SubscriberStep, SubscribeOutboundFiltered, UnsubscribeOutbound, Receive,
      fanVars, outVars
  <2>6. ASSUME NEW s \in Takers, TakeBegin(s) \/ TakeEnd(s)
        PROVE  UNCHANGED <<log, outQ, cur, handled>> /\ pc'[Fan] = pc[Fan]
    BY <2>6 DEF TakeBegin, TakeEnd, fanVars, outVars
  <2>7. ASSUME NEW p \in Cancellable, Cancel(p)
        PROVE  UNCHANGED <<log, outQ, cur, handled, pc>>
    BY <2>7 DEF Cancel, fanVars, outVars
  <2>8. CASE UNCHANGED vars
    BY <2>8 DEF vars, fanVars, outVars
  <2> QED BY <2>1, <2>2, <2>3, <2>4, <2>5, <2>6, <2>7, <2>8 DEF Next
<1> QED BY <1>1, <1>2

(* The queue and the message in hand do not depend on the subscribers ...  *)
LEMMA OutQueueStep ==
  TypeOK /\ HeldOK /\ OutQueueOK /\ CurOK /\ [Next]_vars => OutQueueOK' /\ CurOK'
<1> SUFFICES ASSUME TypeOK, HeldOK, OutQueueOK, CurOK, [Next]_vars
             PROVE  OutQueueOK' /\ CurOK'
  OBVIOUS
<1> USE DEF OutQueueOK, CurOK, TakenOut, InHand
<1>0. /\ pc \in [Procs -> {"idle", "sendIn", "sendOut", "wait", "lock", "swept",
                          "recv", "handle", "count", "deliver", "done"}]
      /\ Fan \in Procs /\ outQ \in Seq(Nat) /\ log \in Seq(Msg) /\ cur \in Nat
      /\ Len(outQ) \in Nat /\ Len(log) \in Nat
  BY DEF TypeOK, ControlOK, OutOK, FanOK
<1>1. ASSUME NEW p \in Publishers, SendOutbound(p), Enqueues(held[p])
      PROVE  OutQueueOK' /\ CurOK'
  <2>1. held[p] \in Msg
    BY <1>1 DEF HeldOK, SendOutbound
  <2>2. Len(log') = Len(log) + 1
    BY <1>0, <1>1, <2>1 DEF Enqueues
  <2>3. /\ Len(outQ') = Len(outQ) + 1 /\ outQ'[Len(outQ) + 1] = Len(log) + 1
        /\ \A k \in 1..Len(outQ) : outQ'[k] = outQ[k]
    BY <1>0, <1>1, AppendAt DEF Enqueues
  <2> QED BY <1>0, <1>1, <2>2, <2>3 DEF Enqueues
<1>2. CASE FanReceive
  <2>1. /\ Len(outQ') = Len(outQ) - 1 /\ cur' = outQ[1] /\ Len(outQ) > 0
        /\ \A k \in 1..Len(outQ') : outQ'[k] = outQ[k + 1]
    BY <1>0, <1>2, TailAt DEF FanReceive
  <2>2. pc'[Fan] = "handle" /\ pc[Fan] = "recv" /\ log' = log
    BY <1>0, <1>2 DEF FanReceive, GoTo
  <2> QED BY <1>0, <2>1, <2>2
<1>3. CASE FanHandle \/ FanCount \/ FanDeliver
  <2>1. /\ UNCHANGED <<log, outQ>> /\ InHand(pc[Fan])
        /\ \/ cur' = cur /\ InHand(pc'[Fan])
           \/ cur' = 0 /\ pc'[Fan] = "recv"
    BY <1>0, <1>3 DEF FanHandle, FanCount, FanDeliver, GoTo, outVars
  <2> QED BY <1>0, <2>1
<1>4. CASE /\ UNCHANGED <<log, outQ, cur, handled>>
           /\ InHand(pc'[Fan]) <=> InHand(pc[Fan])
  BY <1>4
<1> QED BY <1>1, <1>2, <1>3, <1>4, OutboundStep DEF TypeOK

(* ... and what lies behind the fanout stays behind it: it never goes back.*)
LEMMA PastStep ==
  TypeOK /\ HeldOK /\ OutQueueOK /\ CurOK /\ [Next]_vars
  => /\ Past \in Nat /\ Past' \in Nat /\ Past <= Past'
     /\ cur # 0 => Past < cur
     /\ FanHandle \/ FanDeliver => Past' >= cur \/ cur' = cur
<1> SUFFICES ASSUME TypeOK, HeldOK, OutQueueOK, CurOK, [Next]_vars
             PROVE  /\ Past \in Nat /\ Past' \in Nat /\ Past <= Past'
                    /\ cur # 0 => Past < cur
                    /\ FanHandle \/ FanDeliver => Past' >= cur \/ cur' = cur
  OBVIOUS
<1> USE DEF OutQueueOK, CurOK, TakenOut, Past
<1>0. /\ outQ \in Seq(Nat) /\ log \in Seq(Msg) /\ cur \in Nat
      /\ Len(outQ) \in Nat /\ Len(log) \in Nat
  BY DEF TypeOK, OutOK, FanOK
<1>00. OutQueueOK' /\ CurOK' /\ cur' \in Nat /\ Len(outQ') \in Nat /\ Len(log') \in Nat
  BY OutQueueStep, TypeStep DEF TypeOK, OutOK, FanOK
<1>1. ASSUME NEW p \in Publishers, SendOutbound(p), Enqueues(held[p])
      PROVE  Past' = Past
  <2>1. held[p] \in Msg
    BY <1>1 DEF HeldOK, SendOutbound
  <2>2. Len(log') = Len(log) + 1 /\ Len(outQ') = Len(outQ) + 1 /\ cur' = cur
    BY <1>0, <1>1, <2>1 DEF Enqueues
  <2> QED BY <1>0, <2>2
<1>2. CASE FanReceive
  <2>1. /\ Len(outQ') = Len(outQ) - 1 /\ cur' = outQ[1] /\ Len(outQ) > 0
    BY <1>0, <1>2, TailAt DEF FanReceive
  <2>2. cur = 0 /\ log' = log
    BY <1>2 DEF FanReceive
  <2> QED BY <1>0, <2>1, <2>2
<1>3. CASE FanHandle \/ FanCount \/ FanDeliver
  BY <1>0, <1>3 DEF FanHandle, FanCount, FanDeliver, outVars
<1>4. CASE UNCHANGED <<log, outQ, cur, handled>>
  BY <1>4
<1>5. FanHandle \/ FanDeliver => Past' >= cur \/ cur' = cur
  BY <1>0, <1>00 DEF FanHandle, FanDeliver, outVars
<1>6. Past \in Nat /\ (cur # 0 => Past < cur)
  BY <1>0
<1>7. ASSUME NEW p \in Publishers, SendOutbound(p), Enqueues(held[p])
      PROVE  Past' \in Nat /\ Past <= Past'
  <2>1. Past' = Past
    BY <1>1, <1>7
  <2> HIDE DEF Past
  <2> QED BY <1>6, <2>1
<1> HIDE DEF OutQueueOK, CurOK, TakenOut, Past
<1> QED BY <1>2, <1>3, <1>4, <1>5, <1>6, <1>7, OutboundStep DEF TypeOK

LEMMA FanInvStep ==
  TypeOK /\ HeldOK /\ FanInv /\ [Next]_vars => FanInv'
<1> SUFFICES ASSUME TypeOK, HeldOK, FanInv, [Next]_vars PROVE FanInv'
  OBVIOUS
<1>1. OutQueueOK' /\ CurOK'
  BY OutQueueStep DEF FanInv
<1>2. /\ Past \in Nat /\ Past' \in Nat /\ Past <= Past'
      /\ cur # 0 => Past < cur
      /\ FanHandle \/ FanDeliver => Past' >= cur \/ cur' = cur
  BY PastStep DEF FanInv
<1>3. /\ \A s \in Subs : /\ Delivered(s) \in Seq(Nat)
                         /\ \A k \in 1..Len(Delivered(s)) :
                              /\ Delivered(s)[k] \in 1..Past
                              /\ Delivered(s)[k] \notin handled
      /\ handled \subseteq 1..Past
      /\ cur \in Nat /\ CurOK
  BY DeliveredType DEF FanInv, DeliveredPast, HandledPast, HandledNotBroadcast, TypeOK, FanOK
<1>4. CASE FanDeliver
  <2>1. cur # 0 /\ cur' = 0 /\ handled' = handled /\ Past' >= cur
    BY <1>2, <1>3, <1>4 DEF FanDeliver, CurOK
  <2>2. ASSUME NEW s \in Subs, NEW k \in 1..Len(Delivered(s)')
        PROVE  Delivered(s)'[k] \in 1..Past' /\ Delivered(s)'[k] \notin handled
    <3>1. CASE Delivered(s)' = Delivered(s)
      BY <1>2, <1>3, <3>1
    <3>2. CASE Delivered(s)' = Append(Delivered(s), cur)
      <4>1. \/ Delivered(s)'[k] = cur
            \/ k \in 1..Len(Delivered(s)) /\ Delivered(s)'[k] = Delivered(s)[k]
        BY <1>3, <3>2, AppendAt
      <4> QED BY <1>2, <1>3, <2>1, <4>1
    <3> QED BY <1>4, <3>1, <3>2, DeliveredNew DEF TypeOK
  <2> QED BY <1>1, <1>2, <1>3, <2>1, <2>2
         DEF FanInv, DeliveredPast, HandledPast, HandledNotBroadcast
<1>5. CASE ~FanDeliver
  <2>1. \A s \in Subs : Delivered(s)' = Delivered(s)
    BY <1>5, DeliveredSame DEF TypeOK
  <2>2. \/ handled' = handled
        \/ FanHandle /\ handled' = handled \cup {cur} /\ cur' = 0
    BY <1>5, OutboundStep DEF TypeOK, FanHandle, Enqueues, FanReceive, FanCount
  <2>3. \/ handled' = handled
        \/ cur # 0 /\ handled' = handled \cup {cur} /\ Past' >= cur
    BY <1>2, <1>3, <2>2 DEF FanHandle, CurOK
  <2>4. ASSUME NEW s \in Subs, NEW k \in 1..Len(Delivered(s)')
        PROVE  Delivered(s)'[k] \in 1..Past' /\ Delivered(s)'[k] \notin handled'
    BY <1>2, <1>3, <2>1, <2>3, <2>4
  <2>5. ASSUME NEW h \in handled' PROVE h \in 1..Past'
    <3>1. h \in handled \/ (h = cur /\ cur # 0 /\ Past' >= cur)
      BY <2>3, <2>5
    <3>2. h \in handled => h \in 1..Past
      BY <1>3
    <3>3. Past \in Nat /\ Past' \in Nat /\ Past <= Past' /\ cur \in Nat
      BY <1>2, <1>3
    <3> QED BY <3>1, <3>2, <3>3
  <2> QED BY <1>1, <2>4, <2>5 DEF FanInv, DeliveredPast, HandledPast, HandledNotBroadcast
<1> QED BY <1>4, <1>5

LEMMA FanInvariant == Spec => [](TypeOK /\ HeldOK /\ LockInv /\ FanInv)
<1>1. TypeOK /\ HeldOK /\ LockInv /\ NoPanic /\ FanInv /\ [Next]_vars
      => TypeOK' /\ HeldOK' /\ LockInv' /\ NoPanic' /\ FanInv'
  BY LockStep, FanInvStep
<1> QED BY <1>1, InitType, InitLock, InitFan, PTL DEF Spec

(* No subscriber is ever handed a response that the handler claimed, read  *)
(* or still in its channel (fanoutMessages: the handler first, then        *)
(* continue).                                                              *)
THEOREM NeverBoth == Spec => []HandledNotBroadcast
<1>1. FanInv => HandledNotBroadcast
  BY DEF FanInv
<1> QED BY <1>1, FanInvariant, PTL

-----------------------------------------------------------------------------
(* Refinement: each step of the bus is a step of LossyBroadcast or a       *)
(* stutter.  Publishing accepts (the lock keeps Close out, so ~stopped),   *)
(* the fanout's delivery delivers, the first half of Close stops.          *)
LEMMA InitBroadcast == Init => Broadcast!Init
BY DEF Init, Broadcast!Init, Delivered

LEMMA AcceptStep ==
  ASSUME TypeOK, HeldOK, LockInv, NEW p \in Publishers, SendOutbound(p), Enqueues(held[p])
  PROVE  ~closed /\ \E m \in Broadcast!Message : log' = Append(log, m)
<1>1. held[p] \in Broadcast!Message
  BY DEF HeldOK, SendOutbound, Msg, Broadcast!Message
<1>2. ~closed
  BY DEF SendOutbound, LockInv, SendersRead, ReadersOpen, TypeOK, FlagsOK
<1> QED BY <1>1, <1>2 DEF Enqueues

LEMMA DeliverStep ==
  TypeOK /\ FanInv /\ FanDeliver
  => \E i \in 1..Len(log) : \E to \in SUBSET Subs : Broadcast!Deliver(i, to)
<1> SUFFICES ASSUME TypeOK, FanInv, FanDeliver PROVE Broadcast!Deliver(cur, Served) /\
                    cur \in 1..Len(log) /\ Served \in SUBSET Subs
  OBVIOUS
<1>1. cur \in 1..Len(log) /\ Past = cur - 1
  BY DEF FanInv, CurOK, OutQueueOK, TakenOut, Past, FanDeliver, TypeOK, FanOK, OutOK
<1>2. Served \in SUBSET Subs
  BY DEF Served, Matching, TypeOK, SubsOK
<1>3. ASSUME NEW s \in Served
      PROVE  /\ Broadcast!Wants(s, log[cur])
             /\ \A k \in 1..Len(Delivered(s)) : Delivered(s)[k] < cur
  BY <1>1, <1>2 DEF Served, Matching, MatchChannel, Broadcast!Wants, FanInv, DeliveredPast
<1>4. [s \in Subs |-> Delivered(s)]'
      = [s \in Subs |-> IF s \in Served THEN Append(Delivered(s), cur) ELSE Delivered(s)]
  BY DeliveredNew DEF TypeOK
<1>5. UNCHANGED <<log, closed>>
  BY DEF FanDeliver, outVars
<1> QED BY <1>1, <1>2, <1>3, <1>4, <1>5 DEF Broadcast!Deliver

LEMMA ClosedStep ==
  FlagsOK /\ [Next]_vars =>
    closed' = closed \/ (closed' = TRUE /\ UNCHANGED log)
BY DEF FlagsOK, Next, PublisherStep, ConsumerStep, FanStep, WriterStep, SubscriberStep,
  PublishInbound, SendInbound, PublishOutbound, SendOutbound, PublishCancelled,
  ConsumeInbound, ReceiveInbound, ConsumeCancelled, Cancel, SubscribeOutboundFiltered,
  UnsubscribeOutbound, Receive, TakeBegin, TakeEnd, FanReceive, FanHandle, FanCount,
  FanDeliver, FanExit, FanStopped, LockBegin, SetResponseHandler, CloseSubs,
  CloseQueues, vars, flagVars, outVars

LEMMA BroadcastStep ==
  TypeOK /\ HeldOK /\ LockInv /\ FanInv /\ [Next]_vars
  => [Broadcast!Next]_<<log, [s \in Subs |-> Delivered(s)], closed>>
<1> SUFFICES ASSUME TypeOK, HeldOK, LockInv, FanInv, [Next]_vars
             PROVE  [Broadcast!Next]_<<log, [s \in Subs |-> Delivered(s)], closed>>
  OBVIOUS
<1>1. CASE FanDeliver
  BY <1>1, DeliverStep DEF Broadcast!Next
<1>2. CASE ~FanDeliver
  <2>1. [s \in Subs |-> Delivered(s)]' = [s \in Subs |-> Delivered(s)]
    BY <1>2, DeliveredSame DEF TypeOK
  <2>2. ASSUME NEW p \in Publishers, SendOutbound(p), Enqueues(held[p])
        PROVE  Broadcast!Accept
    BY <2>1, <2>2, AcceptStep DEF Broadcast!Accept, SendOutbound
  <2>3. CASE log' = log
    <3>1. CASE closed' = closed
      BY <2>1, <2>3, <3>1
    <3>2. CASE closed' = TRUE
      BY <2>1, <2>3, <3>2 DEF Broadcast!Next, Broadcast!Stop
    <3> QED BY <3>1, <3>2, ClosedStep DEF TypeOK
  <2> QED BY <1>2, <2>2, <2>3, OutboundStep
         DEF TypeOK, FanReceive, FanHandle, FanCount, outVars, Broadcast!Next
<1> QED BY <1>1, <1>2

(* What the bus promises its outbound side, for any number of goroutines,  *)
(* any filters and any buffer sizes: each subscriber sees a subsequence of *)
(* the accepted messages that match its filter, in order and without       *)
(* duplicates, and nothing is accepted after Close.                        *)
THEOREM ImplementsBroadcast == Spec => BroadcastSpec
BY InitBroadcast, BroadcastStep, FanInvariant, PTL DEF Spec, BroadcastSpec, Broadcast!Spec
=============================================================================
