------------------------- MODULE EventTopicsProofs -------------------------
(***************************************************************************)
(* Proofs about EventTopics: type correctness, no send on a closed topic   *)
(* under the gateway's handler, and the order each subscriber sees, for    *)
(* any number of emitters and subscriptions and any buffer sizes.          *)
(***************************************************************************)
EXTENDS EventTopics, TLAPS

(* Facts about sequences alone: what a receive and a send do to what a     *)
(* subscriber has read and what its channel holds together.                *)
LEMMA MoveHead ==
  ASSUME NEW a \in Seq(Nat), NEW b \in Seq(Nat), b # <<>>
  PROVE  Append(a, Head(b)) \o Tail(b) = a \o b
OBVIOUS

LEMMA AppendToSecond ==
  ASSUME NEW a \in Seq(Nat), NEW b \in Seq(Nat), NEW i \in Nat
  PROVE  a \o Append(b, i) = Append(a \o b, i)
OBVIOUS

LEMMA AppendAt ==
  ASSUME NEW S, NEW a \in Seq(S), NEW i \in S
  PROVE  /\ Append(a, i) \in Seq(S) /\ Len(Append(a, i)) = Len(a) + 1
         /\ Append(a, i)[Len(a) + 1] = i
         /\ \A k \in 1..Len(a) : Append(a, i)[k] = a[k]
OBVIOUS

LEMMA TailAt ==
  ASSUME NEW a \in Seq(Nat), a # <<>>
  PROVE  /\ Tail(a) \in Seq(Nat) /\ Len(Tail(a)) = Len(a) - 1 /\ Head(a) = a[1]
         /\ \A k \in 1..Len(Tail(a)) : Tail(a)[k] = a[k + 1]
OBVIOUS

-----------------------------------------------------------------------------
USE TopicsAssumption DEF TopicsAssumption, Procs, Topics

LEMMA InitType == Init => TypeOK
<1> SUFFICES ASSUME Init PROVE TypeOK
  OBVIOUS
<1>1. ControlOK
  BY DEF Init, ControlOK
<1>2. QueueOK
  BY DEF Init, QueueOK
<1>3. SubsOK
  BY DEF Init, SubsOK
<1> QED BY <1>1, <1>2, <1>3 DEF TypeOK

(* One lemma for the control state, one for each group of data.            *)
LEMMA ControlStep == ControlOK /\ [Next]_vars => ControlOK'
<1> SUFFICES ASSUME ControlOK, [Next]_vars PROVE ControlOK'
  OBVIOUS
<1> USE DEF ControlOK, GoTo
<1>1. ASSUME NEW p \in Emitters, NEW t \in Topics, Publish(p, t) PROVE ControlOK'
  BY <1>1 DEF Publish
<1>2. ASSUME NEW p \in Emitters, Offer(p) PROVE ControlOK'
  <2>1. /\ readers' = readers \ {p} /\ pc' = [pc EXCEPT ![p] = "idle"] /\ panicked' \in BOOLEAN
        /\ UNCHANGED <<direct, topic, writer, hmu, closed, open>>
    BY <1>2 DEF Offer
  <2> QED BY <2>1
<1>3. ASSUME NEW p \in Emitters, Full(p) PROVE ControlOK'
  BY <1>3 DEF Full
<1>4. ASSUME NEW p \in Emitters, LogDirect(p) PROVE ControlOK'
  BY <1>4 DEF LogDirect, lockVars
<1>5. ASSUME NEW p \in Emitters, HandleLock(p) PROVE ControlOK'
  BY <1>5 DEF HandleLock
<1>6. ASSUME NEW p \in Emitters, HandleIsClosed(p) PROVE ControlOK'
  BY <1>6 DEF HandleIsClosed, LeaveHandle
<1>7. ASSUME NEW p \in Emitters, HandleSend(p) PROVE ControlOK'
  BY <1>7 DEF HandleSend, LeaveHandle
<1>8. CASE CloseBegin \/ CloseSweep \/ CloseQueues
  <2>1. CASE CloseBegin
    BY <2>1 DEF CloseBegin
  <2>2. CASE CloseSweep
    BY <2>2 DEF CloseSweep, lockVars
  <2>3. CASE CloseQueues
    BY <2>3 DEF CloseQueues, lockVars
  <2> QED BY <1>8, <2>1, <2>2, <2>3
<1>9. CASE UNCHANGED <<direct, pc, topic, lockVars, closed, open, panicked>>
  BY <1>9 DEF lockVars
<1> QED BY <1>1, <1>2, <1>3, <1>4, <1>5, <1>6, <1>7, <1>8, <1>9 DEF Next, vars,
  Subscribe, Unsubscribe, Receive, FanReceive, FanSkip, FanDeliver

(* An event in a topic's queue is one the topic accepted.                  *)
LEMMA EnqueueType ==
  ASSUME QueueOK, NEW t \in Topics, NEW e \in Event(t), Enqueue(t, e)
  PROVE  /\ queue' \in [Topics -> Seq(Nat)]
         /\ accepted' \in [Topics -> Seq(Channels \cup {"log"})]
<1>1. /\ queue[t] \in Seq(Nat) /\ accepted[t] \in Seq(Channels \cup {"log"})
      /\ Len(accepted[t]) + 1 \in Nat /\ e \in Channels \cup {"log"}
  BY DEF QueueOK, Event
<1>2. /\ Append(queue[t], Len(accepted[t]) + 1) \in Seq(Nat)
      /\ Append(accepted[t], e) \in Seq(Channels \cup {"log"})
  BY <1>1, AppendAt
<1> QED BY <1>2 DEF QueueOK, Enqueue

(* What a step does to the queues.                                         *)
LEMMA QueueMoves ==
  ControlOK /\ [Next]_vars =>
    \/ \E t \in Topics : \E e \in Event(t) : Enqueue(t, e) /\ UNCHANGED fan
    \/ \E t \in Topics : FanReceive(t) \/ FanSkip(t) \/ FanDeliver(t)
    \/ UNCHANGED <<queueVars, fan>>
<1> SUFFICES ASSUME ControlOK, [Next]_vars
             PROVE  \/ \E t \in Topics : \E e \in Event(t) : Enqueue(t, e) /\ UNCHANGED fan
                    \/ \E t \in Topics : FanReceive(t) \/ FanSkip(t) \/ FanDeliver(t)
                    \/ UNCHANGED <<queueVars, fan>>
  OBVIOUS
<1>1. ASSUME NEW p \in Emitters, Offer(p)
      PROVE  \/ \E t \in Topics : \E e \in Event(t) : Enqueue(t, e) /\ UNCHANGED fan
             \/ UNCHANGED <<queueVars, fan>>
  BY <1>1 DEF Offer, ControlOK
<1>2. ASSUME NEW p \in Emitters, HandleSend(p)
      PROVE  \/ \E t \in Topics : \E e \in Event(t) : Enqueue(t, e) /\ UNCHANGED fan
             \/ UNCHANGED <<queueVars, fan>>
  <2>1. "log" \in Topics /\ "log" \in Event("log")
    BY DEF Event
  <2>2. (Enqueue("log", "log") \/ UNCHANGED queueVars) /\ UNCHANGED fan
    BY <1>2 DEF HandleSend
  <2> QED BY <2>1, <2>2
<1>3. \/ \E p \in Emitters : Offer(p) \/ HandleSend(p)
      \/ \E t \in Topics : FanReceive(t) \/ FanSkip(t) \/ FanDeliver(t)
      \/ UNCHANGED <<queueVars, fan>>
  BY DEF Next, Publish, Full, LogDirect, HandleLock, HandleIsClosed, Subscribe,
    Unsubscribe, Receive, CloseBegin, CloseSweep, CloseQueues, vars
<1> QED BY <1>1, <1>2, <1>3

LEMMA QueueStep == ControlOK /\ QueueOK /\ [Next]_vars => QueueOK'
<1> SUFFICES ASSUME ControlOK, QueueOK, [Next]_vars PROVE QueueOK'
  OBVIOUS
<1>1. ASSUME NEW t \in Topics, NEW e \in Event(t), Enqueue(t, e), UNCHANGED fan
      PROVE  QueueOK'
  BY <1>1, EnqueueType DEF QueueOK
<1>2. ASSUME NEW t \in Topics, FanReceive(t) PROVE QueueOK'
  <2>1. /\ Head(queue[t]) \in Nat /\ Tail(queue[t]) \in Seq(Nat)
    BY <1>2 DEF FanReceive, QueueOK
  <2> QED BY <1>2, <2>1 DEF FanReceive, QueueOK
<1>3. ASSUME NEW t \in Topics, FanSkip(t) \/ FanDeliver(t) PROVE QueueOK'
  BY <1>3 DEF FanSkip, FanDeliver, QueueOK, queueVars
<1>4. CASE UNCHANGED <<queueVars, fan>>
  BY <1>4 DEF QueueOK, queueVars
<1> QED BY <1>1, <1>2, <1>3, <1>4, QueueMoves

LEMMA SubsStep == QueueOK /\ SubsOK /\ [Next]_vars => SubsOK'
<1> SUFFICES ASSUME QueueOK, SubsOK, [Next]_vars PROVE SubsOK'
  OBVIOUS
<1> USE DEF SubsOK
<1>1. ASSUME NEW s \in Subs, Receive(s) PROVE SubsOK'
  <2>1. Append(got[s], Head(subQ[s])) \in Seq(Nat) /\ Tail(subQ[s]) \in Seq(Nat)
    BY <1>1 DEF Receive
  <2> QED BY <1>1, <2>1 DEF Receive
<1>2. ASSUME NEW t \in Topics, FanDeliver(t) PROVE SubsOK'
  <2>1. \A s \in Subs : Append(subQ[s], fan[t]) \in Seq(Nat)
    BY DEF QueueOK
  <2> QED BY <1>2, <2>1 DEF FanDeliver
<1>3. ASSUME NEW s \in Subs, Subscribe(s) \/ Unsubscribe(s) PROVE SubsOK'
  BY <1>3 DEF Subscribe, Unsubscribe
<1>4. CASE CloseSweep
  BY <1>4 DEF CloseSweep
<1>5. CASE UNCHANGED subVars
  BY <1>5 DEF subVars
<1> QED BY <1>1, <1>2, <1>3, <1>4, <1>5 DEF Next, vars, Publish, Offer, Full, LogDirect,
  HandleLock, HandleIsClosed, HandleSend, FanReceive, FanSkip, CloseBegin, CloseQueues

LEMMA TypeStep == TypeOK /\ [Next]_vars => TypeOK'
BY ControlStep, QueueStep, SubsStep DEF TypeOK

(* The variables keep their shape; only one emitter at a time is inside    *)
(* the handler's mutex.                                                    *)
THEOREM TypeCorrect == Spec => []TypeOK
BY InitType, TypeStep, PTL DEF Spec

-----------------------------------------------------------------------------
(* Who selects holds the read lock; Close sets closed with no reader left, *)
(* and nobody gets in after; the channels are open until the second half   *)
(* of Close, when closed is set; and only the handler of the TUI is ever   *)
(* entered.                                                                *)
SelectsRead   == \A p \in Emitters : pc[p] = "select" => p \in readers
ClosedNoRead  == closed = TRUE => readers = {}
SweptClosed   == pc[Closer] = "swept" => closed = TRUE
OpenTillClose == closed = FALSE => open = TRUE
HandlerDirect == \A p \in Emitters : pc[p] \in {"handle", "check", "send"} => direct = TRUE

LockInv == SelectsRead /\ ClosedNoRead /\ SweptClosed /\ OpenTillClose /\ HandlerDirect

LEMMA InitLock == Init => LockInv /\ NoPanic
BY DEF Init, LockInv, SelectsRead, ClosedNoRead, SweptClosed, OpenTillClose,
  HandlerDirect, NoPanic

LEMMA LockStep ==
  ControlOK /\ LockInv /\ NoPanic /\ [Next]_vars => LockInv' /\ NoPanic'
<1> SUFFICES ASSUME ControlOK, LockInv, NoPanic, [Next]_vars PROVE LockInv' /\ NoPanic'
  OBVIOUS
<1> USE DEF ControlOK, LockInv, SelectsRead, ClosedNoRead, SweptClosed, OpenTillClose,
  HandlerDirect, NoPanic, GoTo
<1>1. ASSUME NEW p \in Emitters, NEW t \in Topics, Publish(p, t)
      PROVE  LockInv' /\ NoPanic'
  BY <1>1 DEF Publish
<1>2. ASSUME NEW p \in Emitters, Offer(p) PROVE LockInv' /\ NoPanic'
  <2>1. /\ readers' = readers \ {p} /\ pc' = [pc EXCEPT ![p] = "idle"]
        /\ UNCHANGED <<direct, closed, open>>
    BY <1>2 DEF Offer
  <2>2. closed = FALSE /\ open = TRUE
    BY <1>2 DEF Offer
  <2>3. panicked' = panicked
    BY <1>2, <2>2 DEF Offer
  <2> QED BY <2>1, <2>3
<1>3. ASSUME NEW p \in Emitters, Full(p) PROVE LockInv' /\ NoPanic'
  BY <1>3 DEF Full
<1>4. ASSUME NEW p \in Emitters, LogDirect(p) PROVE LockInv' /\ NoPanic'
  BY <1>4 DEF LogDirect, lockVars
<1>5. ASSUME NEW p \in Emitters, HandleLock(p) PROVE LockInv' /\ NoPanic'
  BY <1>5 DEF HandleLock
<1>6. ASSUME NEW p \in Emitters, HandleIsClosed(p) PROVE LockInv' /\ NoPanic'
  BY <1>6 DEF HandleIsClosed, LeaveHandle
<1>7. ASSUME NEW p \in Emitters, HandleSend(p) PROVE LockInv' /\ NoPanic'
  BY <1>7 DEF HandleSend, LeaveHandle
<1>8. CASE CloseBegin
  BY <1>8 DEF CloseBegin
<1>9. CASE CloseSweep
  BY <1>9 DEF CloseSweep, lockVars
<1>10. CASE CloseQueues
  BY <1>10 DEF CloseQueues
<1>11. CASE UNCHANGED <<direct, pc, readers, closed, open, panicked>>
  BY <1>11
<1>12. \/ \E p \in Emitters : \/ \E t \in Topics : Publish(p, t)
                              \/ Offer(p) \/ Full(p) \/ LogDirect(p)
                              \/ HandleLock(p) \/ HandleIsClosed(p) \/ HandleSend(p)
       \/ CloseBegin \/ CloseSweep \/ CloseQueues
       \/ UNCHANGED <<direct, pc, readers, closed, open, panicked>>
  <2> HIDE DEF ControlOK, LockInv, SelectsRead, ClosedNoRead, SweptClosed, OpenTillClose,
    HandlerDirect, NoPanic, GoTo
  <2> QED BY DEF Next, vars, lockVars, Subscribe, Unsubscribe, Receive, FanReceive, FanSkip,
    FanDeliver
<1> HIDE DEF ControlOK, LockInv, SelectsRead, ClosedNoRead, SweptClosed, OpenTillClose,
  HandlerDirect, NoPanic, GoTo
<1> QED BY <1>1, <1>2, <1>3, <1>4, <1>5, <1>6, <1>7, <1>8, <1>9, <1>10, <1>11, <1>12

(* With the gateway's handler every send on a topic is made under the read *)
(* lock, and none finds the topic closed, for any number of emitters       *)
(* (PublishChatEvent, PublishLogEvent, Close).                             *)
THEOREM NeverPanics == Spec => []NoPanic
<1>1. TypeOK /\ LockInv /\ NoPanic /\ [Next]_vars => TypeOK' /\ LockInv' /\ NoPanic'
  BY TypeStep, LockStep DEF TypeOK
<1> QED BY <1>1, InitType, InitLock, PTL DEF Spec

-----------------------------------------------------------------------------
(* A topic's queue holds the end of what it accepted and the fanout has    *)
(* the last event taken out, or none; Past is the last one it is done      *)
(* with.                                                                   *)
TakenOut(t) == Len(accepted[t]) - Len(queue[t])
Past(t)     == IF fan[t] = 0 THEN TakenOut(t) ELSE fan[t] - 1

TopicOK(t) == /\ Len(queue[t]) <= Len(accepted[t])
              /\ \A k \in 1..Len(queue[t]) : queue[t][k] = TakenOut(t) + k
              /\ fan[t] # 0 => fan[t] = TakenOut(t)

DeliveredPast ==
  \A s \in Subs : \A k \in 1..Len(Delivered(s)) : Delivered(s)[k] \in 1..Past(TopicOf[s])

(* The two halves of EventOrder.                                           *)
Increasing == \A s \in Subs : \A k \in 2..Len(Delivered(s)) :
                Delivered(s)[k - 1] < Delivered(s)[k]
Filtered   == \A s \in Subs : \A k \in 1..Len(Delivered(s)) :
                FilterOf[s] # {} => accepted[TopicOf[s]][Delivered(s)[k]] \in FilterOf[s]

OrderInv == (\A t \in Topics : TopicOK(t)) /\ DeliveredPast /\ Increasing /\ Filtered

LEMMA InitOrder == Init => OrderInv
<1> SUFFICES ASSUME Init PROVE OrderInv
  OBVIOUS
<1>1. \A t \in Topics : TopicOK(t)
  BY DEF Init, TopicOK, TakenOut
<1>2. \A s \in Subs : Len(Delivered(s)) = 0
  BY DEF Init, Delivered
<1> QED BY <1>1, <1>2 DEF OrderInv, DeliveredPast, Increasing, Filtered

(* A topic: nothing accepted is changed, the queue keeps its place, and    *)
(* the fanout only moves forward.                                          *)
TopicMoves(t) == /\ TopicOK(t)'
                 /\ Past(t) \in Nat /\ Past(t)' \in Nat /\ Past(t) <= Past(t)'
                 /\ Past(t) <= Len(accepted[t])
                 /\ \A i \in 1..Len(accepted[t]) : accepted'[t][i] = accepted[t][i]

LEMMA TopicStep ==
  ASSUME ControlOK, QueueOK, NEW t \in Topics, TopicOK(t), [Next]_vars
  PROVE  TopicMoves(t)
<1> DEFINE lq == Len(queue[t])  la == Len(accepted[t])  f == fan[t]
           lq2 == Len(queue'[t])  la2 == Len(accepted'[t])  f2 == fan'[t]
<1>1. queue[t] \in Seq(Nat) /\ accepted[t] \in Seq(Channels \cup {"log"})
  BY DEF QueueOK
<1>2. f \in Nat /\ lq \in Nat /\ la \in Nat
  BY DEF QueueOK
<1>3. lq <= la /\ (f # 0 => f = la - lq)
  BY DEF TopicOK, TakenOut
<1>4. \A k \in 1..lq : queue[t][k] = la - lq + k
  BY DEF TopicOK, TakenOut
<1>5. Past(t) = IF f = 0 THEN la - lq ELSE f - 1
  BY DEF Past, TakenOut
<1>6. Past(t)' = IF f2 = 0 THEN la2 - lq2 ELSE f2 - 1
  BY DEF Past, TakenOut
<1>7. Past(t) \in Nat /\ Past(t) <= la
  <2> HIDE DEF lq, la, f
  <2> QED BY <1>2, <1>3, <1>5
<1>8. ASSUME lq2 <= la2, f2 # 0 => f2 = la2 - lq2,
             \A k \in 1..lq2 : queue'[t][k] = la2 - lq2 + k
      PROVE  TopicOK(t)'
  BY <1>8 DEF TopicOK, TakenOut
<1>9. ASSUME TopicOK(t)', Past(t)' \in {Past(t), Past(t) + 1},
             \A i \in 1..la : accepted'[t][i] = accepted[t][i]
      PROVE  TopicMoves(t)
  <2>1. Past(t)' \in Nat /\ Past(t) <= Past(t)'
    BY <1>7, <1>9
  <2> QED BY <1>7, <1>9, <2>1 DEF TopicMoves
<1>10. CASE queue'[t] = queue[t] /\ accepted'[t] = accepted[t] /\ f2 = f
  <2>1. TopicOK(t)' /\ Past(t)' = Past(t)
    BY <1>10 DEF TopicOK, TakenOut, Past
  <2> QED BY <1>9, <1>10, <2>1
<1>11. ASSUME NEW e \in Event(t), Enqueue(t, e), UNCHANGED fan
       PROVE  TopicMoves(t)
  <2>1. /\ queue'[t] = Append(queue[t], la + 1) /\ accepted'[t] = Append(accepted[t], e)
        /\ f2 = f
    BY <1>11 DEF Enqueue, QueueOK
  <2>2. e \in Channels \cup {"log"} /\ la + 1 \in Nat
    BY <1>2 DEF Event
  <2>3. /\ lq2 = lq + 1 /\ queue'[t][lq + 1] = la + 1
        /\ \A k \in 1..lq : queue'[t][k] = queue[t][k]
    BY <1>1, <2>1, <2>2, AppendAt
  <2>4. la2 = la + 1 /\ \A i \in 1..la : accepted'[t][i] = accepted[t][i]
    BY <1>1, <2>1, <2>2, AppendAt
  <2> HIDE DEF lq, la, f, lq2, la2, f2
  <2>5. ASSUME NEW k \in 1..lq2 PROVE queue'[t][k] = la2 - lq2 + k
    <3>1. CASE k = lq + 1
      BY <1>2, <2>3, <2>4, <3>1
    <3>2. CASE k \in 1..lq
      BY <1>2, <1>4, <2>3, <2>4, <3>2
    <3> QED BY <1>2, <2>3, <3>1, <3>2
  <2>6. lq2 <= la2 /\ (f2 # 0 => f2 = la2 - lq2) /\ Past(t)' = Past(t)
    BY <1>2, <1>3, <1>5, <1>6, <2>1, <2>3, <2>4
  <2> QED BY <1>8, <1>9, <2>4, <2>5, <2>6
<1>12. CASE FanReceive(t)
  <2>1. /\ queue'[t] = Tail(queue[t]) /\ f2 = Head(queue[t]) /\ queue[t] # <<>>
        /\ f = 0 /\ accepted'[t] = accepted[t]
    BY <1>12 DEF FanReceive, QueueOK
  <2>2. /\ lq2 = lq - 1 /\ f2 = queue[t][1]
        /\ \A k \in 1..lq2 : queue'[t][k] = queue[t][k + 1]
    BY <1>1, <2>1, TailAt
  <2>3. lq > 0
    BY <1>1, <2>1
  <2>4. la2 = la
    BY <2>1
  <2> HIDE DEF lq, la, f, lq2, la2, f2
  <2>5. f2 = la - lq + 1
    BY <1>2, <1>4, <2>2, <2>3
  <2>6. ASSUME NEW k \in 1..lq2 PROVE queue'[t][k] = la2 - lq2 + k
    <3>1. k + 1 \in 1..lq /\ queue'[t][k] = queue[t][k + 1]
      BY <1>2, <2>2, <2>3
    <3>2. queue[t][k + 1] = la - lq + (k + 1)
      BY <1>4, <3>1
    <3> QED BY <1>2, <2>2, <2>4, <3>1, <3>2
  <2>7. lq2 <= la2 /\ (f2 # 0 => f2 = la2 - lq2) /\ Past(t)' = Past(t)
    BY <1>2, <1>3, <1>5, <1>6, <2>1, <2>2, <2>3, <2>4, <2>5
  <2> QED BY <1>8, <1>9, <2>1, <2>6, <2>7
<1>13. CASE FanSkip(t) \/ FanDeliver(t)
  <2>1. queue'[t] = queue[t] /\ accepted'[t] = accepted[t] /\ f2 = 0 /\ f # 0
    BY <1>13 DEF FanSkip, FanDeliver, QueueOK, queueVars
  <2>2. lq2 = lq /\ la2 = la
    BY <2>1
  <2> HIDE DEF lq, la, f, lq2, la2, f2
  <2>3. lq2 <= la2 /\ (f2 # 0 => f2 = la2 - lq2) /\ Past(t)' = Past(t) + 1
    BY <1>2, <1>3, <1>5, <1>6, <2>1, <2>2
  <2> QED BY <1>4, <1>8, <1>9, <2>1, <2>2, <2>3
<1>14. ASSUME NEW u \in Topics, u # t,
              \/ \E e \in Event(u) : Enqueue(u, e) /\ UNCHANGED fan
              \/ FanReceive(u) \/ FanSkip(u) \/ FanDeliver(u)
       PROVE  queue'[t] = queue[t] /\ accepted'[t] = accepted[t] /\ f2 = f
  BY <1>14 DEF Enqueue, FanReceive, FanSkip, FanDeliver, QueueOK, queueVars
<1>15. CASE UNCHANGED <<queueVars, fan>>
  BY <1>10, <1>15 DEF queueVars
<1> HIDE DEF lq, la, f, lq2, la2, f2
<1> QED BY <1>10, <1>11, <1>12, <1>13, <1>14, <1>15, QueueMoves

LEMMA DeliveredType == SubsOK => \A s \in Subs : Delivered(s) \in Seq(Nat)
BY DEF SubsOK, Delivered

(* What a subscriber has been handed grows by the event in the hands of    *)
(* its topic's fanout, when it matches the filter, and by nothing else.    *)
LEMMA DeliveredStep ==
  ASSUME SubsOK, QueueOK, [Next]_vars, NEW x \in Subs
  PROVE  \/ Delivered(x)' = Delivered(x)
         \/ /\ FanDeliver(TopicOf[x])
            /\ x \in Matching(TopicOf[x], accepted[TopicOf[x]][fan[TopicOf[x]]])
            /\ Delivered(x)' = Append(Delivered(x), fan[TopicOf[x]])
<1> USE DEF SubsOK, Delivered
<1>1. CASE UNCHANGED <<subQ, got>>
  BY <1>1
<1>2. ASSUME NEW s \in Subs, Receive(s) PROVE Delivered(x)' = Delivered(x)
  <2>1. CASE x = s
    <3>1. /\ got'[x] = Append(got[x], Head(subQ[x])) /\ subQ'[x] = Tail(subQ[x])
          /\ subQ[x] # <<>>
      BY <1>2, <2>1 DEF Receive
    <3>2. Append(got[x], Head(subQ[x])) \o Tail(subQ[x]) = got[x] \o subQ[x]
      BY <3>1, MoveHead
    <3> QED BY <3>1, <3>2
  <2>2. CASE x # s
    BY <1>2, <2>2 DEF Receive
  <2> QED BY <2>1, <2>2
<1>3. ASSUME NEW t \in Topics, FanDeliver(t), Delivered(x)' # Delivered(x)
      PROVE  /\ t = TopicOf[x]
             /\ x \in Matching(t, accepted[t][fan[t]])
             /\ Delivered(x)' = Append(Delivered(x), fan[t])
  <2>1. /\ got'[x] = got[x]
        /\ subQ'[x] = IF x \in Matching(t, accepted[t][fan[t]]) /\ Len(subQ[x]) < SubBuf
                      THEN Append(subQ[x], fan[t]) ELSE subQ[x]
    BY <1>3 DEF FanDeliver
  <2>2. x \in Matching(t, accepted[t][fan[t]]) /\ subQ'[x] = Append(subQ[x], fan[t])
    BY <1>3, <2>1
  <2>3. got[x] \in Seq(Nat) /\ subQ[x] \in Seq(Nat) /\ fan[t] \in Nat
    BY DEF QueueOK
  <2>4. got[x] \o Append(subQ[x], fan[t]) = Append(got[x] \o subQ[x], fan[t])
    BY <2>3, AppendToSecond
  <2>5. Delivered(x)' = Append(Delivered(x), fan[t])
    BY <2>1, <2>2, <2>4
  <2>6. t = TopicOf[x]
    BY <2>2 DEF Matching
  <2> QED BY <2>2, <2>5, <2>6
<1>4. \/ UNCHANGED <<subQ, got>>
      \/ \E s \in Subs : Receive(s)
      \/ \E t \in Topics : FanDeliver(t)
  BY DEF Next, Publish, Offer, Full, LogDirect, HandleLock, HandleIsClosed, HandleSend,
    Subscribe, Unsubscribe, FanReceive, FanSkip, CloseBegin, CloseSweep, CloseQueues,
    vars, subVars
<1> QED BY <1>1, <1>2, <1>3, <1>4

LEMMA OrderStep == TypeOK /\ OrderInv /\ [Next]_vars => OrderInv'
<1> SUFFICES ASSUME TypeOK, OrderInv, [Next]_vars PROVE OrderInv'
  OBVIOUS
<1>1. ASSUME NEW t \in Topics PROVE TopicMoves(t)
  BY TopicStep DEF TypeOK, OrderInv
<1>2. ASSUME NEW s \in Subs
      PROVE  /\ \A k \in 1..Len(Delivered(s)') :
                  /\ Delivered(s)'[k] \in 1..Past(TopicOf[s])'
                  /\ FilterOf[s] # {} =>
                       accepted'[TopicOf[s]][Delivered(s)'[k]] \in FilterOf[s]
             /\ \A k \in 2..Len(Delivered(s)') : Delivered(s)'[k - 1] < Delivered(s)'[k]
  <2> DEFINE t == TopicOf[s]  d == Delivered(s)
  <2>1. t \in Topics /\ d \in Seq(Nat)
    BY DeliveredType DEF TypeOK
  <2>2. /\ Past(t) \in Nat /\ Past(t)' \in Nat /\ Past(t) <= Past(t)'
        /\ Past(t) <= Len(accepted[t])
        /\ \A i \in 1..Len(accepted[t]) : accepted'[t][i] = accepted[t][i]
    BY <1>1, <2>1 DEF TopicMoves
  <2>3. /\ \A k \in 1..Len(d) : /\ d[k] \in 1..Past(t)
                                /\ FilterOf[s] # {} => accepted[t][d[k]] \in FilterOf[s]
        /\ \A k \in 2..Len(d) : d[k - 1] < d[k]
    BY <2>1 DEF OrderInv, DeliveredPast, Increasing, Filtered
  <2>4. \A k \in 1..Len(d) : /\ d[k] \in 1..Past(t)'
                             /\ FilterOf[s] # {} => accepted'[t][d[k]] \in FilterOf[s]
    <3> HIDE DEF t, d
    <3> QED BY <2>2, <2>3
  <2>5. CASE Delivered(s)' = d
    BY <2>3, <2>4, <2>5
  <2>6. CASE /\ FanDeliver(t) /\ s \in Matching(t, accepted[t][fan[t]])
             /\ Delivered(s)' = Append(d, fan[t])
    <3>1. /\ fan[t] # 0 /\ fan[t] \in Nat /\ fan[t] <= Len(accepted[t])
          /\ Past(t) = fan[t] - 1 /\ Past(t)' >= fan[t]
      <4>1. /\ fan[t] # 0 /\ fan'[t] = 0 /\ accepted' = accepted /\ queue' = queue
            /\ fan[t] \in Nat
        BY <2>1, <2>6 DEF FanDeliver, TypeOK, QueueOK, queueVars
      <4>2. /\ Len(queue[t]) <= Len(accepted[t]) /\ fan[t] = TakenOut(t)
        BY <2>1, <4>1 DEF OrderInv, TopicOK
      <4>3. Len(queue[t]) \in Nat /\ Len(accepted[t]) \in Nat
        BY <2>1 DEF TypeOK, QueueOK
      <4>4. Past(t) = fan[t] - 1
        BY <4>1 DEF Past
      <4>5. Past(t)' = TakenOut(t)
        BY <4>1 DEF Past, TakenOut
      <4>6. fan[t] <= Len(accepted[t]) /\ fan[t] <= Past(t)'
        <5> DEFINE lq == Len(queue[t])  la == Len(accepted[t])  f == fan[t]
        <5>1. f = la - lq /\ f \in Nat /\ lq \in Nat /\ la \in Nat
          BY <4>1, <4>2, <4>3 DEF TakenOut
        <5>2. Past(t)' = f
          BY <4>2, <4>5
        <5> HIDE DEF lq, la, f
        <5>3. f <= la /\ f <= Past(t)'
          BY <5>1, <5>2
        <5> QED BY <5>3 DEF la, f
      <4> QED BY <4>1, <4>4, <4>6
    <3>2. FilterOf[s] # {} => accepted'[t][fan[t]] \in FilterOf[s]
      BY <2>2, <2>6, <3>1 DEF Matching
    <3>3. /\ Len(Delivered(s)') = Len(d) + 1 /\ Delivered(s)'[Len(d) + 1] = fan[t]
          /\ \A k \in 1..Len(d) : Delivered(s)'[k] = d[k]
      BY <2>1, <2>6, <3>1, AppendAt
    <3>4. Len(d) \in Nat
      BY <2>1
    <3> HIDE DEF t, d
    <3>5. ASSUME NEW k \in 1..Len(Delivered(s)')
          PROVE  /\ Delivered(s)'[k] \in 1..Past(t)'
                 /\ FilterOf[s] # {} => accepted'[t][Delivered(s)'[k]] \in FilterOf[s]
      BY SMTT(30), <2>2, <2>4, <3>1, <3>2, <3>3, <3>4, <3>5
    <3>6. ASSUME NEW k \in 2..Len(Delivered(s)')
          PROVE  Delivered(s)'[k - 1] < Delivered(s)'[k]
      <4>1. CASE k = Len(d) + 1
        <5>1. /\ k - 1 \in 1..Len(d) /\ Delivered(s)'[k - 1] = d[k - 1]
              /\ Delivered(s)'[k] = fan[t]
          BY <3>3, <3>4, <3>6, <4>1
        <5> QED BY <2>3, <3>1, <5>1
      <4>2. CASE k # Len(d) + 1
        <5>1. /\ k \in 2..Len(d) /\ k - 1 \in 1..Len(d) /\ k \in 1..Len(d)
          BY <3>3, <3>4, <3>6, <4>2
        <5> QED BY <2>3, <3>3, <5>1
      <4> QED BY <4>1, <4>2
    <3> QED BY <3>5, <3>6 DEF t
  <2> QED BY <2>5, <2>6, DeliveredStep DEF TypeOK
<1>3. \A t \in Topics : TopicOK(t)'
  BY <1>1 DEF TopicMoves
<1> QED BY <1>2, <1>3 DEF OrderInv, DeliveredPast, Increasing, Filtered

(* Each subscriber sees a subsequence of its topic's events, in the order  *)
(* they were accepted, none twice and only those its filter wants, for any *)
(* number of emitters and any buffer sizes (fanoutChatEvents,              *)
(* fanoutLogEvents).                                                       *)
THEOREM InOrder == Spec => []EventOrder
<1>1. TypeOK /\ OrderInv /\ [Next]_vars => TypeOK' /\ OrderInv'
  BY TypeStep, OrderStep
<1>2. Spec => [](TypeOK /\ OrderInv)
  BY <1>1, InitType, InitOrder, PTL DEF Spec
<1>3. OrderInv => EventOrder
  BY DEF OrderInv, Increasing, Filtered, EventOrder
<1> QED BY <1>2, <1>3, PTL
=============================================================================
