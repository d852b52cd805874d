-------------------------- MODULE AgentLoopProofs --------------------------
(***************************************************************************)
(* Theorems about the agents of AgentLoop.tla, for any number of agents,   *)
(* sessions and messages and any capacities.                               *)
(***************************************************************************)
EXTENDS AgentLoop, FiniteSetTheorems, SequenceTheorems, TLAPS

(* A set of numbers that is not empty has a least element: of the          *)
(* intervals that end in one of them, one has no other inside it.          *)
LEMMA LeastOf ==
  ASSUME NEW S \in SUBSET Nat, S # {}
  PROVE  \E n \in S : \A m \in S : n <= m
<1> DEFINE T == {0..n : n \in S}
           R == StrictSubsetOrdering(Nat)
<1>1. IsWellFoundedOn(R, FiniteSubsetsOf(Nat))
  BY FS_StrictSubsetOrderingWellFounded, Zenon
<1>2. T \subseteq FiniteSubsetsOf(Nat)
  <2>1. ASSUME NEW n \in S PROVE IsFiniteSet(0..n) /\ 0..n \in SUBSET Nat
    BY FS_Interval
  <2> QED BY <2>1 DEF FiniteSubsetsOf
<1>3. T # {}
  OBVIOUS
<1>4. PICK x \in T : \A y \in T : <<y, x>> \notin R
  <2> HIDE DEF T, R
  <2> QED BY <1>1, <1>2, <1>3, WFMin, Zenon
<1>5. PICK n \in S : x = 0..n
  OBVIOUS
<1>6. ASSUME NEW m \in S PROVE n <= m
  <2>1. SUFFICES ASSUME m < n PROVE FALSE
    OBVIOUS
  <2>2. 0..m \subseteq 0..n /\ n \in 0..n /\ n \notin 0..m
    BY <2>1
  <2>3. 0..m \in SUBSET Nat /\ 0..n \in SUBSET Nat /\ 0..m # 0..n
    BY <2>2
  <2>4. <<0..m, 0..n>> \in R
    BY <2>2, <2>3 DEF StrictSubsetOrdering
  <2> QED BY <1>4, <1>5, <2>4
<1> QED BY <1>6

LEMMA GreatestOf ==
  ASSUME NEW k \in Nat, NEW S \in SUBSET (1..k), S # {}
  PROVE  Max(S) \in S
<1> DEFINE D == {k - n : n \in S}
<1>1. D \in SUBSET Nat /\ D # {}
  <2>1. \A n \in S : k - n \in Nat
    OBVIOUS
  <2> QED BY <2>1
<1>2. PICK d \in D : \A e \in D : d <= e
  <2> HIDE DEF D
  <2> QED BY <1>1, LeastOf
<1>3. PICK n \in S : d = k - n
  OBVIOUS
<1>4. \A m \in S : n >= m
  BY <1>2, <1>3
<1> QED BY <1>4 DEF Max

(* One entry of SafeStart, given those before it.                          *)
StartAt(msgs, f, i) ==
  IF i = 1 THEN 1
  ELSE IF msgs[i].role = "tool"
  THEN IF Callers(msgs, i) = {} THEN i + 1 ELSE f[Max(Callers(msgs, i))]
  ELSE IF Cardinality(Results(msgs, i)) < msgs[i].calls THEN f[i - 1] ELSE i

LEMMA SafeStartChoice ==
  ASSUME NEW msgs
  PROVE  SafeStart(msgs) = CHOOSE f : f = [i \in 1..Len(msgs) |-> StartAt(msgs, f, i)]
BY DEF SafeStart, StartAt

LEMMA StartAtType ==
  ASSUME NEW msgs, NEW i \in Nat \ {0}, NEW f, \A j \in 1..(i - 1) : f[j] \in 1..(j + 1)
  PROVE  StartAt(msgs, f, i) \in 1..(i + 1)
<1>1. CASE Callers(msgs, i) = {}
  BY <1>1 DEF StartAt
<1>2. CASE Callers(msgs, i) # {}
  <2>1. Callers(msgs, i) \in SUBSET (1..(i - 1)) /\ i - 1 \in Nat
    BY DEF Callers
  <2>2. Max(Callers(msgs, i)) \in 1..(i - 1)
    BY <1>2, <2>1, GreatestOf
  <2> QED BY <2>2 DEF StartAt
<1> QED BY <1>1, <1>2

LEMMA StartAtLocal ==
  ASSUME NEW msgs, NEW i \in Nat \ {0}, NEW f, NEW g, \A j \in 1..(i - 1) : f[j] = g[j]
  PROVE  StartAt(msgs, f, i) = StartAt(msgs, g, i)
<1>1. CASE Callers(msgs, i) = {}
  BY <1>1 DEF StartAt
<1>2. CASE Callers(msgs, i) # {}
  <2>1. Callers(msgs, i) \in SUBSET (1..(i - 1)) /\ i - 1 \in Nat
    BY DEF Callers
  <2>2. Max(Callers(msgs, i)) \in 1..(i - 1)
    BY <1>2, <2>1, GreatestOf
  <2> QED BY <2>2 DEF StartAt
<1> QED BY <1>1, <1>2

(* There is a function that the recursion describes: a shortest sequence   *)
(* of entries that cannot be continued does not exist.                     *)
LEMMA SafeStartExists ==
  ASSUME NEW msgs, NEW n \in Nat, n = Len(msgs)
  PROVE  SafeStart(msgs) = [i \in 1..n |-> StartAt(msgs, SafeStart(msgs), i)]
<1> DEFINE Starts(k) == {f \in [1..k -> Nat] :
                           \A i \in 1..k : f[i] \in 1..(i + 1) /\ f[i] = StartAt(msgs, f, i)}
           Bad == {k \in Nat : Starts(k) = {}}
<1>1. Bad = {}
  <2>1. SUFFICES ASSUME Bad # {} PROVE FALSE
    OBVIOUS
  <2>2. PICK k \in Bad : \A m \in Bad : k <= m
    BY <2>1, LeastOf
  <2>3. CASE k = 0
    <3>1. [i \in 1..0 |-> 0] \in Starts(0)
      OBVIOUS
    <3> QED BY <2>2, <2>3, <3>1
  <2>4. CASE k # 0
    <3>1. k - 1 \in Nat /\ k - 1 \notin Bad /\ k \in Nat
      <4>1. k \in Nat /\ k - 1 \in Nat
        BY <2>4
      <4>2. k - 1 \in Bad => k <= k - 1
        BY <2>2
      <4> QED BY <4>1, <4>2
    <3>2. PICK f \in [1..(k - 1) -> Nat] :
            \A i \in 1..(k - 1) : f[i] \in 1..(i + 1) /\ f[i] = StartAt(msgs, f, i)
      BY <3>1
    <3> DEFINE g == [i \in 1..k |-> IF i = k THEN StartAt(msgs, f, k) ELSE f[i]]
    <3>3. StartAt(msgs, f, k) \in 1..(k + 1)
      BY <2>4, <3>1, <3>2, StartAtType
    <3>4. ASSUME NEW i \in 1..k PROVE g[i] \in 1..(i + 1) /\ g[i] = StartAt(msgs, f, i)
      BY <3>1, <3>2, <3>3, <3>4
    <3>5. ASSUME NEW i \in 1..k PROVE StartAt(msgs, g, i) = StartAt(msgs, f, i)
      <4>1. \A j \in 1..(i - 1) : g[j] = f[j]
        BY <3>1
      <4> HIDE DEF g
      <4> QED BY <3>1, <4>1, StartAtLocal
    <3>6. g \in [1..k -> Nat]
      BY <3>1, <3>2, <3>3
    <3>7. g \in Starts(k)
      <4> HIDE DEF g
      <4> QED BY <3>4, <3>5, <3>6
    <3> QED BY <2>2, <3>7
  <2> QED BY <2>3, <2>4
<1>2. PICK f \in [1..n -> Nat] : \A i \in 1..n : f[i] = StartAt(msgs, f, i)
  <2>1. Starts(n) # {}
    <3> HIDE DEF Starts
    <3> QED BY <1>1
  <2>2. PICK f \in Starts(n) : TRUE
    <3> HIDE DEF Starts
    <3> QED BY <2>1
  <2>3. f \in [1..n -> Nat] /\ \A i \in 1..n : f[i] = StartAt(msgs, f, i)
    BY <2>2
  <2> QED BY <2>3
<1>3. f = [i \in 1..Len(msgs) |-> StartAt(msgs, f, i)]
  BY <1>2
<1>4. \E h : h = [i \in 1..Len(msgs) |-> StartAt(msgs, h, i)]
  BY <1>3
<1> QED BY <1>4, SafeStartChoice

(* GetHistorySafe begins in the session.                                   *)
LEMMA SafeStartType ==
  ASSUME NEW msgs, NEW n \in Nat, n = Len(msgs), NEW i \in 1..n
  PROVE  SafeStart(msgs)[i] \in 1..(i + 1)
<1> DEFINE Bad == {k \in 1..n : SafeStart(msgs)[k] \notin 1..(k + 1)}
<1>1. Bad = {}
  <2>1. SUFFICES ASSUME Bad # {} PROVE FALSE
    OBVIOUS
  <2>2. Bad \in SUBSET Nat
    OBVIOUS
  <2>3. PICK k \in Bad : \A m \in Bad : k <= m
    <3> HIDE DEF Bad
    <3> QED BY <2>1, <2>2, LeastOf
  <2>4. \A j \in 1..(k - 1) : SafeStart(msgs)[j] \in 1..(j + 1)
    BY <2>3
  <2>5. StartAt(msgs, SafeStart(msgs), k) \in 1..(k + 1)
    BY <2>4, StartAtType
  <2>6. SafeStart(msgs)[k] = StartAt(msgs, SafeStart(msgs), k)
    BY SafeStartExists
  <2> QED BY <2>5, <2>6
<1> QED BY <1>1

(* A run is given the end of the session: all of it, or at least the last  *)
(* MaxHistory - 1 messages.                                                *)
LEMMA HistoryIsSuffix ==
  ASSUME NEW S, NEW msgs \in Seq(S)
  PROVE  \E a \in 1..(Len(msgs) + 1) :
           /\ GetHistorySafe(msgs) = SubSeq(msgs, a, Len(msgs))
           /\ GetHistorySafe(msgs) \in Seq(S)
           /\ a # 1 => Len(GetHistorySafe(msgs)) >= MaxHistory - 1
<1>1. Len(msgs) \in Nat /\ MaxHistory \in Nat \ {0}
  BY AgentAssumption
<1>2. CASE Len(msgs) <= MaxHistory
  <2>1. GetHistorySafe(msgs) = SubSeq(msgs, 1, Len(msgs))
    BY <1>1, <1>2, SubSeqFull DEF GetHistorySafe
  <2> QED BY <1>1, <1>2, <2>1 DEF GetHistorySafe
<1>3. CASE ~(Len(msgs) <= MaxHistory)
  <2> DEFINE i == Len(msgs) - MaxHistory + 1
             a == SafeStart(msgs)[i]
  <2>1. i \in 1..Len(msgs)
    BY <1>1, <1>3
  <2>2. a \in 1..(i + 1)
    BY <1>1, <2>1, SafeStartType
  <2>3. a \in 1..(Len(msgs) + 1)
    BY <1>1, <2>1, <2>2
  <2>4. GetHistorySafe(msgs) = SubSeq(msgs, a, Len(msgs))
    BY <1>3 DEF GetHistorySafe
  <2> HIDE DEF a
  <2>5. SubSeq(msgs, a, Len(msgs)) \in Seq(S) /\ Len(SubSeq(msgs, a, Len(msgs))) = Len(msgs) - a + 1
    BY <1>1, <2>3, SubSeqProperties
  <2> QED BY <1>1, <2>1, <2>2, <2>3, <2>4, <2>5
<1> QED BY <1>2, <1>3
-----------------------------------------------------------------------------
(* The steps, one case each.                                               *)
LEMMA AgentSteps ==
  [Next]_vars =>
    \/ Poll \/ ConsumeCancelled \/ RunStep
    \/ ReplyInterrupt \/ ReplyError \/ SaveSession \/ Reply \/ UnregisterCallback
    \/ \E s \in Sessions : RouteCommand(s)
    \/ RouteFails
    \/ \E a \in Agents, s \in Sessions : Prompt(a, s) \/ Resume(a, s)
    \/ \E a \in Agents : TakeEvent(a) \/ CallBack(a) \/ LoopExits(a)
    \/ Cancel \/ StopAgents \/ UNCHANGED vars
BY DEF Next, ManagerStep, Inbound, LoopStep

LEMMA InitType == Init => TypeOK
<1> SUFFICES ASSUME Init PROVE TypeOK
  OBVIOUS
<1>1. ManagerOK
  BY AgentAssumption DEF Init, ManagerOK
<1>2. RunOK
  <2>1. agent \in Agents /\ sess \in Sessions /\ resumed \in BOOLEAN
    BY DEF Init
  <2>2. last \in Outputs \cup {"prompt"} /\ reading \in Outputs \cup {"none"}
    BY DEF Init
  <2>3. chunks \in 0..MaxChunks
    BY AgentAssumption DEF Init
  <2>4. mpc = "reading" => reading # "none"
    BY DEF Init
  <2> QED BY <2>1, <2>2, <2>3, <2>4 DEF RunOK
<1>3. MessagesOK
  BY DEF Init, MessagesOK
<1>4. ChannelsOK /\ LoopsOK
  BY AgentAssumption DEF Init, ChannelsOK, LoopsOK
<1>5. StoreOK
  BY AgentAssumption DEF Init, StoreOK
<1> QED BY <1>1, <1>2, <1>3, <1>4, <1>5 DEF TypeOK

LEMMA ManagerStepOK == ManagerOK /\ [Next]_vars => ManagerOK'
<1> SUFFICES ASSUME ManagerOK, [Next]_vars PROVE ManagerOK'
  OBVIOUS
<1> USE AgentAssumption DEF ManagerOK, runVars
<1>1. CASE RunStep
  BY <1>1 DEF RunStep, NextOutput, ReadChunk, ReadFails, FinishOutput, RunEnds, RunFails,
    RunInterrupted, MaxIterations
<1>2. CASE \/ Poll \/ ConsumeCancelled \/ ReplyInterrupt \/ ReplyError \/ SaveSession
           \/ Reply \/ UnregisterCallback \/ RouteFails
           \/ \E s \in Sessions : RouteCommand(s)
  BY <1>2 DEF Poll, ConsumeCancelled, ReplyInterrupt, ReplyError, SaveSession, Reply,
    UnregisterCallback, RouteFails, RouteCommand
<1>3. CASE \E a \in Agents, s \in Sessions : Prompt(a, s) \/ Resume(a, s)
  BY <1>3 DEF Prompt, Resume, Accept
<1>4. CASE \E a \in Agents : TakeEvent(a) \/ CallBack(a) \/ LoopExits(a)
  BY <1>4 DEF TakeEvent, CallBack, LoopExits
<1>5. CASE Cancel \/ StopAgents \/ UNCHANGED vars
  BY <1>5 DEF Cancel, StopAgents, vars
<1> QED BY <1>1, <1>2, <1>3, <1>4, <1>5, AgentSteps

(* What goes into a run is a message.                                      *)
LEMMA NewMessageType ==
  ASSUME NEW role \in {"user", "assistant", "tool"}, NEW calls \in Nat,
         NEW before \in Seq(Message), NEW by \in 0..MaxRequests,
         role = "tool" => before # <<>>
  PROVE  NewMessage(role, calls, before, by) \in Message
<1>1. Len(before) + 1 \in Nat
  OBVIOUS
<1>2. (IF role = "tool" THEN <<Last(before).by, Last(before).at>> ELSE <<>>) \in Seq(Nat)
  <2>1. CASE role = "tool"
    <3>1. Last(before) \in Message
      BY <2>1 DEF Last
    <3>2. Last(before).by \in Nat /\ Last(before).at \in Nat
      BY <3>1, AgentAssumption DEF Message
    <3> QED BY <2>1, <3>2
  <2>2. CASE role # "tool"
    BY <2>2
  <2> QED BY <2>1, <2>2
<1> QED BY <1>1, <1>2 DEF NewMessage, Message

LEMMA RunStepOK == RunOK /\ [Next]_vars => RunOK'
<1> SUFFICES ASSUME RunOK, [Next]_vars PROVE RunOK'
  OBVIOUS
<1>1. CASE \E kind \in Outputs : NextOutput(kind)
  <2>1. PICK kind \in Outputs : NextOutput(kind)
    BY <1>1
  <2>2. UNCHANGED <<agent, sess, resumed, last>> /\ reading' = kind /\ chunks' = 0
    BY <2>1 DEF NextOutput
  <2>3. kind # "none"
    BY DEF Outputs
  <2>4. chunks' \in 0..MaxChunks
    BY <2>2, AgentAssumption
  <2> QED BY <2>2, <2>3, <2>4 DEF RunOK
<1>2. CASE ReadChunk
  <2>1. chunks' \in 0..MaxChunks
    BY <1>2, AgentAssumption DEF ReadChunk, RunOK
  <2> QED BY <1>2, <2>1 DEF ReadChunk, RunOK
<1>3. CASE FinishOutput
  <2>1. reading \in Outputs
    BY <1>3 DEF FinishOutput, RunOK
  <2> QED BY <1>3, <2>1 DEF FinishOutput, RunOK
<1>4. CASE MaxIterations
  <2>1. "answer" \in Outputs
    BY DEF Outputs
  <2> QED BY <1>4, <2>1 DEF MaxIterations, RunOK
<1>5. CASE UnregisterCallback
  <2>1. chunks' \in 0..MaxChunks
    BY <1>5, AgentAssumption DEF UnregisterCallback
  <2> QED BY <1>5, <2>1 DEF UnregisterCallback, RunOK
<1>6. ASSUME NEW a \in Agents, NEW s \in Sessions, Prompt(a, s) \/ Resume(a, s)
      PROVE  RunOK'
  <2>1. /\ agent' = a /\ sess' = s /\ resumed' \in BOOLEAN
        /\ last' = "prompt" \/ last' = "call"
        /\ reading' = "none" /\ chunks' = 0 /\ mpc' # "reading"
    BY <1>6 DEF Prompt, Resume, Accept
  <2>2. "call" \in Outputs
    BY DEF Outputs
  <2>3. chunks' \in 0..MaxChunks
    BY <2>1, AgentAssumption
  <2> QED BY <2>1, <2>2, <2>3 DEF RunOK
<1>7. CASE UNCHANGED runVars /\ mpc' \in {mpc, "next", "idle", "consume", "exited", "done", "failed",
        "interrupted", "leaving", "saved"}
  BY <1>7 DEF RunOK, runVars
<1>8. CASE RunStep
  BY <1>1, <1>2, <1>3, <1>4, <1>7, <1>8
    DEF RunStep, ReadFails, RunEnds, RunFails, RunInterrupted
<1>9. CASE \/ Poll \/ ConsumeCancelled \/ ReplyInterrupt \/ ReplyError \/ SaveSession \/ Reply
           \/ RouteFails \/ \E s \in Sessions : RouteCommand(s)
  BY <1>7, <1>9 DEF Poll, ConsumeCancelled, ReplyInterrupt, ReplyError, SaveSession, Reply,
    RouteFails, RouteCommand
<1>10. CASE \/ \E a \in Agents : TakeEvent(a) \/ CallBack(a) \/ LoopExits(a)
            \/ Cancel \/ StopAgents \/ UNCHANGED vars
  BY <1>7, <1>10 DEF TakeEvent, CallBack, LoopExits, Cancel, StopAgents, vars
<1> QED BY <1>5, <1>6, <1>8, <1>9, <1>10, AgentSteps

LEMMA MessagesStep ==
  ASSUME ManagerOK, RunOK, MessagesOK, StoreOK, [Next]_vars
  PROVE  MessagesOK'
<1> USE AgentAssumption DEF MessagesOK
<1>0. cur \in 0..MaxRequests
  BY DEF ManagerOK
<1>1. ASSUME NEW a \in Agents, NEW s \in Sessions, Prompt(a, s) PROVE MessagesOK'
  <2> DEFINE history == GetHistorySafe(session[s])
  <2>1. history \in Seq(Message)
    BY HistoryIsSuffix DEF StoreOK
  <2>2. NewMessage("user", 0, history, cur + 1) \in Message
    <3>1. cur + 1 \in 0..MaxRequests
      BY <1>0, <1>1 DEF Prompt, Accept
    <3> HIDE DEF history
    <3> QED BY <2>1, <3>1, NewMessageType
  <2>3. /\ allMsgs' = Append(history, NewMessage("user", 0, history, cur + 1))
        /\ mpc' = "next" /\ historyLen' = Len(history)
    BY <1>1 DEF Prompt, Accept
  <2> HIDE DEF history
  <2> QED BY <2>1, <2>2, <2>3
<1>2. ASSUME NEW a \in Agents, NEW s \in Sessions, Resume(a, s) PROVE MessagesOK'
  <2>1. GetHistorySafe(session[s]) \in Seq(Message) /\ checkPoints[a][s] \in Seq(Message)
    BY HistoryIsSuffix DEF StoreOK
  <2>2. historyLen' = Len(GetHistorySafe(session[s]))
        /\ allMsgs' = checkPoints[a][s] /\ allMsgs' # <<>>
    BY <1>2 DEF Resume, Accept
  <2> QED BY <2>1, <2>2
<1>3. CASE FinishOutput
  <2> DEFINE role == IF reading = "tool" THEN "tool" ELSE "assistant"
             calls == IF reading = "call" THEN 1 ELSE 0
  <2>1. NewMessage(role, calls, allMsgs, cur) \in Message
    BY <1>0, <1>3, NewMessageType DEF FinishOutput
  <2>2. /\ allMsgs' = Append(allMsgs, NewMessage(role, calls, allMsgs, cur))
        /\ mpc' = "next" /\ historyLen' = historyLen
    BY <1>3 DEF FinishOutput
  <2> HIDE DEF role, calls
  <2> QED BY <2>1, <2>2
<1>4. CASE MaxIterations
  <2> DEFINE notice == Append(allMsgs, NewMessage("user", 0, allMsgs, cur))
  <2>1. notice \in Seq(Message)
    BY <1>0, NewMessageType
  <2>2. NewMessage("assistant", 0, notice, cur) \in Message
    <3> HIDE DEF notice
    <3> QED BY <1>0, <2>1, NewMessageType
  <2>3. /\ allMsgs' = Append(notice, NewMessage("assistant", 0, notice, cur))
        /\ mpc' = "done" /\ historyLen' = historyLen
    BY <1>4 DEF MaxIterations
  <2> HIDE DEF notice
  <2> QED BY <2>1, <2>2, <2>3
<1>5. CASE NextOutput("call") \/ NextOutput("tool") \/ NextOutput("answer")
  BY <1>5 DEF NextOutput
<1>6. CASE UnregisterCallback
  BY <1>6 DEF UnregisterCallback
<1>7. CASE /\ UNCHANGED <<historyLen, allMsgs>>
           /\ mpc' = mpc \/ mpc' \notin {"next", "reading"}
  BY <1>7
<1>8. ASSUME NEW a \in Agents, NEW s \in Sessions, Prompt(a, s) \/ Resume(a, s)
      PROVE  MessagesOK'
  BY <1>1, <1>2, <1>8
<1> HIDE DEF MessagesOK
<1>9. CASE RunStep
  <2>1. \/ FinishOutput \/ MaxIterations \/ \E kind \in Outputs : NextOutput(kind)
        \/ /\ UNCHANGED <<historyLen, allMsgs>>
           /\ mpc' = mpc \/ mpc' \notin {"next", "reading"}
    BY <1>9 DEF RunStep, ReadChunk, ReadFails, RunEnds, RunFails, RunInterrupted, runVars
  <2> QED BY <2>1, <1>3, <1>4, <1>5, <1>7 DEF Outputs
<1>10. \/ /\ UNCHANGED <<historyLen, allMsgs>>
          /\ mpc' = mpc \/ mpc' \notin {"next", "reading"}
       \/ RunStep \/ UnregisterCallback
       \/ \E a \in Agents, s \in Sessions : Prompt(a, s) \/ Resume(a, s)
  BY AgentSteps DEF Poll, ConsumeCancelled, ReplyInterrupt, ReplyError, SaveSession, Reply,
    RouteFails, RouteCommand, TakeEvent, CallBack, LoopExits, Cancel, StopAgents, runVars, vars
<1> QED BY <1>6, <1>7, <1>8, <1>9, <1>10

(* Emit appends an event or leaves the channel as it was.                  *)
LEMMA Emitted ==
  ASSUME ManagerOK, RunOK, MessagesOK, ChannelsOK, cur # 0,
         NEW type \in EventTypes, Emit(type)
  PROVE  LET e == [type |-> type, of |-> cur, at |-> Len(allMsgs)] IN
         /\ e \in Events
         /\ eventChan' = [eventChan EXCEPT ![agent] = IF Len(@) < EventCap THEN Append(@, e) ELSE @]
<1>1. cur \in Requests /\ Len(allMsgs) \in Nat
  BY AgentAssumption DEF ManagerOK, MessagesOK, Requests
<1> QED BY <1>1 DEF Events, Emit

LEMMA EmitOK ==
  ASSUME ManagerOK, RunOK, MessagesOK, ChannelsOK, cur # 0,
         NEW type \in EventTypes, Emit(type)
  PROVE  ChannelsOK'
<1> DEFINE e == [type |-> type, of |-> cur, at |-> Len(allMsgs)]
<1>1. /\ e \in Events
      /\ eventChan' = [eventChan EXCEPT ![agent] = IF Len(@) < EventCap THEN Append(@, e) ELSE @]
  BY Emitted
<1> HIDE DEF e
<1>2. eventChan' \in [Agents -> Seq(Events)]
  <2>1. eventChan[agent] \in Seq(Events) /\ Append(eventChan[agent], e) \in Seq(Events)
    BY <1>1 DEF ChannelsOK, RunOK
  <2> QED BY <1>1, <2>1 DEF ChannelsOK
<1>3. ASSUME NEW a \in Agents PROVE Len(eventChan'[a]) <= EventCap
  <2>1. Len(Append(eventChan[a], e)) = Len(eventChan[a]) + 1
    BY <1>1 DEF ChannelsOK
  <2> QED BY <1>1, <2>1, AgentAssumption DEF ChannelsOK
<1>4. unheard' \subseteq Requests
  BY AgentAssumption DEF Emit, ChannelsOK, ManagerOK, Requests
<1> QED BY <1>2, <1>3, <1>4 DEF ChannelsOK

LEMMA EmitterKinds ==
  {"MessageStart", "MessageUpdate", "MessageEnd", "ToolStart", "ToolEnd", "Interrupt",
   "Unregister"} \subseteq EventTypes
BY DEF EventTypes

(* The steps that emit, and what they leave alone.                         *)
Emitters ==
  /\ mpc \in {"next", "reading", "leaving"}
  /\ \E type \in EventTypes : Emit(type)
  /\ UNCHANGED <<cur, agent, loopVars, out>>
  /\ \A a \in Agents : callbacks'[a] \subseteq callbacks[a]

LEMMA RunEmits ==
  ASSUME RunOK, RunStep
  PROVE  \/ /\ UNCHANGED <<cur, agent, loopVars, out, eventChan, callbacks>>
            /\ ReadFails \/ RunEnds \/ RunFails \/ MaxIterations
         \/ Emitters /\ UNCHANGED callbacks
<1>1. ASSUME NEW kind \in Outputs, NextOutput(kind) PROVE Emitters /\ UNCHANGED callbacks
  BY <1>1, EmitterKinds DEF NextOutput, Emitters
<1>2. CASE ReadChunk
  BY <1>2, EmitterKinds DEF ReadChunk, Emitters
<1>3. CASE FinishOutput
  <2>1. reading \in {"tool", "call", "answer"}
    BY <1>3 DEF RunOK, FinishOutput, Outputs
  <2>2. \E type \in EventTypes : Emit(type)
    BY <1>3, <2>1, EmitterKinds DEF FinishOutput
  <2> QED BY <1>3, <2>2 DEF FinishOutput, Emitters
<1>4. CASE RunInterrupted
  BY <1>4, EmitterKinds DEF RunInterrupted, Emitters, runVars
<1>5. CASE ReadFails \/ RunEnds \/ RunFails \/ MaxIterations
  BY <1>5 DEF ReadFails, RunEnds, RunFails, MaxIterations, runVars
<1> QED BY <1>1, <1>2, <1>3, <1>4, <1>5 DEF RunStep

LEMMA UnregisterEmits ==
  ASSUME UnregisterCallback, RunOK, LoopsOK PROVE Emitters
<1>1. \A a \in Agents : callbacks'[a] \subseteq callbacks[a]
  BY DEF UnregisterCallback, RunOK, LoopsOK
<1> QED BY <1>1, EmitterKinds DEF UnregisterCallback, Emitters

LEMMA ChannelsStep ==
  ASSUME ManagerOK, RunOK, MessagesOK, ChannelsOK, LoopsOK, [Next]_vars
  PROVE  ChannelsOK'
<1>1. CASE Emitters
  BY <1>1, EmitOK DEF Emitters, ManagerOK
<1>2. ASSUME NEW a \in Agents, TakeEvent(a) PROVE ChannelsOK'
  <2>1. /\ eventChan' = [eventChan EXCEPT ![a] = Tail(@)]
        /\ eventChan[a] # <<>>
    BY <1>2 DEF TakeEvent
  <2>2. Tail(eventChan[a]) \in Seq(Events) /\ Len(Tail(eventChan[a])) = Len(eventChan[a]) - 1
    BY <2>1 DEF ChannelsOK
  <2>3. eventChan' \in [Agents -> Seq(Events)]
    BY <2>1, <2>2 DEF ChannelsOK
  <2>4. ASSUME NEW b \in Agents PROVE Len(eventChan'[b]) <= EventCap
    BY <2>1, <2>2, AgentAssumption DEF ChannelsOK
  <2> QED BY <1>2, <2>3, <2>4 DEF ChannelsOK, TakeEvent
<1>3. CASE UNCHANGED <<eventChan, unheard>>
  BY <1>3 DEF ChannelsOK
<1>4. CASE RunStep
  <2>1. CASE MaxIterations
    BY <2>1, AgentAssumption DEF MaxIterations, ChannelsOK, ManagerOK, Requests
  <2>2. CASE Emitters
    BY <1>1, <2>2
  <2>3. CASE ReadFails \/ RunEnds \/ RunFails
    BY <1>3, <2>3 DEF ReadFails, RunEnds, RunFails
  <2>4. Emitters \/ ReadFails \/ RunEnds \/ RunFails \/ MaxIterations
    BY <1>4, RunEmits
  <2> QED BY <2>1, <2>2, <2>3, <2>4
<1>5. \/ UNCHANGED <<eventChan, unheard>> \/ RunStep \/ UnregisterCallback
      \/ \E a \in Agents : TakeEvent(a)
  BY AgentSteps DEF Poll, ConsumeCancelled, ReplyInterrupt, ReplyError, SaveSession, Reply,
    RouteFails, RouteCommand, Prompt, Resume, CallBack, LoopExits, Cancel, StopAgents, vars
<1> QED BY <1>1, <1>2, <1>3, <1>4, <1>5, UnregisterEmits

LEMMA HeadType ==
  ASSUME ChannelsOK, NEW a \in Agents, eventChan[a] # <<>>
  PROVE  Head(eventChan[a]) \in Events /\ Head(eventChan[a]) # NoEvent
<1>1. Head(eventChan[a]) \in Events
  BY DEF ChannelsOK
<1> QED BY <1>1 DEF Events, EventTypes, NoEvent

LEMMA LoopsStep ==
  ASSUME ManagerOK, RunOK, ChannelsOK, LoopsOK, [Next]_vars
  PROVE  LoopsOK'
<1>1. CASE UNCHANGED loopVars /\ callbacks' \in [Agents -> SUBSET Requests]
  BY <1>1 DEF LoopsOK, loopVars
<1>2. CASE UnregisterCallback
  <2>1. callbacks' \in [Agents -> SUBSET Requests]
    BY <1>2 DEF UnregisterCallback, LoopsOK
  <2> QED BY <1>1, <1>2, <2>1 DEF UnregisterCallback
<1>3. ASSUME NEW a \in Agents, NEW s \in Sessions, Prompt(a, s) \/ Resume(a, s)
      PROVE  LoopsOK'
  <2>1. cur + 1 \in Requests
    BY <1>3, AgentAssumption DEF Prompt, Resume, Accept, ManagerOK, Requests
  <2>2. /\ callbacks' = [callbacks EXCEPT ![a] = @ \cup {cur + 1}]
        /\ firstStart' = firstStart \cup {cur + 1}
        /\ UNCHANGED <<hand, todo, loops>>
    BY <1>3 DEF Prompt, Resume, Accept
  <2>3. callbacks' \in [Agents -> SUBSET Requests] /\ firstStart' \subseteq Requests
    BY <2>1, <2>2 DEF LoopsOK
  <2> QED BY <2>2, <2>3 DEF LoopsOK
<1>4. ASSUME NEW a \in Agents, TakeEvent(a) PROVE LoopsOK'
  <2> DEFINE e == Head(eventChan[a])
  <2>1. e \in Events /\ e # NoEvent
    BY <1>4, HeadType DEF TakeEvent
  <2> HIDE DEF e
  <2>2. CASE e.type = "Unregister"
    <3>1. callbacks' = [callbacks EXCEPT ![a] = @ \ {e.of}] /\ UNCHANGED loopVars
      BY <1>4, <2>2 DEF TakeEvent, e, loopVars
    <3>2. callbacks' \in [Agents -> SUBSET Requests]
      BY <3>1 DEF LoopsOK
    <3> QED BY <1>1, <3>1, <3>2
  <2>3. CASE e.type # "Unregister"
    <3>1. /\ todo' = [todo EXCEPT ![a] = callbacks[a]]
          /\ hand' = [hand EXCEPT ![a] = IF callbacks[a] = {} THEN NoEvent ELSE e]
          /\ UNCHANGED <<callbacks, loops, firstStart>>
      BY <1>4, <2>3 DEF TakeEvent, e
    <3>2. todo' \in [Agents -> SUBSET Requests] /\ hand' \in [Agents -> Events \cup {NoEvent}]
      BY <2>1, <3>1 DEF LoopsOK
    <3>3. ASSUME NEW b \in Agents PROVE hand'[b] = NoEvent <=> todo'[b] = {}
      BY <2>1, <3>1 DEF LoopsOK
    <3> QED BY <3>1, <3>2, <3>3 DEF LoopsOK
  <2> QED BY <2>2, <2>3
<1>5. ASSUME NEW a \in Agents, CallBack(a) PROVE LoopsOK'
  <2>1. PICK n \in todo[a] :
          /\ firstStart' = IF hand[a].type = "MessageStart" THEN firstStart \ {n} ELSE firstStart
          /\ todo' = [todo EXCEPT ![a] = @ \ {n}]
          /\ hand' = [hand EXCEPT ![a] = IF todo[a] = {n} THEN NoEvent ELSE @]
          /\ UNCHANGED <<callbacks, loops>>
    BY <1>5 DEF CallBack
  <2>2. todo' \in [Agents -> SUBSET Requests] /\ hand' \in [Agents -> Events \cup {NoEvent}]
    BY <2>1 DEF LoopsOK
  <2>3. ASSUME NEW b \in Agents PROVE hand'[b] = NoEvent <=> todo'[b] = {}
    BY <2>1 DEF LoopsOK
  <2>4. firstStart' \subseteq Requests
    BY <2>1 DEF LoopsOK
  <2> QED BY <2>1, <2>2, <2>3, <2>4 DEF LoopsOK
<1>6. ASSUME NEW a \in Agents, LoopExits(a) PROVE LoopsOK'
  BY <1>6 DEF LoopExits, LoopsOK
<1>7. CASE UNCHANGED <<loopVars, callbacks>>
  BY <1>7 DEF LoopsOK, loopVars
<1>8. CASE RunStep
  BY <1>7, <1>8, RunEmits DEF Emitters
<1>9. CASE \/ Poll \/ ConsumeCancelled \/ ReplyInterrupt \/ ReplyError \/ SaveSession \/ Reply
           \/ RouteFails \/ (\E s \in Sessions : RouteCommand(s))
           \/ Cancel \/ StopAgents \/ UNCHANGED vars
  BY <1>7, <1>9 DEF Poll, ConsumeCancelled, ReplyInterrupt, ReplyError, SaveSession, Reply,
    RouteFails, RouteCommand, Cancel, StopAgents, vars
<1> QED BY <1>2, <1>3, <1>4, <1>5, <1>6, <1>8, <1>9, AgentSteps

LEMMA PublishType ==
  ASSUME NEW n \in Requests, NEW kind \in Kinds, NEW of \in Requests, NEW at \in Nat,
         out \in [Requests -> Seq(Published)], Publish(n, kind, of, at)
  PROVE  out' \in [Requests -> Seq(Published)]
<1>1. [kind |-> kind, of |-> of, at |-> at] \in Published
  BY DEF Published
<1>2. Append(out[n], [kind |-> kind, of |-> of, at |-> at]) \in Seq(Published)
  BY <1>1
<1> QED BY <1>2 DEF Publish

(* What is published, and by whom.                                         *)
Says(n, kind, of, at) ==
  /\ n \in Requests /\ kind \in Kinds /\ of \in Requests /\ at \in Nat
  /\ Publish(n, kind, of, at)

LEMMA KindNames == {"start", "chunk", "final", "reply", "interrupt", "error", "command"} \subseteq Kinds
BY DEF Kinds, Finals

LEMMA Spoken ==
  ASSUME ManagerOK, RunOK, MessagesOK, LoopsOK, [Next]_vars
  PROVE  \/ UNCHANGED out
         \/ \E kind \in {"reply", "interrupt", "error"} : Says(cur, kind, cur, Len(allMsgs))
         \/ cur' = cur + 1 /\ Says(cur', "command", cur', 0)
         \/ \E a \in Agents : \E n \in todo[a] : \E kind \in {"start", "chunk", "final"} :
              hand[a] \in Events /\ Says(n, kind, hand[a].of, hand[a].at)
<1>1. Len(allMsgs) \in Nat /\ (cur # 0 => cur \in Requests)
  BY AgentAssumption DEF ManagerOK, MessagesOK, Requests
<1>2. CASE ReplyInterrupt \/ ReplyError \/ Reply
  <2>1. cur # 0
    BY <1>2 DEF ReplyInterrupt, ReplyError, Reply, ManagerOK
  <2> QED BY <1>1, <1>2, <2>1, KindNames DEF ReplyInterrupt, ReplyError, Reply, PublishOwn, Says
<1>3. ASSUME NEW s \in Sessions, RouteCommand(s)
      PROVE  cur' = cur + 1 /\ Says(cur', "command", cur', 0)
  <2>1. cur' = cur + 1 /\ cur + 1 \in Requests
    BY <1>3, AgentAssumption DEF RouteCommand, ManagerOK, Requests
  <2> QED BY <1>3, <2>1, KindNames DEF RouteCommand, Says
<1>4. ASSUME NEW a \in Agents, CallBack(a)
      PROVE  \/ UNCHANGED out
             \/ \E n \in todo[a] : \E kind \in {"start", "chunk", "final"} :
                  hand[a] \in Events /\ Says(n, kind, hand[a].of, hand[a].at)
  <2>1. PICK n \in todo[a] : HandleAgentEvent(hand[a], n)
    BY <1>4 DEF CallBack
  <2>2. n \in Requests /\ hand[a] \in Events
    BY DEF LoopsOK
  <2>3. hand[a].of \in Requests /\ hand[a].at \in Nat
    BY <2>2 DEF Events
  <2> QED BY <2>1, <2>2, <2>3, KindNames DEF HandleAgentEvent, Says
<1>5. CASE RunStep
  BY <1>5, RunEmits DEF Emitters
<1> QED
  BY <1>2, <1>3, <1>4, <1>5, AgentSteps DEF Poll, ConsumeCancelled, SaveSession,
    UnregisterCallback, RouteFails, Prompt, Resume, TakeEvent, LoopExits, Cancel, StopAgents, vars

LEMMA StoreStep ==
  ASSUME TypeOK, [Next]_vars
  PROVE  StoreOK'
<1> USE DEF TypeOK
<1>1. out' \in [Requests -> Seq(Published)]
  BY Spoken, PublishType DEF Says, StoreOK
<1>2. checkPoints' \in [Agents -> [Sessions -> Seq(Message)]]
  <2>1. CASE RunInterrupted
    BY <2>1 DEF RunInterrupted, StoreOK, MessagesOK
  <2>2. ASSUME NEW a \in Agents, NEW s \in Sessions, Resume(a, s)
        PROVE  checkPoints' \in [Agents -> [Sessions -> Seq(Message)]]
    BY <2>2 DEF Resume, StoreOK
  <2>3. CASE RunStep
    BY <2>1, <2>3 DEF RunStep, NextOutput, ReadChunk, ReadFails, FinishOutput, RunEnds, RunFails,
      MaxIterations, storeVars, StoreOK
  <2>4. \/ UNCHANGED checkPoints \/ RunStep
        \/ \E a \in Agents, s \in Sessions : Resume(a, s)
    BY AgentSteps DEF Poll, ConsumeCancelled, ReplyInterrupt, ReplyError, SaveSession, Reply,
      UnregisterCallback, RouteFails, RouteCommand, Prompt, TakeEvent, CallBack, LoopExits,
      Cancel, StopAgents, storeVars, vars
  <2> QED BY <2>2, <2>3, <2>4 DEF StoreOK
<1>3. session' \in [Sessions -> Seq(Message)]
  <2>1. CASE SaveSession
    <3> DEFINE new == SubSeq(allMsgs, historyLen + 1, Len(allMsgs))
    <3>1. new \in Seq(Message)
      BY SubSeqProperties DEF MessagesOK
    <3>2. session' = [session EXCEPT ![sess] = @ \o new]
      BY <2>1 DEF SaveSession
    <3> HIDE DEF new
    <3>3. session[sess] \o new \in Seq(Message)
      BY <3>1 DEF StoreOK, RunOK
    <3> QED BY <3>2, <3>3 DEF StoreOK
  <2>2. ASSUME NEW s \in Sessions, RouteCommand(s) PROVE session' \in [Sessions -> Seq(Message)]
    BY <2>2 DEF RouteCommand, StoreOK
  <2>3. \/ UNCHANGED session \/ SaveSession \/ \E s \in Sessions : RouteCommand(s)
    BY AgentSteps DEF Poll, ConsumeCancelled, ReplyInterrupt, ReplyError, Reply,
      UnregisterCallback, RouteFails, Prompt, Resume, TakeEvent, CallBack, LoopExits,
      Cancel, StopAgents, storeVars, vars, RunStep, NextOutput, ReadChunk, ReadFails,
      FinishOutput, RunEnds, RunFails, RunInterrupted, MaxIterations
  <2> QED BY <2>1, <2>2, <2>3 DEF StoreOK
<1> QED BY <1>1, <1>2, <1>3 DEF StoreOK

(* Every variable keeps its type.                                          *)
THEOREM TypeCorrect == Spec => []TypeOK
<1>1. TypeOK /\ [Next]_vars => TypeOK'
  BY ManagerStepOK, RunStepOK, MessagesStep, ChannelsStep, LoopsStep, StoreStep DEF TypeOK
<1> QED BY <1>1, InitType, PTL DEF Spec
-----------------------------------------------------------------------------
(* What a callback makes of an event, and the order of EventsInOrder.      *)
Said(e) ==
  [kind |-> CASE e.type = "MessageUpdate" -> "chunk"
              [] e.type = "MessageEnd"    -> "final"
              [] OTHER                    -> "start",
   of |-> e.of, at |-> e.at]

Streams(p) == p.kind = "chunk" \/ p.kind = "final"

Ordered(p, q) ==
  p.of = q.of /\ Streams(p) /\ Streams(q) => p.at < q.at \/ (p.at = q.at /\ p.kind = "chunk")

Active == mpc \notin {"idle", "consume", "exited"}

Removes(a, i, n) == eventChan[a][i].type = "Unregister" /\ eventChan[a][i].of = n

(* Nothing is about a message that has yet to come.                        *)
Known ==
  /\ \A a \in Agents : \A i \in 1..Len(eventChan[a]) : eventChan[a][i].of <= cur
  /\ \A a \in Agents : hand[a].of <= cur
  /\ \A n \in Requests : \A i \in 1..Len(out[n]) : out[n][i].of <= cur
  /\ \A n \in Requests : n > cur => out[n] = <<>>
  /\ \A a \in Agents : \A n \in callbacks[a] \cup todo[a] : n <= cur

(* A callback is that of the message the manager handles, or its removal   *)
(* is queued.                                                              *)
Pending ==
  \A a \in Agents : \A n \in callbacks[a] :
    \/ n = cur /\ agent = a /\ Active
    \/ \E i \in 1..Len(eventChan[a]) : Removes(a, i, n)

(* The events of later messages are behind that.                           *)
Behind ==
  /\ \A a \in Agents : \A n \in callbacks[a] : \A i \in 1..Len(eventChan[a]) :
       eventChan[a][i].of > n => \E j \in 1..(i - 1) : Removes(a, j, n)
  /\ \A a \in Agents : \A n \in todo[a] : hand[a].of <= n

NoLater == \A n \in Requests : \A i \in 1..Len(out[n]) : out[n][i].of <= n

CallbacksInv == Known /\ Pending /\ Behind /\ NoLater

(* A callback belongs to one agent.                                        *)
OneAgent ==
  \A a, b \in Agents :
    (callbacks[a] \cup todo[a]) \cap (callbacks[b] \cup todo[b]) # {} => a = b

(* What is published, in hand and in the channel follow in this order.     *)
QueueOrdered ==
  /\ \A a \in Agents : \A i, j \in 1..Len(eventChan[a]) :
       i < j => Ordered(Said(eventChan[a][i]), Said(eventChan[a][j]))
  /\ \A a \in Agents : \A i \in 1..Len(eventChan[a]) :
       hand[a] # NoEvent => Ordered(Said(hand[a]), Said(eventChan[a][i]))

OutFirst ==
  /\ \A a \in Agents : \A n \in todo[a] : \A i \in 1..Len(out[n]) :
       Ordered(out[n][i], Said(hand[a]))
  /\ \A a \in Agents : \A n \in callbacks[a] :
       \A i \in 1..Len(out[n]), j \in 1..Len(eventChan[a]) :
         Ordered(out[n][i], Said(eventChan[a][j]))

(* And the run goes on behind all of it.                                   *)
Fresh(p, n, at) == p.of = n /\ Streams(p) => p.at < at \/ (p.at = at /\ p.kind = "chunk")

RunAhead ==
  mpc \in {"next", "reading"} =>
    /\ \A a \in Agents : \A i \in 1..Len(eventChan[a]) :
         Fresh(Said(eventChan[a][i]), cur, Len(allMsgs))
    /\ \A a \in Agents : hand[a] # NoEvent => Fresh(Said(hand[a]), cur, Len(allMsgs))
    /\ \A n \in Requests : \A i \in 1..Len(out[n]) : Fresh(out[n][i], cur, Len(allMsgs))

OrderInv == OneAgent /\ QueueOrdered /\ OutFirst /\ RunAhead /\ EventsInOrder
-----------------------------------------------------------------------------
(* What the steps do to the channels and to what is published.             *)
QuietStep ==
  /\ UNCHANGED <<eventChan, callbacks, hand, todo>>
  /\ \/ UNCHANGED out
     \/ \E p \in Published : p.of = cur' /\ ~Streams(p) /\ out' = [out EXCEPT ![cur'] = Append(@, p)]
  /\ cur' = cur \/ cur' = cur + 1
  /\ Active => cur' = cur /\ agent' = agent /\ Active'
  /\ mpc' \in {"next", "reading"} => mpc \in {"next", "reading"} /\ UNCHANGED <<cur, allMsgs>>

StartStep(a) ==
  /\ cur' = cur + 1 /\ agent' = a /\ Active' /\ cur' \in Requests
  /\ callbacks' = [callbacks EXCEPT ![a] = @ \cup {cur'}]
  /\ UNCHANGED <<eventChan, hand, todo, out>>
  /\ ~Active

EmitStep(e) ==
  /\ e.of = cur /\ e.at = Len(allMsgs)
  /\ Active /\ UNCHANGED <<cur, agent, hand, todo, out>>
  /\ eventChan' = [eventChan EXCEPT ![agent] = IF Len(@) < EventCap THEN Append(@, e) ELSE @]
  /\ \/ UNCHANGED callbacks /\ Active'
     \/ /\ e.type = "Unregister"
        /\ callbacks' = [callbacks EXCEPT ![agent] =
                           IF Len(eventChan[agent]) < EventCap THEN @ ELSE @ \ {cur}]
  /\ mpc' \in {"next", "reading"} =>
       /\ mpc \in {"next", "reading"}
       /\ Len(allMsgs') = Len(allMsgs) \/ Len(allMsgs') = Len(allMsgs) + 1
       /\ e.type = "MessageEnd" => Len(allMsgs') = Len(allMsgs) + 1
  /\ e.type \in {"MessageUpdate", "MessageEnd"} => mpc = "reading"

LoopKeeps == UNCHANGED <<mpc, cur, agent, allMsgs>>

RemoveStep(a) ==
  /\ LoopKeeps /\ eventChan[a] # <<>> /\ Head(eventChan[a]).type = "Unregister"
  /\ eventChan' = [eventChan EXCEPT ![a] = Tail(@)]
  /\ callbacks' = [callbacks EXCEPT ![a] = @ \ {Head(eventChan[a]).of}]
  /\ UNCHANGED <<hand, todo, out>>

DeliverStep(a) ==
  /\ LoopKeeps /\ eventChan[a] # <<>> /\ Head(eventChan[a]).type # "Unregister"
  /\ eventChan' = [eventChan EXCEPT ![a] = Tail(@)]
  /\ todo' = [todo EXCEPT ![a] = callbacks[a]]
  /\ hand' = [hand EXCEPT ![a] = IF callbacks[a] = {} THEN NoEvent ELSE Head(eventChan[a])]
  /\ UNCHANGED <<callbacks, out>>

CallStep(a, n) ==
  /\ LoopKeeps /\ hand[a] \in Events
  /\ \/ UNCHANGED out
     \/ Said(hand[a]) \in Published /\ out' = [out EXCEPT ![n] = Append(@, Said(hand[a]))]
  /\ todo' = [todo EXCEPT ![a] = @ \ {n}]
  /\ hand' = [hand EXCEPT ![a] = IF todo[a] = {n} THEN NoEvent ELSE @]
  /\ UNCHANGED <<eventChan, callbacks>>

LEMMA RunShapes ==
  ASSUME TypeOK, RunStep
  PROVE  QuietStep \/ \E e \in Events : EmitStep(e)
<1> USE DEF TypeOK
<1>1. ASSUME NEW type \in EventTypes, Emit(type), cur # 0
      PROVE  \E e \in Events :
               /\ e.type = type /\ e.of = cur /\ e.at = Len(allMsgs)
               /\ eventChan' = [eventChan EXCEPT ![agent] =
                                  IF Len(@) < EventCap THEN Append(@, e) ELSE @]
  BY <1>1, Emitted
<1>2. ASSUME NEW kind \in Outputs, NextOutput(kind) PROVE \E e \in Events : EmitStep(e)
  <2>1. Emit("MessageStart") /\ "MessageStart" \in EventTypes /\ cur # 0
    BY <1>2, EmitterKinds DEF NextOutput, ManagerOK
  <2>2. PICK e \in Events :
          /\ e.type = "MessageStart" /\ e.of = cur /\ e.at = Len(allMsgs)
          /\ eventChan' = [eventChan EXCEPT ![agent] =
                             IF Len(@) < EventCap THEN Append(@, e) ELSE @]
    BY <1>1, <2>1
  <2> QED BY <1>2, <2>2 DEF NextOutput, EmitStep, Active, loopVars
<1>3. CASE ReadChunk
  <2>1. Emit("MessageUpdate") /\ "MessageUpdate" \in EventTypes /\ cur # 0
    BY <1>3, EmitterKinds DEF ReadChunk, ManagerOK
  <2>2. PICK e \in Events :
          /\ e.type = "MessageUpdate" /\ e.of = cur /\ e.at = Len(allMsgs)
          /\ eventChan' = [eventChan EXCEPT ![agent] =
                             IF Len(@) < EventCap THEN Append(@, e) ELSE @]
    BY <1>1, <2>1
  <2> QED BY <1>3, <2>2 DEF ReadChunk, EmitStep, Active, loopVars
<1>4. CASE FinishOutput
  <2>1. cur # 0 /\ mpc = "reading"
    BY <1>4 DEF FinishOutput, ManagerOK
  <2>2. \E type \in EventTypes : Emit(type)
    <3>1. reading \in {"tool", "call", "answer"}
      BY <1>4 DEF RunOK, FinishOutput, Outputs
    <3> QED BY <1>4, <3>1, EmitterKinds DEF FinishOutput
  <2>3. PICK e \in Events :
          /\ e.of = cur /\ e.at = Len(allMsgs)
          /\ eventChan' = [eventChan EXCEPT ![agent] =
                             IF Len(@) < EventCap THEN Append(@, e) ELSE @]
    BY <1>1, <2>1, <2>2
  <2>4. Len(allMsgs') = Len(allMsgs) + 1
    BY <1>4 DEF FinishOutput, MessagesOK
  <2> QED BY <1>4, <2>1, <2>3, <2>4 DEF FinishOutput, EmitStep, Active, loopVars
<1>5. CASE RunInterrupted
  <2>1. Emit("Interrupt") /\ "Interrupt" \in EventTypes /\ cur # 0
    BY <1>5, EmitterKinds DEF RunInterrupted, ManagerOK
  <2>2. PICK e \in Events :
          /\ e.type = "Interrupt" /\ e.of = cur /\ e.at = Len(allMsgs)
          /\ eventChan' = [eventChan EXCEPT ![agent] =
                             IF Len(@) < EventCap THEN Append(@, e) ELSE @]
    BY <1>1, <2>1
  <2> QED BY <1>5, <2>2 DEF RunInterrupted, EmitStep, Active, loopVars, runVars
<1>6. CASE ReadFails \/ RunEnds \/ RunFails \/ MaxIterations
  BY <1>6 DEF ReadFails, RunEnds, RunFails, MaxIterations, QuietStep, Active, runVars, loopVars
<1> QED BY <1>2, <1>3, <1>4, <1>5, <1>6 DEF RunStep

LEMMA OwnShapes ==
  ASSUME TypeOK, NEW kind \in {"reply", "interrupt", "error", "command"}, NEW at \in Nat,
         cur' \in Requests, Publish(cur', kind, cur', at)
  PROVE  \/ UNCHANGED out
         \/ \E p \in Published : /\ p.of = cur' /\ ~Streams(p)
                                 /\ out' = [out EXCEPT ![cur'] = Append(@, p)]
<1>1. [kind |-> kind, of |-> cur', at |-> at] \in Published
  BY KindNames DEF Published
<1> QED BY <1>1 DEF Publish, Streams

LEMMA CallShapes ==
  ASSUME TypeOK, NEW a \in Agents, CallBack(a)
  PROVE  \E n \in todo[a] : CallStep(a, n)
<1>1. PICK n \in todo[a] :
        /\ HandleAgentEvent(hand[a], n)
        /\ todo' = [todo EXCEPT ![a] = @ \ {n}]
        /\ hand' = [hand EXCEPT ![a] = IF todo[a] = {n} THEN NoEvent ELSE @]
        /\ UNCHANGED <<mpc, cur, runVars, eventChan, callbacks>>
  BY DEF CallBack
<1>2. hand[a] \in Events
  BY DEF TypeOK, LoopsOK
<1>3. Said(hand[a]) \in Published
  <2>1. {"start", "chunk", "final"} \subseteq Kinds
    BY KindNames
  <2>2. hand[a].of \in Requests /\ hand[a].at \in Nat
    BY <1>2 DEF Events
  <2>3. ASSUME NEW k \in {"start", "chunk", "final"}
        PROVE  [kind |-> k, of |-> hand[a].of, at |-> hand[a].at] \in Published
    BY <2>1, <2>2 DEF Published
  <2> QED BY <2>3 DEF Said
<1>4. UNCHANGED out \/ out' = [out EXCEPT ![n] = Append(@, Said(hand[a]))]
  BY <1>1 DEF HandleAgentEvent, Publish, Said
<1> QED BY <1>1, <1>2, <1>3, <1>4 DEF CallStep, LoopKeeps, runVars

LEMMA Shapes ==
  ASSUME TypeOK, [Next]_vars
  PROVE  \/ QuietStep
         \/ \E a \in Agents : StartStep(a) \/ RemoveStep(a) \/ DeliverStep(a)
         \/ \E e \in Events : EmitStep(e)
         \/ \E a \in Agents : \E n \in todo[a] : CallStep(a, n)
<1>1. CASE ReplyInterrupt \/ ReplyError \/ Reply
  <2>1. cur' = cur /\ cur' \in Requests /\ Len(allMsgs) \in Nat
    BY <1>1, AgentAssumption
      DEF TypeOK, ManagerOK, MessagesOK, Requests, ReplyInterrupt, ReplyError, Reply
  <2>2. UNCHANGED out \/ \E kind \in {"reply", "interrupt", "error", "command"} :
                           Publish(cur', kind, cur', Len(allMsgs))
    BY <1>1, <2>1 DEF ReplyInterrupt, ReplyError, Reply, PublishOwn
  <2>3. \/ UNCHANGED out
        \/ \E p \in Published : /\ p.of = cur' /\ ~Streams(p)
                                /\ out' = [out EXCEPT ![cur'] = Append(@, p)]
    BY <2>1, <2>2, OwnShapes
  <2> QED
    BY <1>1, <2>3 DEF ReplyInterrupt, ReplyError, Reply, QuietStep, Active, runVars, loopVars
<1>2. ASSUME NEW s \in Sessions, RouteCommand(s) PROVE QuietStep
  <2>1. cur' = cur + 1 /\ cur' \in Requests
    BY <1>2, AgentAssumption DEF RouteCommand, TypeOK, ManagerOK, Requests
  <2>2. Publish(cur', "command", cur', 0)
    BY <1>2, <2>1 DEF RouteCommand
  <2>3. \/ UNCHANGED out
        \/ \E p \in Published : /\ p.of = cur' /\ ~Streams(p)
                                /\ out' = [out EXCEPT ![cur'] = Append(@, p)]
    BY <2>1, <2>2, OwnShapes
  <2> QED BY <1>2, <2>1, <2>3 DEF RouteCommand, QuietStep, Active, loopVars
<1>3. CASE Poll \/ ConsumeCancelled \/ RouteFails \/ SaveSession \/ Cancel \/ StopAgents
           \/ UNCHANGED vars
  BY <1>3 DEF Poll, ConsumeCancelled, RouteFails, SaveSession, Cancel, StopAgents, QuietStep,
    Active, runVars, loopVars, vars
<1>4. ASSUME NEW a \in Agents, LoopExits(a) PROVE QuietStep
  BY <1>4 DEF LoopExits, QuietStep, Active, runVars
<1>5. ASSUME NEW a \in Agents, NEW s \in Sessions, Prompt(a, s) \/ Resume(a, s)
      PROVE  StartStep(a)
  <2>1. cur + 1 \in Requests
    BY <1>5, AgentAssumption DEF Prompt, Resume, Accept, TypeOK, ManagerOK, Requests
  <2> QED BY <1>5, <2>1 DEF Prompt, Resume, Accept, StartStep, Active
<1>6. CASE UnregisterCallback
  <2>1. Emit("Unregister") /\ "Unregister" \in EventTypes /\ cur # 0
    BY <1>6, EmitterKinds DEF UnregisterCallback, TypeOK, ManagerOK
  <2>2. PICK e \in Events :
          /\ e.type = "Unregister" /\ e.of = cur /\ e.at = Len(allMsgs)
          /\ eventChan' = [eventChan EXCEPT ![agent] =
                             IF Len(@) < EventCap THEN Append(@, e) ELSE @]
    BY <2>1, Emitted DEF TypeOK
  <2> QED BY <1>6, <2>2 DEF UnregisterCallback, EmitStep, Active, loopVars
<1>7. ASSUME NEW a \in Agents, TakeEvent(a) PROVE RemoveStep(a) \/ DeliverStep(a)
  BY <1>7 DEF TakeEvent, RemoveStep, DeliverStep, LoopKeeps, runVars
<1> QED BY <1>1, <1>2, <1>3, <1>4, <1>5, <1>6, <1>7, RunShapes, CallShapes, AgentSteps
-----------------------------------------------------------------------------
(* Where the elements of a sequence are after one is added or taken.       *)
LEMMA AppendAt ==
  ASSUME NEW S, NEW s \in Seq(S), NEW e \in S, NEW i \in 1..Len(Append(s, e))
  PROVE  \/ i \in 1..Len(s) /\ Append(s, e)[i] = s[i]
         \/ i = Len(s) + 1 /\ Append(s, e)[i] = e
OBVIOUS

LEMMA AppendKeeps ==
  ASSUME NEW S, NEW s \in Seq(S), NEW e \in S
  PROVE  /\ Len(Append(s, e)) = Len(s) + 1 /\ Append(s, e)[Len(s) + 1] = e
         /\ \A i \in 1..Len(s) : i \in 1..Len(Append(s, e)) /\ Append(s, e)[i] = s[i]
OBVIOUS

LEMMA TailAt ==
  ASSUME NEW S, NEW s \in Seq(S), s # <<>>, NEW i \in 1..Len(Tail(s))
  PROVE  i + 1 \in 1..Len(s) /\ i + 1 > 1 /\ Tail(s)[i] = s[i + 1]
OBVIOUS

LEMMA TailKeeps ==
  ASSUME NEW S, NEW s \in Seq(S), s # <<>>, NEW i \in 1..Len(s), i # 1
  PROVE  i - 1 \in 1..Len(Tail(s)) /\ Tail(s)[i - 1] = s[i]
OBVIOUS

LEMMA HeadAt ==
  ASSUME NEW S, NEW s \in Seq(S), s # <<>>
  PROVE  1 \in 1..Len(s) /\ Head(s) = s[1]
OBVIOUS

LEMMA EmitAt ==
  ASSUME ChannelsOK, RunOK, NEW e \in Events, EmitStep(e), NEW a \in Agents
  PROVE  /\ \A i \in 1..Len(eventChan'[a]) :
              \/ i \in 1..Len(eventChan[a]) /\ eventChan'[a][i] = eventChan[a][i]
              \/ i = Len(eventChan[a]) + 1 /\ a = agent /\ eventChan'[a][i] = e
         /\ \A i \in 1..Len(eventChan[a]) :
              i \in 1..Len(eventChan'[a]) /\ eventChan'[a][i] = eventChan[a][i]
         /\ a = agent /\ Len(eventChan[a]) < EventCap =>
              /\ Len(eventChan[a]) + 1 \in 1..Len(eventChan'[a])
              /\ eventChan'[a][Len(eventChan[a]) + 1] = e
<1>1. eventChan[a] \in Seq(Events) /\ Len(eventChan[a]) \in Nat
  BY DEF ChannelsOK
<1>2. CASE a = agent /\ Len(eventChan[a]) < EventCap
  <2>1. eventChan'[a] = Append(eventChan[a], e)
    BY <1>2 DEF EmitStep, ChannelsOK
  <2>2. \A i \in 1..Len(Append(eventChan[a], e)) :
          \/ i \in 1..Len(eventChan[a]) /\ Append(eventChan[a], e)[i] = eventChan[a][i]
          \/ i = Len(eventChan[a]) + 1 /\ Append(eventChan[a], e)[i] = e
    BY <1>1, AppendAt
  <2>3. /\ Len(Append(eventChan[a], e)) = Len(eventChan[a]) + 1
        /\ Append(eventChan[a], e)[Len(eventChan[a]) + 1] = e
        /\ \A i \in 1..Len(eventChan[a]) :
             i \in 1..Len(Append(eventChan[a], e)) /\ Append(eventChan[a], e)[i] = eventChan[a][i]
    BY <1>1, AppendKeeps
  <2> QED BY <1>1, <1>2, <2>1, <2>2, <2>3
<1>3. CASE ~(a = agent /\ Len(eventChan[a]) < EventCap)
  <2>1. eventChan'[a] = eventChan[a]
    BY <1>3 DEF EmitStep, ChannelsOK
  <2> QED BY <1>3, <2>1
<1> QED BY <1>2, <1>3

LEMMA TakeAt ==
  ASSUME ChannelsOK, NEW b \in Agents, RemoveStep(b) \/ DeliverStep(b), NEW a \in Agents
  PROVE  /\ \A i \in 1..Len(eventChan'[a]) :
              \/ i \in 1..Len(eventChan[a]) /\ a # b /\ eventChan'[a][i] = eventChan[a][i]
              \/ /\ i + 1 \in 1..Len(eventChan[a]) /\ i + 1 > 1 /\ a = b
                 /\ eventChan'[a][i] = eventChan[a][i + 1]
         /\ \A i \in 1..Len(eventChan[a]) :
              \/ i \in 1..Len(eventChan'[a]) /\ a # b /\ eventChan'[a][i] = eventChan[a][i]
              \/ i = 1 /\ a = b /\ eventChan[a][i] = Head(eventChan[a])
              \/ i - 1 \in 1..Len(eventChan'[a]) /\ a = b /\ eventChan'[a][i - 1] = eventChan[a][i]
<1>1. eventChan[a] \in Seq(Events)
  BY DEF ChannelsOK
<1>2. CASE a = b
  <2>1. eventChan'[a] = Tail(eventChan[a]) /\ eventChan[a] # <<>>
    BY <1>2 DEF RemoveStep, DeliverStep, ChannelsOK
  <2>2. \A i \in 1..Len(Tail(eventChan[a])) :
          i + 1 \in 1..Len(eventChan[a]) /\ i + 1 > 1 /\ Tail(eventChan[a])[i] = eventChan[a][i + 1]
    BY <1>1, <2>1, TailAt
  <2>3. \A i \in 1..Len(eventChan[a]) : i # 1 =>
          i - 1 \in 1..Len(Tail(eventChan[a])) /\ Tail(eventChan[a])[i - 1] = eventChan[a][i]
    BY <1>1, <2>1, TailKeeps
  <2>4. Head(eventChan[a]) = eventChan[a][1]
    BY <1>1, <2>1, HeadAt
  <2> QED BY <1>2, <2>1, <2>2, <2>3, <2>4
<1>3. CASE a # b
  <2>1. eventChan'[a] = eventChan[a]
    BY <1>3 DEF RemoveStep, DeliverStep, ChannelsOK
  <2> QED BY <1>3, <2>1
<1> QED BY <1>2, <1>3

(* Where the elements of out are.                                          *)
LEMMA SaidAt ==
  ASSUME StoreOK, NEW n \in Requests, NEW p \in Published,
         out' = [out EXCEPT ![n] = Append(@, p)],
         NEW m \in Requests, NEW i \in 1..Len(out'[m])
  PROVE  \/ i \in 1..Len(out[m]) /\ out'[m][i] = out[m][i]
         \/ m = n /\ i = Len(out[m]) + 1 /\ out'[m][i] = p
<1>1. out[m] \in Seq(Published)
  BY DEF StoreOK
<1>2. CASE m = n
  <2>1. out'[m] = Append(out[m], p)
    BY <1>2 DEF StoreOK
  <2> QED BY <1>1, <1>2, <2>1, AppendAt
<1>3. CASE m # n
  BY <1>3 DEF StoreOK
<1> QED BY <1>2, <1>3

(* By shape of the step.                                                   *)
OutAt(m, p) ==
  \A i \in 1..Len(out'[m]) :
    \/ i \in 1..Len(out[m]) /\ out'[m][i] = out[m][i]
    \/ i = Len(out[m]) + 1 /\ out'[m][i] = p

LEMMA QuietOut ==
  ASSUME TypeOK, QuietStep
  PROVE  \/ UNCHANGED out
         \/ /\ cur' \in Requests
            /\ \E p \in Published :
                 /\ p.of = cur' /\ ~Streams(p)
                 /\ \A m \in Requests : IF m = cur' THEN OutAt(m, p) ELSE out'[m] = out[m]
<1>1. SUFFICES ASSUME out' # out PROVE
        /\ cur' \in Requests
        /\ \E p \in Published :
             /\ p.of = cur' /\ ~Streams(p)
             /\ \A m \in Requests : IF m = cur' THEN OutAt(m, p) ELSE out'[m] = out[m]
  OBVIOUS
<1>2. PICK p \in Published : /\ p.of = cur' /\ ~Streams(p)
                             /\ out' = [out EXCEPT ![cur'] = Append(@, p)]
  BY <1>1 DEF QuietStep
<1>3. cur' \in Requests
  BY <1>2 DEF Published
<1>4. ASSUME NEW m \in Requests
      PROVE  IF m = cur' THEN OutAt(m, p) ELSE out'[m] = out[m]
  <2>1. CASE m = cur'
    BY <1>2, <1>3, <2>1, SaidAt DEF TypeOK, OutAt
  <2>2. CASE m # cur'
    BY <1>2, <2>2 DEF TypeOK, StoreOK
  <2> QED BY <2>1, <2>2
<1> QED BY <1>2, <1>3, <1>4

LEMMA CallOut ==
  ASSUME TypeOK, NEW a \in Agents, NEW n \in todo[a], CallStep(a, n)
  PROVE  \/ UNCHANGED out
         \/ \A m \in Requests : IF m = n THEN OutAt(m, Said(hand[a])) ELSE out'[m] = out[m]
<1>1. SUFFICES ASSUME out' # out
               PROVE \A m \in Requests : IF m = n THEN OutAt(m, Said(hand[a])) ELSE out'[m] = out[m]
  OBVIOUS
<1>2. Said(hand[a]) \in Published /\ out' = [out EXCEPT ![n] = Append(@, Said(hand[a]))]
  BY <1>1 DEF CallStep
<1>3. n \in Requests
  BY DEF TypeOK, LoopsOK
<1>4. ASSUME NEW m \in Requests
      PROVE  IF m = n THEN OutAt(m, Said(hand[a])) ELSE out'[m] = out[m]
  <2>1. CASE m = n
    BY <1>2, <1>3, <2>1, SaidAt DEF TypeOK, OutAt
  <2>2. CASE m # n
    BY <1>2, <2>2 DEF TypeOK, StoreOK
  <2> QED BY <2>1, <2>2
<1> QED BY <1>4
-----------------------------------------------------------------------------
LEMMA ChanKnown ==
  ASSUME TypeOK, Known, NEW a \in Agents, NEW i \in 1..Len(eventChan[a])
  PROVE  eventChan[a][i] \in Events /\ eventChan[a][i].of <= cur
BY DEF TypeOK, ChannelsOK, Known

LEMMA HandNumber ==
  ASSUME TypeOK, NEW a \in Agents PROVE hand[a].of \in Nat
<1>1. hand[a] \in Events \/ hand[a] = NoEvent
  BY DEF TypeOK, LoopsOK
<1>2. NoEvent.of \in Nat
  BY DEF NoEvent
<1>3. Requests \subseteq Nat
  BY AgentAssumption DEF Requests
<1>4. \A e \in Events : e.of \in Nat
  BY <1>3 DEF Events
<1> QED BY <1>1, <1>2, <1>4

LEMMA KnownStep == TypeOK /\ Known /\ [Next]_vars => Known'
<1> SUFFICES ASSUME TypeOK, Known, [Next]_vars PROVE Known'
  OBVIOUS
<1>0. cur \in Nat /\ MaxRequests \in Nat /\ Requests \subseteq Nat
  BY AgentAssumption DEF TypeOK, ManagerOK, Requests
<1>1. CASE QuietStep
  <2>1. cur' \in Nat /\ cur <= cur'
    BY <1>0, <1>1 DEF QuietStep
  <2>2. ASSUME NEW a \in Agents, NEW i \in 1..Len(eventChan[a]) PROVE eventChan[a][i].of <= cur'
    <3>1. eventChan[a][i] \in Events /\ eventChan[a][i].of <= cur
      BY <2>2, ChanKnown
    <3>2. eventChan[a][i].of \in Nat
      BY <1>0, <3>1 DEF Events
    <3> QED BY <1>0, <2>1, <3>1, <3>2
  <2>3. ASSUME NEW a \in Agents PROVE hand[a].of <= cur'
    <3>1. hand[a].of \in Nat
      BY HandNumber
    <3> QED BY <1>0, <2>1, <3>1 DEF Known
  <2>4. ASSUME NEW n \in Requests, NEW i \in 1..Len(out'[n]) PROVE out'[n][i].of <= cur'
    <3>1. \/ i \in 1..Len(out[n]) /\ out'[n][i] = out[n][i]
          \/ out'[n][i].of = cur'
      BY <1>1, QuietOut DEF OutAt
    <3>2. CASE i \in 1..Len(out[n]) /\ out'[n][i] = out[n][i]
      <4>1. out[n][i] \in Published /\ out[n][i].of <= cur
        BY <3>2 DEF TypeOK, StoreOK, Known
      <4>2. out[n][i].of \in Nat
        BY <1>0, <4>1 DEF Published
      <4> QED BY <1>0, <2>1, <3>2, <4>1, <4>2
    <3> QED BY <2>1, <3>1, <3>2
  <2>5. ASSUME NEW n \in Requests, n > cur' PROVE out'[n] = <<>>
    <3>1. out'[n] = out[n]
      <4>1. n # cur'
        BY <1>0, <2>1, <2>5
      <4> QED BY <1>1, <4>1, QuietOut
    <3> QED BY <1>0, <2>1, <2>5, <3>1 DEF Known
  <2>6. ASSUME NEW a \in Agents, NEW n \in callbacks[a] \cup todo[a] PROVE n <= cur'
    <3>1. n \in Nat /\ n <= cur
      BY <1>0 DEF TypeOK, LoopsOK, Known
    <3> QED BY <1>0, <2>1, <3>1
  <2> QED BY <1>1, <2>2, <2>3, <2>4, <2>5, <2>6 DEF QuietStep, Known
<1>2. ASSUME NEW b \in Agents, StartStep(b) PROVE Known'
  <2>1. cur' \in Nat /\ cur' = cur + 1
    BY <1>0, <1>2 DEF StartStep
  <2>2. ASSUME NEW a \in Agents, NEW i \in 1..Len(eventChan[a]) PROVE eventChan[a][i].of <= cur'
    <3>1. eventChan[a][i] \in Events /\ eventChan[a][i].of <= cur
      BY <2>2, ChanKnown
    <3>2. eventChan[a][i].of \in Nat
      BY <1>0, <3>1 DEF Events
    <3> QED BY <1>0, <2>1, <3>1, <3>2
  <2>3. ASSUME NEW a \in Agents PROVE hand[a].of <= cur'
    <3>1. hand[a].of \in Nat
      BY HandNumber
    <3> QED BY <1>0, <2>1, <3>1 DEF Known
  <2>4. ASSUME NEW n \in Requests, NEW i \in 1..Len(out[n]) PROVE out[n][i].of <= cur'
    <3>1. out[n][i] \in Published /\ out[n][i].of <= cur
      BY DEF TypeOK, StoreOK, Known
    <3>2. out[n][i].of \in Nat
      BY <1>0, <3>1 DEF Published
    <3> QED BY <1>0, <2>1, <3>1, <3>2
  <2>5. ASSUME NEW n \in Requests, n > cur' PROVE out[n] = <<>>
    BY <1>0, <2>1, <2>5 DEF Known
  <2>6. ASSUME NEW a \in Agents, NEW n \in callbacks'[a] \cup todo[a] PROVE n <= cur'
    <3>1. n = cur' \/ n \in callbacks[a] \cup todo[a]
      BY <1>2 DEF StartStep, TypeOK, LoopsOK
    <3>2. n \in callbacks[a] \cup todo[a] => n \in Nat /\ n <= cur
      BY <1>0 DEF TypeOK, LoopsOK, Known
    <3> QED BY <1>0, <2>1, <3>1, <3>2
  <2> QED BY <1>2, <2>2, <2>3, <2>4, <2>5, <2>6 DEF StartStep, Known
<1>3. ASSUME NEW e \in Events, EmitStep(e) PROVE Known'
  <2>1. ASSUME NEW a \in Agents, NEW i \in 1..Len(eventChan'[a])
        PROVE  eventChan'[a][i].of <= cur
    <3>0. ChannelsOK /\ RunOK
      BY DEF TypeOK
    <3>1. \/ eventChan'[a][i] = e
          \/ i \in 1..Len(eventChan[a]) /\ eventChan'[a][i] = eventChan[a][i]
      BY <1>3, <3>0, EmitAt
    <3>2. i \in 1..Len(eventChan[a]) => eventChan[a][i].of <= cur
      BY ChanKnown
    <3>3. e.of <= cur
      BY <1>0, <1>3 DEF EmitStep
    <3> QED BY <3>1, <3>2, <3>3, Zenon
  <2>2. ASSUME NEW a \in Agents, NEW n \in callbacks'[a] \cup todo[a] PROVE n <= cur
    <3>1. callbacks'[a] \subseteq callbacks[a]
      BY <1>3 DEF EmitStep, TypeOK, LoopsOK, RunOK
    <3> QED BY <3>1 DEF Known
  <2> QED BY <1>3, <2>1, <2>2 DEF EmitStep, Known
<1>4. ASSUME NEW b \in Agents, RemoveStep(b) \/ DeliverStep(b) PROVE Known'
  <2>1. ASSUME NEW a \in Agents, NEW i \in 1..Len(eventChan'[a])
        PROVE  eventChan'[a][i].of <= cur
    <3>1. \/ i \in 1..Len(eventChan[a]) /\ eventChan'[a][i] = eventChan[a][i]
          \/ i + 1 \in 1..Len(eventChan[a]) /\ eventChan'[a][i] = eventChan[a][i + 1]
      BY <1>4, TakeAt DEF TypeOK
    <3> QED BY <3>1, ChanKnown
  <2>2. ASSUME NEW a \in Agents PROVE hand'[a].of <= cur
    <3>1. hand'[a] = hand[a] \/ hand'[a] = NoEvent \/
            (a = b /\ eventChan[a] # <<>> /\ hand'[a] = Head(eventChan[a]))
      BY <1>4 DEF RemoveStep, DeliverStep, TypeOK, LoopsOK
    <3>2. eventChan[a] # <<>> => Head(eventChan[a]).of <= cur
      <4>1. ASSUME eventChan[a] # <<>> PROVE 1 \in 1..Len(eventChan[a]) /\ Head(eventChan[a]) = eventChan[a][1]
        BY <4>1, HeadAt DEF TypeOK, ChannelsOK
      <4> QED BY <4>1, ChanKnown
    <3>3. NoEvent.of <= cur
      BY <1>0 DEF NoEvent
    <3> QED BY <3>1, <3>2, <3>3 DEF Known
  <2>3. ASSUME NEW a \in Agents, NEW n \in callbacks'[a] \cup todo'[a] PROVE n <= cur
    <3>1. callbacks'[a] \cup todo'[a] \subseteq callbacks[a] \cup todo[a]
      BY <1>4 DEF RemoveStep, DeliverStep, TypeOK, LoopsOK
    <3> QED BY <3>1 DEF Known
  <2> QED BY <1>4, <2>1, <2>2, <2>3 DEF RemoveStep, DeliverStep, LoopKeeps, Known
<1>5. ASSUME NEW b \in Agents, NEW m \in todo[b], CallStep(b, m) PROVE Known'
  <2>1. ASSUME NEW n \in Requests, NEW i \in 1..Len(out'[n]) PROVE out'[n][i].of <= cur
    <3>1. \/ i \in 1..Len(out[n]) /\ out'[n][i] = out[n][i]
          \/ out'[n][i] = Said(hand[b])
      BY <1>5, CallOut DEF OutAt
    <3>2. Said(hand[b]).of <= cur
      BY DEF Said, Known
    <3> QED BY <3>1, <3>2 DEF Known
  <2>2. ASSUME NEW n \in Requests, n > cur PROVE out'[n] = <<>>
    <3>1. m <= cur /\ m \in Nat
      BY <1>0 DEF Known, TypeOK, LoopsOK
    <3>2. out'[n] = out[n]
      <4>1. n # m
        BY <1>0, <2>2, <3>1
      <4> QED BY <1>5, <4>1, CallOut
    <3> QED BY <2>2, <3>2 DEF Known
  <2>3. ASSUME NEW a \in Agents, NEW n \in callbacks[a] \cup todo'[a] PROVE n <= cur
    <3>1. todo'[a] \subseteq todo[a]
      BY <1>5 DEF CallStep, TypeOK, LoopsOK
    <3> QED BY <3>1 DEF Known
  <2>4. ASSUME NEW a \in Agents PROVE hand'[a].of <= cur
    <3>1. hand'[a] = hand[a] \/ hand'[a] = NoEvent
      BY <1>5 DEF CallStep, TypeOK, LoopsOK
    <3> QED BY <1>0, <3>1 DEF Known, NoEvent
  <2> QED BY <1>5, <2>1, <2>2, <2>3, <2>4 DEF CallStep, LoopKeeps, Known
<1> HIDE DEF Known
<1> QED BY <1>1, <1>2, <1>3, <1>4, <1>5, Shapes

LEMMA PendingStep ==
  ASSUME TypeOK, Pending, [Next]_vars
  PROVE  Pending'
<1> SUFFICES ASSUME NEW a \in Agents, NEW n \in callbacks'[a],
                    ~\E i \in 1..Len(eventChan'[a]) : Removes(a, i, n)'
             PROVE  n = cur' /\ agent' = a /\ Active'
  BY DEF Pending
<1>1. \A i \in 1..Len(eventChan'[a]) :
        ~(eventChan'[a][i].type = "Unregister" /\ eventChan'[a][i].of = n)
  BY DEF Removes
<1>2. n \in callbacks[a] =>
        \/ n = cur /\ agent = a /\ Active
        \/ \E i \in 1..Len(eventChan[a]) :
             eventChan[a][i].type = "Unregister" /\ eventChan[a][i].of = n
  BY DEF Pending, Removes
<1>3. CASE QuietStep
  BY <1>1, <1>2, <1>3 DEF QuietStep
<1>4. ASSUME NEW b \in Agents, StartStep(b) PROVE n = cur' /\ agent' = a /\ Active'
  <2>1. callbacks'[a] \subseteq callbacks[a] \cup {cur'} /\ (a # b => callbacks'[a] = callbacks[a])
    BY <1>4 DEF StartStep, TypeOK, LoopsOK
  <2> QED BY <1>1, <1>2, <1>4, <2>1 DEF StartStep
<1>5. ASSUME NEW e \in Events, EmitStep(e) PROVE n = cur' /\ agent' = a /\ Active'
  <2>1. callbacks'[a] \subseteq callbacks[a]
    BY <1>5 DEF EmitStep, TypeOK, LoopsOK, RunOK
  <2>2. ~\E i \in 1..Len(eventChan[a]) :
           eventChan[a][i].type = "Unregister" /\ eventChan[a][i].of = n
    BY <1>1, <1>5, EmitAt DEF TypeOK
  <2>3. n = cur /\ agent = a
    BY <1>2, <2>1, <2>2
  <2>4. ASSUME e.type = "Unregister",
               callbacks' = [callbacks EXCEPT ![agent] =
                               IF Len(eventChan[agent]) < EventCap THEN @ ELSE @ \ {cur}]
        PROVE  FALSE
    <3>1. Len(eventChan[a]) < EventCap
      BY <2>3, <2>4 DEF TypeOK, LoopsOK
    <3>2. /\ Len(eventChan[a]) + 1 \in 1..Len(eventChan'[a])
          /\ eventChan'[a][Len(eventChan[a]) + 1] = e
      BY <1>5, <2>3, <3>1, EmitAt DEF TypeOK
    <3>3. e.of = cur
      BY <1>5 DEF EmitStep
    <3> QED BY <1>1, <2>3, <2>4, <3>2, <3>3
  <2> QED BY <1>5, <2>3, <2>4 DEF EmitStep
<1>6. ASSUME NEW b \in Agents, RemoveStep(b) \/ DeliverStep(b)
      PROVE  n = cur' /\ agent' = a /\ Active'
  <2>1. callbacks'[a] \subseteq callbacks[a]
    BY <1>6 DEF RemoveStep, DeliverStep, TypeOK, LoopsOK
  <2>2. a = b => Head(eventChan[a]).type # "Unregister" \/ Head(eventChan[a]).of # n
    BY <1>6 DEF RemoveStep, DeliverStep, TypeOK, LoopsOK
  <2>3. ~\E i \in 1..Len(eventChan[a]) :
           eventChan[a][i].type = "Unregister" /\ eventChan[a][i].of = n
    <3> SUFFICES ASSUME NEW i \in 1..Len(eventChan[a]),
                        eventChan[a][i].type = "Unregister" /\ eventChan[a][i].of = n
                 PROVE  FALSE
      OBVIOUS
    <3>1. \/ i \in 1..Len(eventChan'[a]) /\ eventChan'[a][i] = eventChan[a][i]
          \/ a = b /\ eventChan[a][i] = Head(eventChan[a])
          \/ i - 1 \in 1..Len(eventChan'[a]) /\ eventChan'[a][i - 1] = eventChan[a][i]
      BY <1>6, TakeAt DEF TypeOK
    <3> QED BY <1>1, <2>2, <3>1
  <2> QED BY <1>2, <1>6, <2>1, <2>3 DEF RemoveStep, DeliverStep, LoopKeeps, Active
<1>7. ASSUME NEW b \in Agents, NEW m \in todo[b], CallStep(b, m)
      PROVE  n = cur' /\ agent' = a /\ Active'
  BY <1>1, <1>2, <1>7 DEF CallStep, LoopKeeps, Active
<1> QED BY <1>3, <1>4, <1>5, <1>6, <1>7, Shapes

LEMMA BehindStep ==
  ASSUME TypeOK, Known, Pending, Behind, [Next]_vars
  PROVE  Behind'
<1>0. cur \in Nat /\ Requests \subseteq Nat
  BY AgentAssumption DEF TypeOK, ManagerOK, Requests
<1>1. ASSUME NEW a \in Agents, NEW n \in callbacks'[a], NEW i \in 1..Len(eventChan'[a]),
             eventChan'[a][i].of > n
      PROVE  \E j \in 1..(i - 1) :
               eventChan'[a][j].type = "Unregister" /\ eventChan'[a][j].of = n
  <2> DEFINE Goal == \E j \in 1..(i - 1) :
                       eventChan'[a][j].type = "Unregister" /\ eventChan'[a][j].of = n
  <2> HIDE DEF Goal
  <2>0. ASSUME NEW k \in 1..Len(eventChan[a]), n \in callbacks[a], eventChan[a][k].of > n
        PROVE  \E j \in 1..(k - 1) :
                 eventChan[a][j].type = "Unregister" /\ eventChan[a][j].of = n
    BY <2>0 DEF Behind, Removes
  <2>1. ASSUME UNCHANGED <<eventChan, callbacks>> PROVE Goal
    BY <1>1, <2>0, <2>1 DEF Goal
  <2>2. ASSUME NEW b \in Agents, StartStep(b) PROVE Goal
    <3>1. n \in callbacks[a] \/ n = cur'
      BY <2>2 DEF StartStep, TypeOK, LoopsOK
    <3>2. n # cur'
      <4>1. eventChan[a][i] \in Events /\ eventChan[a][i].of <= cur
        BY <2>2, ChanKnown DEF StartStep
      <4>2. eventChan[a][i].of \in Nat
        BY <1>0, <4>1 DEF Events
      <4>3. cur' = cur + 1 /\ eventChan' = eventChan
        BY <2>2 DEF StartStep
      <4> QED BY <1>0, <1>1, <4>1, <4>2, <4>3
    <3> QED BY <1>1, <2>0, <2>2, <3>1, <3>2 DEF Goal, StartStep
  <2>3. ASSUME NEW e \in Events, EmitStep(e) PROVE Goal
    <3>1. n \in callbacks[a]
      BY <2>3 DEF EmitStep, TypeOK, LoopsOK, RunOK
    <3>2. Len(eventChan[a]) \in Nat
      BY DEF TypeOK, ChannelsOK
    <3>3. ASSUME NEW k \in Nat, k <= Len(eventChan[a]), NEW j \in 1..k
          PROVE  j \in 1..Len(eventChan[a]) /\ eventChan'[a][j] = eventChan[a][j]
      <4>1. j \in 1..Len(eventChan[a])
        BY <3>2, <3>3
      <4> QED BY <2>3, <4>1, EmitAt DEF TypeOK
    <3>4. CASE i \in 1..Len(eventChan[a]) /\ eventChan'[a][i] = eventChan[a][i]
      <4>1. PICK j \in 1..(i - 1) :
              eventChan[a][j].type = "Unregister" /\ eventChan[a][j].of = n
        BY <1>1, <2>0, <3>1, <3>4
      <4>2. eventChan'[a][j] = eventChan[a][j]
        BY <3>2, <3>3, <3>4
      <4> QED BY <4>1, <4>2 DEF Goal
    <3>5. CASE i = Len(eventChan[a]) + 1 /\ a = agent /\ eventChan'[a][i] = e
      <4>1. n # cur /\ e.of = cur
        <5>1. n \in Nat
          BY <1>0, <3>1 DEF TypeOK, LoopsOK
        <5> QED BY <1>0, <1>1, <2>3, <3>5, <5>1 DEF EmitStep
      <4>2. PICK j \in 1..Len(eventChan[a]) :
              eventChan[a][j].type = "Unregister" /\ eventChan[a][j].of = n
        BY <3>1, <4>1 DEF Pending, Removes
      <4>3. eventChan'[a][j] = eventChan[a][j] /\ j \in 1..(i - 1)
        BY <3>2, <3>3, <3>5
      <4> QED BY <4>2, <4>3 DEF Goal
    <3> QED BY <2>3, <3>4, <3>5, EmitAt DEF TypeOK
  <2>4. ASSUME NEW b \in Agents, RemoveStep(b) \/ DeliverStep(b) PROVE Goal
    <3>1. n \in callbacks[a]
      BY <2>4 DEF RemoveStep, DeliverStep, TypeOK, LoopsOK
    <3>2. Len(eventChan[a]) \in Nat
      BY DEF TypeOK, ChannelsOK
    <3>3. CASE i \in 1..Len(eventChan[a]) /\ a # b /\ eventChan'[a][i] = eventChan[a][i]
      <4>1. PICK j \in 1..(i - 1) :
              eventChan[a][j].type = "Unregister" /\ eventChan[a][j].of = n
        BY <1>1, <2>0, <3>1, <3>3
      <4>2. eventChan'[a] = eventChan[a]
        BY <2>4, <3>3 DEF RemoveStep, DeliverStep, TypeOK, ChannelsOK
      <4> QED BY <4>1, <4>2 DEF Goal
    <3>4. CASE /\ i + 1 \in 1..Len(eventChan[a]) /\ i + 1 > 1 /\ a = b
               /\ eventChan'[a][i] = eventChan[a][i + 1]
      <4>1. PICK j \in 1..(i + 1 - 1) :
              eventChan[a][j].type = "Unregister" /\ eventChan[a][j].of = n
        BY <1>1, <2>0, <3>1, <3>4
      <4>2. j # 1
        <5>1. ASSUME j = 1 PROVE FALSE
          <6>1. Head(eventChan[a]) = eventChan[a][1]
            BY <3>4, HeadAt DEF TypeOK, ChannelsOK
          <6> QED BY <2>4, <3>4, <4>1, <5>1, <6>1 DEF RemoveStep, DeliverStep, TypeOK, LoopsOK
        <5> QED BY <5>1
      <4>3. j \in 1..Len(eventChan[a]) /\ j - 1 \in 1..(i - 1)
        BY <3>2, <3>4, <4>2
      <4>4. eventChan'[a][j - 1] = eventChan[a][j]
        BY <2>4, <3>4, <4>2, <4>3, TakeAt DEF TypeOK
      <4> QED BY <4>1, <4>3, <4>4 DEF Goal
    <3> QED BY <2>4, <3>3, <3>4, TakeAt DEF TypeOK
  <2>5. QuietStep \/ (\E b \in Agents : \E m \in todo[b] : CallStep(b, m)) =>
          UNCHANGED <<eventChan, callbacks>>
    BY DEF QuietStep, CallStep
  <2>6. Goal
    BY <2>1, <2>2, <2>3, <2>4, <2>5, Shapes
  <2> QED BY <2>6 DEF Goal
<1>2. ASSUME NEW a \in Agents, NEW n \in todo'[a] PROVE hand'[a].of <= n
  <2>1. CASE n \in todo[a] /\ hand'[a] = hand[a]
    BY <2>1 DEF Behind
  <2>2. ASSUME NEW b \in Agents, DeliverStep(b), a = b PROVE hand'[a].of <= n
    <3>1. n \in callbacks[a] /\ eventChan[a] # <<>> /\ hand'[a] = Head(eventChan[a])
      BY <2>2 DEF DeliverStep, TypeOK, LoopsOK
    <3>2. 1 \in 1..Len(eventChan[a]) /\ Head(eventChan[a]) = eventChan[a][1]
      BY <3>1, HeadAt DEF TypeOK, ChannelsOK
    <3>3. ~(eventChan[a][1].of > n)
      BY <3>1, <3>2 DEF Behind
    <3>4. eventChan[a][1].of \in Nat /\ n \in Nat
      BY <1>0, <3>1, <3>2, ChanKnown DEF TypeOK, LoopsOK, Events
    <3> QED BY <3>1, <3>2, <3>3, <3>4
  <2>3. ASSUME NEW b \in Agents, NEW m \in todo[b], CallStep(b, m)
        PROVE  n \in todo[a] /\ hand'[a] = hand[a]
    BY <2>3 DEF CallStep, TypeOK, LoopsOK
  <2>4. ASSUME NEW b \in Agents, DeliverStep(b), a # b PROVE n \in todo[a] /\ hand'[a] = hand[a]
    BY <2>4 DEF DeliverStep, TypeOK, LoopsOK
  <2>5. ASSUME QuietStep \/ (\E b \in Agents : StartStep(b) \/ RemoveStep(b))
               \/ \E e \in Events : EmitStep(e)
        PROVE  n \in todo[a] /\ hand'[a] = hand[a]
    BY <2>5 DEF QuietStep, StartStep, RemoveStep, EmitStep
  <2> QED BY <2>1, <2>2, <2>3, <2>4, <2>5, Shapes
<1> QED BY <1>1, <1>2 DEF Behind, Removes

LEMMA NoLaterStep ==
  ASSUME TypeOK, Behind, NoLater, [Next]_vars
  PROVE  NoLater'
<1> SUFFICES ASSUME NEW n \in Requests, NEW i \in 1..Len(out'[n]) PROVE out'[n][i].of <= n
  BY DEF NoLater
<1>0. n \in Nat
  BY AgentAssumption DEF Requests
<1>1. CASE i \in 1..Len(out[n]) /\ out'[n][i] = out[n][i]
  BY <1>1 DEF NoLater
<1>2. CASE QuietStep
  <2>1. \/ out'[n][i].of = n
        \/ i \in 1..Len(out[n]) /\ out'[n][i] = out[n][i]
    BY <1>2, QuietOut DEF OutAt
  <2> QED BY <1>0, <1>1, <2>1
<1>3. ASSUME NEW b \in Agents, NEW m \in todo[b], CallStep(b, m) PROVE out'[n][i].of <= n
  <2>1. \/ n = m /\ out'[n][i] = Said(hand[b])
        \/ i \in 1..Len(out[n]) /\ out'[n][i] = out[n][i]
    BY <1>3, CallOut DEF OutAt
  <2>2. Said(hand[b]).of <= m
    BY DEF Said, Behind
  <2> QED BY <1>1, <2>1, <2>2
<1>4. CASE UNCHANGED out
  BY <1>1, <1>4
<1> QED BY <1>2, <1>3, <1>4, Shapes DEF StartStep, RemoveStep, DeliverStep, EmitStep

LEMMA CallbacksInit == Init => CallbacksInv
<1> SUFFICES ASSUME Init PROVE CallbacksInv
  OBVIOUS
<1>1. Known
  BY DEF Init, Known, NoEvent
<1>2. Pending /\ Behind /\ NoLater
  BY DEF Init, Pending, Behind, NoLater
<1> QED BY <1>1, <1>2 DEF CallbacksInv

(* A callback never publishes an event of a later run, and none is left    *)
(* when the loop has caught up with the messages handled.                  *)
THEOREM CallbacksGone == Spec => []CallbacksEnd
<1>1. TypeOK /\ CallbacksInv /\ [Next]_vars => CallbacksInv'
  BY KnownStep, PendingStep, BehindStep, NoLaterStep DEF CallbacksInv
<1>2. TypeOK /\ CallbacksInv => CallbacksEnd
  <2> SUFFICES ASSUME TypeOK, CallbacksInv PROVE CallbacksEnd
    OBVIOUS
  <2>1. ASSUME NEW a \in Agents, mpc \in {"idle", "consume"}, eventChan[a] = <<>>
        PROVE  callbacks[a] = {}
    <3>1. ~\E i \in 1..Len(eventChan[a]) : Removes(a, i, i)
      BY <2>1
    <3> QED BY <2>1 DEF CallbacksInv, Pending, Active
  <2> QED BY <2>1 DEF CallbacksInv, NoLater, CallbacksEnd
<1> QED BY <1>1, <1>2, CallbacksInit, TypeCorrect, PTL DEF Spec
-----------------------------------------------------------------------------
LEMMA OrderedOut ==
  EventsInOrder <=>
    \A n \in Requests : \A i, j \in 1..Len(out[n]) : i < j => Ordered(out[n][i], out[n][j])
BY DEF EventsInOrder, Ordered, Streams

LEMMA SaidType ==
  ASSUME NEW e \in Events
  PROVE  /\ Said(e) \in Published /\ Said(e).of = e.of /\ Said(e).at = e.at
         /\ e.of \in Nat /\ e.at \in Nat
         /\ Streams(Said(e)) => e.type = "MessageUpdate" \/ e.type = "MessageEnd"
         /\ e.type = "MessageUpdate" => Said(e).kind = "chunk"
<1>1. {"start", "chunk", "final"} \subseteq Kinds
  BY KindNames
<1>2. e.of \in Requests /\ e.at \in Nat /\ Requests \subseteq Nat
  BY AgentAssumption DEF Events, Requests
<1>3. ASSUME NEW k \in {"start", "chunk", "final"}
      PROVE  [kind |-> k, of |-> e.of, at |-> e.at] \in Published
  BY <1>1, <1>2 DEF Published
<1>4. Said(e) \in Published
  BY <1>3 DEF Said
<1>5. Streams(Said(e)) => e.type = "MessageUpdate" \/ e.type = "MessageEnd"
  BY DEF Said, Streams
<1> QED BY <1>2, <1>4, <1>5 DEF Said

(* The event emitted is behind all that is about its run.                  *)
LEMMA EmitLast ==
  ASSUME TypeOK, NEW e \in Events, EmitStep(e), NEW p \in Published,
         mpc = "reading" => Fresh(p, cur, Len(allMsgs))
  PROVE  Ordered(p, Said(e))
<1>1. e.of = cur /\ e.at = Len(allMsgs)
      /\ (e.type \in {"MessageUpdate", "MessageEnd"} => mpc = "reading")
  BY DEF EmitStep
<1> QED BY <1>1, SaidType DEF Ordered, Fresh

LEMMA FreshLater ==
  ASSUME NEW p \in Published, NEW n, NEW l \in Nat, NEW m \in Nat, Fresh(p, n, l),
         m = l \/ m = l + 1
  PROVE  Fresh(p, n, m)
<1>1. p.at \in Nat
  BY DEF Published
<1> QED BY <1>1 DEF Fresh

LEMMA OneAgentStep ==
  ASSUME TypeOK, Known, OneAgent, [Next]_vars
  PROVE  OneAgent'
<1> SUFFICES ASSUME NEW a \in Agents, NEW b \in Agents,
                    NEW n \in callbacks'[a] \cup todo'[a], n \in callbacks'[b] \cup todo'[b]
             PROVE  a = b
  BY DEF OneAgent
<1>1. n \in callbacks[a] \cup todo[a] /\ n \in callbacks[b] \cup todo[b] => a = b
  BY DEF OneAgent
<1>2. ASSUME NEW c \in Agents, StartStep(c) PROVE a = b
  <2>1. ASSUME NEW d \in Agents
        PROVE  /\ d # c => callbacks'[d] \cup todo'[d] = callbacks[d] \cup todo[d]
               /\ callbacks'[d] \cup todo'[d] \subseteq callbacks[d] \cup todo[d] \cup {cur'}
    BY <1>2 DEF StartStep, TypeOK, LoopsOK
  <2>2. ASSUME NEW d \in Agents PROVE cur' \notin callbacks[d] \cup todo[d]
    <3>1. cur \in Nat /\ cur' = cur + 1
      BY <1>2, AgentAssumption DEF StartStep, TypeOK, ManagerOK
    <3> QED BY <3>1 DEF Known
  <2>3. CASE n = cur'
    <3>1. a = c
      BY <2>1, <2>2, <2>3
    <3>2. b = c
      BY <2>1, <2>2, <2>3
    <3> QED BY <3>1, <3>2
  <2>4. CASE n # cur'
    BY <1>1, <2>1, <2>4
  <2> QED BY <2>3, <2>4
<1>3. ASSUME QuietStep \/ (\E e \in Events : EmitStep(e))
             \/ (\E c \in Agents : RemoveStep(c) \/ DeliverStep(c))
             \/ (\E c \in Agents : \E m \in todo[c] : CallStep(c, m)),
             NEW d \in Agents
      PROVE  callbacks'[d] \cup todo'[d] \subseteq callbacks[d] \cup todo[d]
  <2>1. CASE QuietStep
    BY <2>1 DEF QuietStep
  <2>2. ASSUME NEW e \in Events, EmitStep(e)
        PROVE  callbacks'[d] \cup todo'[d] \subseteq callbacks[d] \cup todo[d]
    BY <2>2 DEF EmitStep, TypeOK, LoopsOK, RunOK
  <2>3. ASSUME NEW c \in Agents, RemoveStep(c) \/ DeliverStep(c)
        PROVE  callbacks'[d] \cup todo'[d] \subseteq callbacks[d] \cup todo[d]
    BY <2>3 DEF RemoveStep, DeliverStep, TypeOK, LoopsOK
  <2>4. ASSUME NEW c \in Agents, NEW m \in todo[c], CallStep(c, m)
        PROVE  callbacks'[d] \cup todo'[d] \subseteq callbacks[d] \cup todo[d]
    BY <2>4 DEF CallStep, TypeOK, LoopsOK
  <2> QED BY <1>3, <2>1, <2>2, <2>3, <2>4
<1> QED BY <1>1, <1>2, <1>3, Shapes

LEMMA ChanType ==
  ASSUME TypeOK, NEW a \in Agents, NEW i \in 1..Len(eventChan[a])
  PROVE  eventChan[a][i] \in Events /\ Said(eventChan[a][i]) \in Published
<1>1. eventChan[a][i] \in Events
  BY DEF TypeOK, ChannelsOK
<1> QED BY <1>1, SaidType

LEMMA HandType ==
  ASSUME TypeOK, NEW a \in Agents, hand[a] # NoEvent
  PROVE  hand[a] \in Events /\ Said(hand[a]) \in Published
<1>1. hand[a] \in Events
  BY DEF TypeOK, LoopsOK
<1> QED BY <1>1, SaidType

LEMMA QueueOrderedStep ==
  ASSUME TypeOK, QueueOrdered, RunAhead, [Next]_vars
  PROVE  QueueOrdered'
<1>1. ASSUME NEW a \in Agents, NEW i \in 1..Len(eventChan'[a]), NEW j \in 1..Len(eventChan'[a]),
             i < j
      PROVE  Ordered(Said(eventChan'[a][i]), Said(eventChan'[a][j]))
  <2> DEFINE Goal == Ordered(Said(eventChan'[a][i]), Said(eventChan'[a][j]))
  <2> HIDE DEF Goal
  <2>1. ASSUME NEW e \in Events, EmitStep(e) PROVE Goal
    <3>1. ChannelsOK /\ RunOK /\ Len(eventChan[a]) \in Nat
      BY DEF TypeOK, ChannelsOK
    <3>2. \/ j \in 1..Len(eventChan[a]) /\ eventChan'[a][j] = eventChan[a][j]
          \/ j = Len(eventChan[a]) + 1 /\ eventChan'[a][j] = e
      BY <2>1, <3>1, EmitAt
    <3>3. i \in 1..Len(eventChan[a]) /\ eventChan'[a][i] = eventChan[a][i]
      <4>1. i \in 1..Len(eventChan[a])
        BY <1>1, <3>1, <3>2
      <4> QED BY <2>1, <3>1, <4>1, EmitAt
    <3>4. CASE j \in 1..Len(eventChan[a]) /\ eventChan'[a][j] = eventChan[a][j]
      BY <1>1, <3>3, <3>4 DEF QueueOrdered, Goal
    <3>5. CASE eventChan'[a][j] = e
      <4>1. mpc = "reading" => Fresh(Said(eventChan[a][i]), cur, Len(allMsgs))
        BY <3>3 DEF RunAhead
      <4>2. Ordered(Said(eventChan[a][i]), Said(e))
        BY <2>1, <3>3, <4>1, ChanType, EmitLast
      <4> QED BY <3>3, <3>5, <4>2 DEF Goal
    <3> QED BY <3>2, <3>4, <3>5
  <2>2. ASSUME NEW b \in Agents, RemoveStep(b) \/ DeliverStep(b) PROVE Goal
    <3>1. CASE a # b
      <4>1. eventChan'[a] = eventChan[a]
        BY <2>2, <3>1 DEF RemoveStep, DeliverStep, TypeOK, ChannelsOK
      <4> QED BY <1>1, <4>1 DEF QueueOrdered, Goal
    <3>2. CASE a = b
      <4>1. i + 1 \in 1..Len(eventChan[a]) /\ eventChan'[a][i] = eventChan[a][i + 1]
        BY <2>2, <3>2, TakeAt DEF TypeOK
      <4>2. j + 1 \in 1..Len(eventChan[a]) /\ eventChan'[a][j] = eventChan[a][j + 1]
        BY <2>2, <3>2, TakeAt DEF TypeOK
      <4>3. i + 1 < j + 1
        BY <1>1
      <4> QED BY <4>1, <4>2, <4>3 DEF QueueOrdered, Goal
    <3> QED BY <3>1, <3>2
  <2>3. ASSUME UNCHANGED eventChan PROVE Goal
    BY <1>1, <2>3 DEF QueueOrdered, Goal
  <2>4. Goal
    BY <2>1, <2>2, <2>3, Shapes DEF QuietStep, StartStep, CallStep
  <2> QED BY <2>4 DEF Goal
<1>2. ASSUME NEW a \in Agents, NEW i \in 1..Len(eventChan'[a]), hand'[a] # NoEvent
      PROVE  Ordered(Said(hand'[a]), Said(eventChan'[a][i]))
  <2> DEFINE Goal == Ordered(Said(hand'[a]), Said(eventChan'[a][i]))
  <2> HIDE DEF Goal
  <2>1. ASSUME NEW e \in Events, EmitStep(e) PROVE Goal
    <3>1. hand'[a] = hand[a]
      BY <2>1 DEF EmitStep
    <3>2. \/ i \in 1..Len(eventChan[a]) /\ eventChan'[a][i] = eventChan[a][i]
          \/ eventChan'[a][i] = e
      BY <2>1, EmitAt DEF TypeOK
    <3>3. CASE i \in 1..Len(eventChan[a]) /\ eventChan'[a][i] = eventChan[a][i]
      BY <1>2, <3>1, <3>3 DEF QueueOrdered, Goal
    <3>4. CASE eventChan'[a][i] = e
      <4>1. mpc = "reading" => Fresh(Said(hand[a]), cur, Len(allMsgs))
        BY <1>2, <3>1 DEF RunAhead
      <4>2. Ordered(Said(hand[a]), Said(e))
        BY <1>2, <2>1, <3>1, <4>1, HandType, EmitLast
      <4> QED BY <3>1, <3>4, <4>2 DEF Goal
    <3> QED BY <3>2, <3>3, <3>4
  <2>2. ASSUME NEW b \in Agents, RemoveStep(b) \/ DeliverStep(b) PROVE Goal
    <3>1. CASE a # b
      <4>1. eventChan'[a] = eventChan[a] /\ hand'[a] = hand[a]
        BY <2>2, <3>1 DEF RemoveStep, DeliverStep, TypeOK, ChannelsOK, LoopsOK
      <4> QED BY <1>2, <4>1 DEF QueueOrdered, Goal
    <3>2. CASE a = b
      <4>1. i + 1 \in 1..Len(eventChan[a]) /\ i + 1 > 1 /\ eventChan'[a][i] = eventChan[a][i + 1]
        BY <2>2, <3>2, TakeAt DEF TypeOK
      <4>2. \/ hand'[a] = hand[a]
            \/ hand'[a] = Head(eventChan[a]) /\ eventChan[a] # <<>>
        BY <1>2, <2>2, <3>2 DEF RemoveStep, DeliverStep, TypeOK, LoopsOK
      <4>3. CASE hand'[a] = hand[a]
        BY <1>2, <4>1, <4>3 DEF QueueOrdered, Goal
      <4>4. CASE hand'[a] = Head(eventChan[a]) /\ eventChan[a] # <<>>
        <5>1. 1 \in 1..Len(eventChan[a]) /\ hand'[a] = eventChan[a][1]
          BY <4>4, HeadAt DEF TypeOK, ChannelsOK
        <5> QED BY <4>1, <5>1 DEF QueueOrdered, Goal
      <4> QED BY <4>2, <4>3, <4>4
    <3> QED BY <3>1, <3>2
  <2>3. ASSUME UNCHANGED eventChan, hand'[a] = hand[a] PROVE Goal
    BY <1>2, <2>3 DEF QueueOrdered, Goal
  <2>4. ASSUME NEW b \in Agents, NEW m \in todo[b], CallStep(b, m)
        PROVE  UNCHANGED eventChan /\ hand'[a] = hand[a]
    BY <1>2, <2>4 DEF CallStep, TypeOK, LoopsOK
  <2>5. Goal
    BY <2>1, <2>2, <2>3, <2>4, Shapes DEF QuietStep, StartStep
  <2> QED BY <2>5 DEF Goal
<1> QED BY <1>1, <1>2 DEF QueueOrdered

(* An element of out is an old one, one of no stream, or the event in      *)
(* hand.                                                                   *)
LEMMA OutFrom ==
  ASSUME TypeOK, [Next]_vars, NEW n \in Requests, NEW i \in 1..Len(out'[n])
  PROVE  \/ i \in 1..Len(out[n]) /\ out'[n][i] = out[n][i]
         \/ i = Len(out[n]) + 1 /\ ~Streams(out'[n][i]) /\ QuietStep
         \/ \E a \in Agents : /\ n \in todo[a] /\ CallStep(a, n)
                              /\ i = Len(out[n]) + 1 /\ out'[n][i] = Said(hand[a])
<1>1. CASE QuietStep
  BY <1>1, QuietOut DEF OutAt
<1>2. ASSUME NEW a \in Agents, NEW m \in todo[a], CallStep(a, m)
      PROVE  \/ i \in 1..Len(out[n]) /\ out'[n][i] = out[n][i]
             \/ m = n /\ i = Len(out[n]) + 1 /\ out'[n][i] = Said(hand[a])
  BY <1>2, CallOut DEF OutAt
<1>3. CASE UNCHANGED out
  BY <1>3
<1> QED BY <1>1, <1>2, <1>3, Shapes DEF StartStep, RemoveStep, DeliverStep, EmitStep

LEMMA OutOrderedStep ==
  ASSUME TypeOK, OutFirst, EventsInOrder, [Next]_vars
  PROVE  EventsInOrder'
<1> SUFFICES ASSUME NEW n \in Requests, NEW i \in 1..Len(out'[n]), NEW j \in 1..Len(out'[n]), i < j
             PROVE  Ordered(out'[n][i], out'[n][j])
  BY DEF EventsInOrder, Ordered, Streams
<1>0. Len(out[n]) \in Nat
  BY DEF TypeOK, StoreOK
<1>1. CASE j \in 1..Len(out[n]) /\ out'[n][j] = out[n][j]
  <2>1. i \in 1..Len(out[n])
    BY <1>0, <1>1
  <2>2. out'[n][i] = out[n][i]
    BY <1>0, <2>1, OutFrom
  <2> QED BY <1>1, <2>1, <2>2, OrderedOut
<1>2. CASE ~Streams(out'[n][j])
  BY <1>2 DEF Ordered
<1>3. ASSUME NEW a \in Agents, n \in todo[a], j = Len(out[n]) + 1, out'[n][j] = Said(hand[a])
      PROVE  Ordered(out'[n][i], out'[n][j])
  <2>1. i \in 1..Len(out[n])
    BY <1>0, <1>3
  <2>2. out'[n][i] = out[n][i]
    BY <1>0, <2>1, OutFrom
  <2> QED BY <1>3, <2>1, <2>2 DEF OutFirst
<1> QED BY <1>1, <1>2, <1>3, OutFrom

LEMMA RunAheadStep ==
  ASSUME TypeOK, Known, RunAhead, [Next]_vars
  PROVE  RunAhead'
<1> SUFFICES ASSUME mpc' \in {"next", "reading"} PROVE RunAhead'
  BY DEF RunAhead
<1>0. cur \in Nat /\ Len(allMsgs) \in Nat
  BY AgentAssumption DEF TypeOK, ManagerOK, MessagesOK
(* What was there before the step.                                         *)
<1>1. ASSUME NEW p \in Published, p.of <= cur,
             mpc \in {"next", "reading"} => Fresh(p, cur, Len(allMsgs))
      PROVE  Fresh(p, cur', Len(allMsgs'))
  <2>1. CASE mpc \in {"next", "reading"} /\ UNCHANGED <<cur, allMsgs>>
    BY <1>1, <2>1
  <2>2. ASSUME NEW e \in Events, EmitStep(e) PROVE Fresh(p, cur', Len(allMsgs'))
    <3>1. /\ mpc \in {"next", "reading"} /\ cur' = cur
          /\ Len(allMsgs') = Len(allMsgs) \/ Len(allMsgs') = Len(allMsgs) + 1
      BY <2>2 DEF EmitStep
    <3>2. Len(allMsgs') \in Nat
      BY <1>0, <3>1
    <3> QED BY <1>0, <1>1, <3>1, <3>2, FreshLater
  <2>3. ASSUME NEW a \in Agents, StartStep(a) PROVE Fresh(p, cur', Len(allMsgs'))
    <3>1. cur' = cur + 1 /\ p.of # cur'
      <4>1. p.of \in Nat
        BY AgentAssumption DEF Published, Requests
      <4> QED BY <1>0, <1>1, <2>3, <4>1 DEF StartStep
    <3> QED BY <3>1 DEF Fresh
  <2> QED BY <2>1, <2>2, <2>3, Shapes DEF QuietStep, RemoveStep, DeliverStep, CallStep, LoopKeeps
<1>2. ASSUME NEW a \in Agents, NEW i \in 1..Len(eventChan[a])
      PROVE  Fresh(Said(eventChan[a][i]), cur', Len(allMsgs'))
  <2>1. eventChan[a][i] \in Events /\ eventChan[a][i].of <= cur
    BY ChanKnown
  <2>2. Said(eventChan[a][i]) \in Published /\ Said(eventChan[a][i]).of <= cur
    BY <2>1, SaidType
  <2>3. mpc \in {"next", "reading"} => Fresh(Said(eventChan[a][i]), cur, Len(allMsgs))
    BY DEF RunAhead
  <2> QED BY <1>1, <2>2, <2>3
<1>3. ASSUME NEW a \in Agents, hand[a] # NoEvent
      PROVE  Fresh(Said(hand[a]), cur', Len(allMsgs'))
  <2>1. hand[a] \in Events /\ hand[a].of <= cur
    BY <1>3, HandType DEF Known
  <2>2. Said(hand[a]) \in Published /\ Said(hand[a]).of <= cur
    BY <2>1, SaidType
  <2>3. mpc \in {"next", "reading"} => Fresh(Said(hand[a]), cur, Len(allMsgs))
    BY <1>3 DEF RunAhead
  <2> QED BY <1>1, <2>2, <2>3
<1>4. ASSUME NEW n \in Requests, NEW i \in 1..Len(out[n])
      PROVE  Fresh(out[n][i], cur', Len(allMsgs'))
  <2>1. out[n][i] \in Published /\ out[n][i].of <= cur
    BY DEF Known, TypeOK, StoreOK
  <2>2. mpc \in {"next", "reading"} => Fresh(out[n][i], cur, Len(allMsgs))
    BY DEF RunAhead
  <2> QED BY <1>1, <2>1, <2>2
(* What is there after it.                                                 *)
<1>5. ASSUME NEW a \in Agents, NEW i \in 1..Len(eventChan'[a])
      PROVE  Fresh(Said(eventChan'[a][i]), cur', Len(allMsgs'))
  <2> DEFINE Goal == Fresh(Said(eventChan'[a][i]), cur', Len(allMsgs'))
  <2> HIDE DEF Goal
  <2>1. ASSUME NEW e \in Events, EmitStep(e) PROVE Goal
    <3>1. \/ i \in 1..Len(eventChan[a]) /\ eventChan'[a][i] = eventChan[a][i]
          \/ eventChan'[a][i] = e
      BY <2>1, EmitAt DEF TypeOK
    <3>2. Fresh(Said(e), cur', Len(allMsgs'))
      <4>1. /\ e.at = Len(allMsgs)
            /\ Len(allMsgs') = Len(allMsgs) \/ Len(allMsgs') = Len(allMsgs) + 1
            /\ e.type = "MessageEnd" => Len(allMsgs') = Len(allMsgs) + 1
        BY <2>1 DEF EmitStep
      <4> QED BY <1>0, <4>1, SaidType DEF Fresh
    <3> QED BY <1>2, <3>1, <3>2 DEF Goal
  <2>2. ASSUME NEW b \in Agents, RemoveStep(b) \/ DeliverStep(b) PROVE Goal
    <3>1. \/ i \in 1..Len(eventChan[a]) /\ eventChan'[a][i] = eventChan[a][i]
          \/ i + 1 \in 1..Len(eventChan[a]) /\ eventChan'[a][i] = eventChan[a][i + 1]
      BY <2>2, TakeAt DEF TypeOK
    <3> QED BY <1>2, <3>1 DEF Goal
  <2>3. ASSUME UNCHANGED eventChan PROVE Goal
    BY <1>2, <2>3 DEF Goal
  <2>4. Goal
    BY <2>1, <2>2, <2>3, Shapes DEF QuietStep, StartStep, CallStep
  <2> QED BY <2>4 DEF Goal
<1>6. ASSUME NEW a \in Agents, hand'[a] # NoEvent
      PROVE  Fresh(Said(hand'[a]), cur', Len(allMsgs'))
  <2>1. ASSUME NEW b \in Agents, DeliverStep(b)
        PROVE  hand'[a] = hand[a] \/ \E i \in 1..Len(eventChan[a]) : hand'[a] = eventChan[a][i]
    <3>1. \/ hand'[a] = hand[a]
          \/ hand'[a] = Head(eventChan[a]) /\ eventChan[a] # <<>>
      BY <1>6, <2>1 DEF DeliverStep, TypeOK, LoopsOK
    <3> QED BY <3>1, HeadAt DEF TypeOK, ChannelsOK
  <2>2. ASSUME NEW b \in Agents, NEW m \in todo[b], CallStep(b, m) PROVE hand'[a] = hand[a]
    BY <1>6, <2>2 DEF CallStep, TypeOK, LoopsOK
  <2>3. hand'[a] = hand[a] \/ \E i \in 1..Len(eventChan[a]) : hand'[a] = eventChan[a][i]
    BY <2>1, <2>2, Shapes DEF QuietStep, StartStep, EmitStep, RemoveStep
  <2> QED BY <1>2, <1>3, <1>6, <2>3
<1>7. ASSUME NEW n \in Requests, NEW i \in 1..Len(out'[n])
      PROVE  Fresh(out'[n][i], cur', Len(allMsgs'))
  <2>1. CASE i \in 1..Len(out[n]) /\ out'[n][i] = out[n][i]
    BY <1>4, <2>1
  <2>2. CASE ~Streams(out'[n][i])
    BY <2>2 DEF Fresh
  <2>3. ASSUME NEW a \in Agents, n \in todo[a], out'[n][i] = Said(hand[a])
        PROVE  Fresh(out'[n][i], cur', Len(allMsgs'))
    <3>1. hand[a] # NoEvent
      BY <2>3 DEF TypeOK, LoopsOK
    <3> QED BY <1>3, <2>3, <3>1
  <2> QED BY <2>1, <2>2, <2>3, OutFrom
<1> QED BY <1>5, <1>6, <1>7 DEF RunAhead
LEMMA OutFirstStep ==
  ASSUME TypeOK, Known, OneAgent, QueueOrdered, OutFirst, RunAhead, [Next]_vars
  PROVE  OutFirst'
<1>0. cur \in Nat
  BY AgentAssumption DEF TypeOK, ManagerOK
<1>1. ASSUME NEW a \in Agents, NEW n \in todo'[a], n \in Requests, NEW i \in 1..Len(out'[n])
      PROVE  Ordered(out'[n][i], Said(hand'[a]))
  <2> DEFINE Goal == Ordered(out'[n][i], Said(hand'[a]))
  <2> HIDE DEF Goal
  <2>1. ASSUME NEW b \in Agents, DeliverStep(b) PROVE Goal
    <3>1. out' = out
      BY <2>1 DEF DeliverStep
    <3>2. \/ n \in todo[a] /\ hand'[a] = hand[a]
          \/ n \in callbacks[a] /\ hand'[a] = Head(eventChan[a]) /\ eventChan[a] # <<>>
      BY <2>1 DEF DeliverStep, TypeOK, LoopsOK
    <3>3. CASE n \in todo[a] /\ hand'[a] = hand[a]
      BY <1>1, <3>1, <3>3 DEF OutFirst, Goal
    <3>4. CASE n \in callbacks[a] /\ hand'[a] = Head(eventChan[a]) /\ eventChan[a] # <<>>
      <4>1. 1 \in 1..Len(eventChan[a]) /\ hand'[a] = eventChan[a][1]
        BY <3>4, HeadAt DEF TypeOK, ChannelsOK
      <4> QED BY <1>1, <3>1, <3>4, <4>1 DEF OutFirst, Goal
    <3> QED BY <3>2, <3>3, <3>4
  <2>2. ASSUME ~\E b \in Agents : DeliverStep(b) PROVE Goal
    <3>1. n \in todo[a] /\ hand'[a] = hand[a]
      <4>1. ASSUME NEW b \in Agents, NEW m \in todo[b], CallStep(b, m)
            PROVE  n \in todo[a] /\ hand'[a] = hand[a]
        BY <4>1 DEF CallStep, TypeOK, LoopsOK
      <4> QED BY <2>2, <4>1, Shapes DEF QuietStep, StartStep, EmitStep, RemoveStep
    <3>2. CASE i \in 1..Len(out[n]) /\ out'[n][i] = out[n][i]
      BY <3>1, <3>2 DEF OutFirst, Goal
    <3>3. CASE ~Streams(out'[n][i])
      BY <3>3 DEF Ordered, Goal
    <3>4. ASSUME NEW b \in Agents, n \in todo[b], CallStep(b, n) PROVE Goal
      <4>1. a = b
        BY <3>1, <3>4 DEF OneAgent
      <4>2. n \notin todo'[a]
        BY <3>4, <4>1 DEF CallStep, TypeOK, LoopsOK
      <4> QED BY <4>2
    <3> QED BY <1>1, <3>2, <3>3, <3>4, OutFrom
  <2> QED BY <2>1, <2>2 DEF Goal
<1>2. ASSUME NEW a \in Agents, NEW n \in callbacks'[a], n \in Requests,
             NEW i \in 1..Len(out'[n]), NEW j \in 1..Len(eventChan'[a])
      PROVE  Ordered(out'[n][i], Said(eventChan'[a][j]))
  <2> DEFINE Goal == Ordered(out'[n][i], Said(eventChan'[a][j]))
  <2> HIDE DEF Goal
  <2>1. ASSUME NEW b \in Agents, StartStep(b) PROVE Goal
    <3>1. UNCHANGED <<out, eventChan>>
      BY <2>1 DEF StartStep
    <3>2. n \in callbacks[a] \/ n = cur'
      BY <2>1 DEF StartStep, TypeOK, LoopsOK
    <3>3. n # cur'
      <4>1. n = cur' => n > cur
        BY <1>0, <2>1 DEF StartStep
      <4>2. n > cur => out[n] = <<>>
        BY <1>2 DEF Known
      <4>3. out[n] # <<>>
        BY <3>1
      <4> QED BY <4>1, <4>2, <4>3
    <3> QED BY <1>2, <3>1, <3>2, <3>3 DEF OutFirst, Goal
  <2>2. ASSUME NEW e \in Events, EmitStep(e) PROVE Goal
    <3>1. n \in callbacks[a] /\ out' = out
      BY <2>2 DEF EmitStep, TypeOK, LoopsOK, RunOK
    <3>2. \/ j \in 1..Len(eventChan[a]) /\ eventChan'[a][j] = eventChan[a][j]
          \/ eventChan'[a][j] = e
      BY <2>2, EmitAt DEF TypeOK
    <3>3. CASE j \in 1..Len(eventChan[a]) /\ eventChan'[a][j] = eventChan[a][j]
      BY <1>2, <3>1, <3>3 DEF OutFirst, Goal
    <3>4. CASE eventChan'[a][j] = e
      <4>1. out[n][i] \in Published
        BY <1>2, <3>1 DEF TypeOK, StoreOK
      <4>2. mpc = "reading" => Fresh(out[n][i], cur, Len(allMsgs))
        BY <1>2, <3>1 DEF RunAhead
      <4>3. Ordered(out[n][i], Said(e))
        BY <2>2, <4>1, <4>2, EmitLast
      <4> QED BY <3>1, <3>4, <4>3 DEF Goal
    <3> QED BY <3>2, <3>3, <3>4
  <2>3. ASSUME NEW b \in Agents, RemoveStep(b) \/ DeliverStep(b) PROVE Goal
    <3>1. n \in callbacks[a] /\ out' = out
      BY <2>3 DEF RemoveStep, DeliverStep, TypeOK, LoopsOK
    <3>2. \/ j \in 1..Len(eventChan[a]) /\ eventChan'[a][j] = eventChan[a][j]
          \/ j + 1 \in 1..Len(eventChan[a]) /\ eventChan'[a][j] = eventChan[a][j + 1]
      BY <2>3, TakeAt DEF TypeOK
    <3> QED BY <1>2, <3>1, <3>2 DEF OutFirst, Goal
  <2>4. ASSUME UNCHANGED <<callbacks, eventChan>> PROVE Goal
    <3>1. CASE i \in 1..Len(out[n]) /\ out'[n][i] = out[n][i]
      BY <1>2, <2>4, <3>1 DEF OutFirst, Goal
    <3>2. CASE ~Streams(out'[n][i])
      BY <3>2 DEF Ordered, Goal
    <3>3. ASSUME NEW b \in Agents, n \in todo[b], out'[n][i] = Said(hand[b]) PROVE Goal
      <4>1. a = b /\ hand[b] # NoEvent
        BY <2>4, <3>3 DEF OneAgent, TypeOK, LoopsOK
      <4> QED BY <2>4, <3>3, <4>1 DEF QueueOrdered, Goal
    <3> QED BY <1>2, <3>1, <3>2, <3>3, OutFrom
  <2>5. Goal
    BY <2>1, <2>2, <2>3, <2>4, Shapes DEF QuietStep, CallStep
  <2> QED BY <2>5 DEF Goal
<1>3. \A a \in Agents : callbacks'[a] \subseteq Requests /\ todo'[a] \subseteq Requests
  <2>1. LoopsOK'
    BY LoopsStep DEF TypeOK
  <2> QED BY <2>1 DEF LoopsOK
<1> QED BY <1>1, <1>2, <1>3 DEF OutFirst

LEMMA OrderInit == Init => OrderInv
<1> SUFFICES ASSUME Init PROVE OrderInv
  OBVIOUS
<1>1. OneAgent /\ QueueOrdered /\ OutFirst
  BY DEF Init, OneAgent, QueueOrdered, OutFirst
<1>2. RunAhead /\ EventsInOrder
  BY DEF Init, RunAhead, EventsInOrder
<1> QED BY <1>1, <1>2 DEF OrderInv

(* What a callback publishes of a run streams and ends message after       *)
(* message, however the loop is behind the run, whatever is dropped.       *)
THEOREM StreamsInOrder == Spec => []EventsInOrder
<1>1. TypeOK /\ Known /\ OrderInv /\ [Next]_vars => OrderInv'
  BY OneAgentStep, QueueOrderedStep, OutFirstStep, RunAheadStep, OutOrderedStep DEF OrderInv
<1>2. OrderInv => EventsInOrder
  BY DEF OrderInv
<1>3. Init => Known
  BY CallbacksInit DEF CallbacksInv
<1>4. TypeOK /\ Known /\ [Next]_vars => Known'
  BY KnownStep
<1> QED BY <1>1, <1>2, <1>3, <1>4, OrderInit, TypeCorrect, PTL DEF Spec
-----------------------------------------------------------------------------
(* A message's result has a call; other messages answer nothing.           *)
LEMMA AnswersIsTool ==
  ASSUME NEW msgs, Proper(msgs), NEW k \in 1..Len(msgs), NEW c, Answers(msgs[k], c)
  PROVE  msgs[k].role = "tool"
<1>1. <<c.by, c.at>> # <<>>
  OBVIOUS
<1> QED BY <1>1 DEF Proper, Answers

LEMMA ProperResult ==
  ASSUME NEW msgs, Proper(msgs), NEW k \in 1..Len(msgs), msgs[k].role = "tool"
  PROVE  \E c \in 1..(k - 1) : Answers(msgs[k], msgs[c])
<1>1. Callers(msgs, k) # {}
  BY DEF Proper
<1> QED BY <1>1 DEF Callers

LEMMA ProperPair ==
  ASSUME NEW msgs, Proper(msgs), NEW j \in 1..Len(msgs), NEW k \in 1..Len(msgs), j < k
  PROVE  /\ msgs[j].by # msgs[k].by \/ msgs[j].at # msgs[k].at
         /\ Answers(msgs[k], msgs[j]) => \A i \in (j + 1)..k : msgs[i].role = "tool"
BY DEF Proper

(* No result after a history's beginning answers a call before it.         *)
Apart(msgs, a) == \A j \in 1..(a - 1), k \in a..Len(msgs) : ~Answers(msgs[k], msgs[j])

LEMMA SafeStartApart ==
  ASSUME NEW msgs \in Seq(Message), Proper(msgs), NEW i \in 1..Len(msgs)
  PROVE  SafeStart(msgs)[i] \in 1..i /\ Apart(msgs, SafeStart(msgs)[i])
<1> DEFINE f == SafeStart(msgs)
           Good(m) == f[m] \in 1..m /\ Apart(msgs, f[m])
           Bad == {m \in 1..Len(msgs) : ~Good(m)}
<1>1. Bad = {}
  <2>1. SUFFICES ASSUME Bad # {} PROVE FALSE
    OBVIOUS
  <2>2. Bad \in SUBSET Nat
    OBVIOUS
  <2>3. PICK k \in Bad : \A m \in Bad : k <= m
    <3> HIDE DEF Bad
    <3> QED BY <2>1, <2>2, LeastOf
  <2>4. k \in 1..Len(msgs) /\ ~Good(k) /\ \A m \in 1..(k - 1) : Good(m)
    BY <2>3
  <2> HIDE DEF Bad
  <2>5. f[k] = StartAt(msgs, f, k)
    BY <2>4, SafeStartExists
  <2> HIDE DEF f
  <2>6. CASE k = 1
    BY <2>4, <2>5, <2>6 DEF StartAt, Apart
  <2>7. CASE k # 1 /\ msgs[k].role = "tool"
    <3>1. Callers(msgs, k) # {} /\ Callers(msgs, k) \in SUBSET (1..(k - 1)) /\ k - 1 \in Nat
      BY <2>4, <2>7 DEF Proper, Callers
    <3>2. Max(Callers(msgs, k)) \in 1..(k - 1)
      BY <3>1, GreatestOf
    <3>3. f[k] = f[Max(Callers(msgs, k))]
      BY <2>5, <2>7, <3>1 DEF StartAt
    <3>4. Good(Max(Callers(msgs, k)))
      BY <2>4, <3>2
    <3> QED BY <2>4, <3>2, <3>3, <3>4
  <2>8. CASE k # 1 /\ msgs[k].role # "tool"
    <3>1. f[k] = k \/ f[k] = f[k - 1]
      BY <2>5, <2>8 DEF StartAt
    <3>2. CASE f[k] = f[k - 1]
      BY <2>4, <2>8, <3>2
    <3>3. CASE f[k] = k
      <4>1. ASSUME NEW j \in 1..(k - 1), NEW r \in k..Len(msgs), Answers(msgs[r], msgs[j])
            PROVE  FALSE
        <5>1. j \in 1..Len(msgs) /\ r \in 1..Len(msgs) /\ j < r /\ k \in (j + 1)..r
          BY <2>4, <4>1
        <5> QED BY <2>8, <4>1, <5>1 DEF Proper
      <4> QED BY <2>4, <3>3, <4>1 DEF Apart
    <3> QED BY <3>1, <3>2, <3>3
  <2> QED BY <2>6, <2>7, <2>8
<1>2. Good(i)
  BY <1>1
<1> QED BY <1>2

(* What a run is given: an end of the session that stands on its own, all  *)
(* of it or MaxHistory messages at least.                                  *)
LEMMA HistoryApart ==
  ASSUME NEW msgs \in Seq(Message), Proper(msgs)
  PROVE  \E a \in 1..(Len(msgs) + 1) :
           /\ GetHistorySafe(msgs) = SubSeq(msgs, a, Len(msgs))
           /\ Apart(msgs, a)
           /\ a # 1 => Len(msgs) - a + 1 >= MaxHistory
<1>1. Len(msgs) \in Nat /\ MaxHistory \in Nat \ {0}
  BY AgentAssumption
<1>2. CASE Len(msgs) <= MaxHistory
  <2>1. GetHistorySafe(msgs) = SubSeq(msgs, 1, Len(msgs))
    BY <1>1, <1>2, SubSeqFull DEF GetHistorySafe
  <2> QED BY <1>1, <2>1 DEF Apart
<1>3. CASE ~(Len(msgs) <= MaxHistory)
  <2> DEFINE i == Len(msgs) - MaxHistory + 1
             a == SafeStart(msgs)[i]
  <2>1. i \in 1..Len(msgs)
    BY <1>1, <1>3
  <2>2. a \in 1..i /\ Apart(msgs, a)
    BY <2>1, SafeStartApart
  <2>3. GetHistorySafe(msgs) = SubSeq(msgs, a, Len(msgs))
    BY <1>3 DEF GetHistorySafe
  <2> HIDE DEF a
  <2> QED BY <1>1, <2>1, <2>2, <2>3
<1> QED BY <1>2, <1>3

(* The elements of the end of a sequence.                                  *)
LEMMA EndOf ==
  ASSUME NEW S, NEW msgs \in Seq(S), NEW a \in 1..(Len(msgs) + 1)
  PROVE  LET h == SubSeq(msgs, a, Len(msgs)) IN
         /\ h \in Seq(S) /\ Len(h) = Len(msgs) - a + 1
         /\ \A i \in 1..Len(h) : h[i] = msgs[a + i - 1]
BY SubSeqProperties

LEMMA EndProper ==
  ASSUME NEW msgs \in Seq(Message), Proper(msgs), NEW a \in 1..(Len(msgs) + 1), Apart(msgs, a)
  PROVE  Proper(SubSeq(msgs, a, Len(msgs)))
<1> DEFINE h == SubSeq(msgs, a, Len(msgs))
<1>1. /\ Len(h) = Len(msgs) - a + 1 /\ Len(msgs) \in Nat
      /\ \A i \in 1..Len(h) : h[i] = msgs[a + i - 1] /\ a + i - 1 \in 1..Len(msgs)
  BY EndOf
<1> HIDE DEF h
<1> DEFINE p(i) == a + i - 1
<1>2. ASSUME NEW i \in 1..Len(h)
      PROVE  /\ p(i) \in 1..Len(msgs) /\ h[i] = msgs[p(i)] /\ i \in Nat
             /\ p(i) \in Nat /\ i = p(i) - a + 1 /\ p(i) >= a
  BY <1>1
<1>3. ASSUME NEW i \in 1..Len(h), h[i].role = "tool" PROVE Callers(h, i) # {}
  <2>1. PICK j \in 1..(p(i) - 1) : Answers(msgs[p(i)], msgs[j])
    BY <1>2, <1>3, ProperResult
  <2>2. j >= a
    <3>1. p(i) \in a..Len(msgs) /\ j \in Nat
      BY <1>2, <2>1
    <3>2. j \in 1..(a - 1) => ~Answers(msgs[p(i)], msgs[j])
      BY <3>1 DEF Apart
    <3> QED BY <2>1, <3>1, <3>2
  <2>3. j - a + 1 \in 1..(i - 1) /\ h[j - a + 1] = msgs[j]
    BY <1>1, <1>2, <2>1, <2>2
  <2> QED BY <1>2, <2>1, <2>3 DEF Callers
<1>4. ASSUME NEW i \in 1..Len(h), h[i].role # "tool" PROVE h[i].call = <<>>
  BY <1>2, <1>4 DEF Proper
<1>5. ASSUME NEW j \in 1..Len(h), NEW k \in 1..Len(h), j < k
      PROVE  /\ h[j].by # h[k].by \/ h[j].at # h[k].at
             /\ Answers(h[k], h[j]) => \A i \in (j + 1)..k : h[i].role = "tool"
  <2> DEFINE J == p(j)
             K == p(k)
  <2>1. /\ J \in 1..Len(msgs) /\ K \in 1..Len(msgs) /\ J < K
        /\ h[j] = msgs[J] /\ h[k] = msgs[K]
    <3>1. J \in 1..Len(msgs) /\ h[j] = msgs[J] /\ j \in Nat
      BY <1>2
    <3>2. K \in 1..Len(msgs) /\ h[k] = msgs[K] /\ k \in Nat
      BY <1>2
    <3>3. a \in Nat /\ j < k
      BY <1>5
    <3>4. J < K
      BY <3>1, <3>2, <3>3
    <3> QED BY <3>1, <3>2, <3>4
  <2> HIDE DEF J, K
  <2>2. h[j].by # h[k].by \/ h[j].at # h[k].at
    BY <2>1, ProperPair
  <2>3. ASSUME Answers(h[k], h[j]), NEW i \in (j + 1)..k PROVE h[i].role = "tool"
    <3>1. i \in 1..Len(h) /\ p(i) \in (J + 1)..K
      BY <1>1, <1>2, <2>3 DEF J, K
    <3>2. msgs[p(i)].role = "tool"
      BY <2>1, <2>3, <3>1, ProperPair
    <3> QED BY <1>2, <3>1, <3>2
  <2> QED BY <2>2, <2>3
<1> QED BY <1>3, <1>4, <1>5 DEF Proper, h

(* A run's next message keeps its conversation in order.                   *)
LEMMA AppendProper ==
  ASSUME NEW msgs \in Seq(Message), Proper(msgs),
         NEW role \in {"user", "assistant", "tool"}, NEW calls, NEW by,
         role = "tool" => msgs # <<>>,
         \A i \in 1..Len(msgs) : msgs[i].by = by => msgs[i].at = i
  PROVE  Proper(Append(msgs, NewMessage(role, calls, msgs, by)))
<1> DEFINE m == NewMessage(role, calls, msgs, by)
           n == Len(msgs)
           new == Append(msgs, m)
<1>1. /\ m.by = by /\ m.at = n + 1 /\ m.role = role
      /\ role = "tool" => m.call = <<msgs[n].by, msgs[n].at>>
      /\ role # "tool" => m.call = <<>>
  BY DEF NewMessage, Last
<1>2. /\ n \in Nat /\ Len(new) = n + 1
      /\ \A i \in 1..n : new[i] = msgs[i]
      /\ new[n + 1] = m
      /\ role = "tool" => n \in 1..n
  BY DEF NewMessage
<1> HIDE DEF m, new
<1>3. ASSUME NEW i \in 1..Len(new), new[i].role = "tool" PROVE Callers(new, i) # {}
  <2>1. CASE i \in 1..n
    <3>1. PICK c \in 1..(i - 1) : Answers(msgs[i], msgs[c])
      BY <1>2, <1>3, <2>1, ProperResult
    <3>2. c \in 1..n
      BY <1>2, <2>1, <3>1
    <3> QED BY <1>2, <2>1, <3>1, <3>2 DEF Callers
  <2>2. CASE i = n + 1
    <3>1. n \in 1..(i - 1) /\ Answers(new[i], new[n])
      BY <1>1, <1>2, <1>3, <2>2 DEF Answers
    <3> QED BY <3>1 DEF Callers
  <2> QED BY <1>2, <2>1, <2>2
<1>4. ASSUME NEW i \in 1..Len(new), new[i].role # "tool" PROVE new[i].call = <<>>
  <2>1. CASE i \in 1..n
    BY <1>2, <1>4, <2>1 DEF Proper
  <2>2. CASE i = n + 1
    BY <1>1, <1>2, <1>4, <2>2
  <2> QED BY <1>2, <2>1, <2>2
<1>5. ASSUME NEW j \in 1..Len(new), NEW k \in 1..Len(new), j < k
      PROVE  /\ new[j].by # new[k].by \/ new[j].at # new[k].at
             /\ Answers(new[k], new[j]) => \A i \in (j + 1)..k : new[i].role = "tool"
  <2>1. j \in 1..n /\ new[j] = msgs[j]
    BY <1>2, <1>5
  <2>2. CASE k \in 1..n
    <3>1. new[k] = msgs[k] /\ \A i \in (j + 1)..k : i \in 1..n /\ new[i] = msgs[i]
      BY <1>2, <2>1, <2>2
    <3> QED BY <1>5, <2>1, <2>2, <3>1, ProperPair
  <2>3. CASE k = n + 1
    <3>1. new[j].by # m.by \/ new[j].at # m.at
      BY <1>1, <2>1
    <3>2. ASSUME Answers(m, new[j]) PROVE role = "tool" /\ j = n
      <4>1. role = "tool"
        <5>1. <<new[j].by, new[j].at>> # <<>>
          OBVIOUS
        <5> QED BY <1>1, <3>2, <5>1 DEF Answers
      <4>2. msgs[n].by = msgs[j].by /\ msgs[n].at = msgs[j].at
        BY <1>1, <2>1, <3>2, <4>1 DEF Answers
      <4>3. n \in 1..n
        BY <1>2, <4>1
      <4>4. ~(j < n)
        BY <2>1, <4>2, <4>3, ProperPair
      <4> QED BY <1>2, <2>1, <4>1, <4>4
    <3>3. ASSUME Answers(m, new[j]), NEW i \in (j + 1)..k PROVE new[i].role = "tool"
      <4>1. i = n + 1
        BY <1>2, <2>3, <3>2, <3>3
      <4> QED BY <1>1, <1>2, <3>2, <3>3, <4>1
    <3> QED BY <1>2, <2>3, <3>1, <3>3
  <2> QED BY <1>2, <2>2, <2>3
<1> QED BY <1>3, <1>4, <1>5 DEF Proper, new, m

(* What follows a session's messages answers only itself.                  *)
Follows(s, msgs, n) ==
  \A i \in (n + 1)..Len(msgs) :
    /\ \A j \in 1..Len(s) : s[j].by < msgs[i].by
    /\ msgs[i].role = "tool" => \E c \in (n + 1)..(i - 1) : Answers(msgs[i], msgs[c])

LEMMA JoinProper ==
  ASSUME NEW s \in Seq(Message), NEW msgs \in Seq(Message), NEW n \in 0..Len(msgs),
         Proper(s), Proper(msgs), Follows(s, msgs, n)
  PROVE  Proper(s \o SubSeq(msgs, n + 1, Len(msgs)))
<1> DEFINE l == Len(s)
           new == SubSeq(msgs, n + 1, Len(msgs))
           all == s \o new
           p(i) == i - l + n
<1>1. /\ l \in Nat /\ n \in Nat /\ Len(msgs) \in Nat
      /\ new \in Seq(Message) /\ Len(new) = Len(msgs) - n
      /\ \A i \in 1..Len(new) : new[i] = msgs[n + i]
  <2>1. n + 1 \in 1..(Len(msgs) + 1)
    OBVIOUS
  <2>2. Len(new) = Len(msgs) - (n + 1) + 1 /\ \A i \in 1..Len(new) : new[i] = msgs[n + 1 + i - 1]
    BY <2>1, EndOf
  <2>3. new \in Seq(Message)
    BY <2>1, EndOf
  <2> HIDE DEF new
  <2> QED BY <2>2, <2>3
<1> HIDE DEF new
<1>2. /\ Len(all) = l + Len(new)
      /\ \A i \in 1..l : all[i] = s[i]
      /\ \A i \in (l + 1)..Len(all) : all[i] = new[i - l]
  <2>1. /\ Len(all) = l + Len(new)
        /\ \A i \in 1..Len(all) : all[i] = IF i <= l THEN s[i] ELSE new[i - l]
    <3>1. s \in Seq(Message) /\ new \in Seq(Message)
      BY <1>1
    <3> QED BY <3>1, ConcatProperties
  <2> HIDE DEF all
  <2>2. \A i \in 1..l : all[i] = s[i]
    BY <1>1, <2>1
  <2>3. \A i \in (l + 1)..Len(all) : all[i] = new[i - l]
    BY <1>1, <2>1
  <2> QED BY <2>1, <2>2, <2>3
<1> HIDE DEF all
<1>3. ASSUME NEW i \in (l + 1)..Len(all)
      PROVE  p(i) \in (n + 1)..Len(msgs) /\ all[i] = msgs[p(i)]
  <2>1. i - l \in 1..Len(new) /\ n + (i - l) = p(i)
    BY <1>1, <1>2
  <2> QED BY <1>1, <1>2, <2>1
<1>4. \A i \in 1..Len(all) : i \in 1..l \/ i \in (l + 1)..Len(all)
  BY <1>1, <1>2
<1>5. ASSUME NEW k \in (l + 1)..Len(all), all[k].role = "tool"
      PROVE  \E c \in (l + 1)..(k - 1) : Answers(all[k], all[c])
  <2>1. PICK c \in (n + 1)..(p(k) - 1) : Answers(msgs[p(k)], msgs[c])
    BY <1>3, <1>5 DEF Follows
  <2>2. c - n + l \in (l + 1)..(k - 1) /\ c - n + l \in (l + 1)..Len(all) /\ p(c - n + l) = c
    <3>1. /\ c \in Nat /\ n + 1 <= c /\ c <= p(k) - 1
          /\ k \in Nat /\ l + 1 <= k /\ k <= Len(all) /\ Len(all) \in Nat
      BY <1>1, <1>2, <2>1
    <3> QED BY <1>1, <3>1
  <2>3. all[c - n + l] = msgs[c]
    BY <1>3, <2>2
  <2> QED BY <1>3, <2>1, <2>2, <2>3
<1>6. ASSUME NEW i \in 1..Len(all), all[i].role = "tool" PROVE Callers(all, i) # {}
  <2>1. CASE i \in 1..l
    <3>1. PICK c \in 1..(i - 1) : Answers(s[i], s[c])
      BY <1>2, <1>6, <2>1, ProperResult
    <3>2. c \in 1..l
      BY <1>1, <2>1, <3>1
    <3> QED BY <1>2, <2>1, <3>1, <3>2 DEF Callers
  <2>2. CASE i \in (l + 1)..Len(all)
    <3>1. PICK c \in (l + 1)..(i - 1) : Answers(all[i], all[c])
      BY <1>5, <1>6, <2>2
    <3>2. c \in 1..(i - 1)
      BY <1>1, <3>1
    <3> QED BY <3>1, <3>2 DEF Callers
  <2> QED BY <1>4, <2>1, <2>2
<1>7. ASSUME NEW i \in 1..Len(all), all[i].role # "tool" PROVE all[i].call = <<>>
  <2>1. CASE i \in 1..l
    BY <1>2, <1>7, <2>1 DEF Proper
  <2>2. CASE i \in (l + 1)..Len(all)
    <3>1. p(i) \in 1..Len(msgs) /\ all[i] = msgs[p(i)]
      BY <1>1, <1>3, <2>2
    <3> QED BY <1>7, <3>1 DEF Proper
  <2> QED BY <1>4, <2>1, <2>2
<1>8. ASSUME NEW j \in 1..Len(all), NEW k \in 1..Len(all), j < k
      PROVE  /\ all[j].by # all[k].by \/ all[j].at # all[k].at
             /\ Answers(all[k], all[j]) => \A i \in (j + 1)..k : all[i].role = "tool"
  <2>1. CASE k \in 1..l
    <3>1. /\ j \in 1..l /\ all[j] = s[j] /\ all[k] = s[k]
          /\ \A i \in (j + 1)..k : all[i] = s[i]
      <4>1. j \in 1..l
        BY <1>1, <1>8, <2>1
      <4>2. (j + 1)..k \subseteq 1..l
        BY <1>1, <2>1, <4>1
      <4> QED BY <1>2, <2>1, <4>1, <4>2
    <3> QED BY <1>8, <2>1, <3>1, ProperPair
  <2>2. CASE j \in 1..l /\ k \in (l + 1)..Len(all)
    <3>1. all[j] = s[j]
      BY <1>2, <2>2
    <3>2. \A c \in (l + 1)..Len(all) : all[j].by < all[c].by
      BY <1>3, <2>2, <3>1 DEF Follows
    <3>3. all[j].by \in Nat /\ all[k].by \in Nat
      <4>1. all[j] \in Message
        BY <2>2, <3>1
      <4>2. p(k) \in 1..Len(msgs) /\ all[k] = msgs[p(k)]
        BY <1>1, <1>3, <2>2
      <4>3. all[k] \in Message
        BY <4>2
      <4> QED BY <4>1, <4>3 DEF Message
    <3>4. ASSUME Answers(all[k], all[j]) PROVE FALSE
      <4>1. all[k].role = "tool"
        <5>1. p(k) \in 1..Len(msgs) /\ all[k] = msgs[p(k)]
          BY <1>1, <1>3, <2>2
        <5> QED BY <3>4, <5>1, AnswersIsTool
      <4>2. PICK c \in (l + 1)..(k - 1) : Answers(all[k], all[c])
        BY <1>5, <2>2, <4>1
      <4>3. all[j].by = all[c].by
        BY <3>4, <4>2 DEF Answers
      <4>4. c \in (l + 1)..Len(all)
        BY <1>1, <1>2, <2>2, <4>2
      <4> QED BY <3>2, <3>3, <4>3, <4>4
    <3> QED BY <2>2, <3>2, <3>3, <3>4
  <2>3. CASE j \in (l + 1)..Len(all) /\ k \in (l + 1)..Len(all)
    <3> DEFINE J == p(j)
               K == p(k)
    <3>1. /\ J \in 1..Len(msgs) /\ K \in 1..Len(msgs) /\ J < K
          /\ all[j] = msgs[J] /\ all[k] = msgs[K]
      BY <1>1, <1>3, <1>8, <2>3
    <3> HIDE DEF J, K
    <3>2. all[j].by # all[k].by \/ all[j].at # all[k].at
      <4>1. msgs[J].by # msgs[K].by \/ msgs[J].at # msgs[K].at
        BY <3>1, ProperPair
      <4> QED BY <3>1, <4>1
    <3>3. ASSUME Answers(all[k], all[j]), NEW i \in (j + 1)..k PROVE all[i].role = "tool"
      <4>1. i \in (l + 1)..Len(all) /\ p(i) \in (J + 1)..K
        BY <1>1, <1>2, <2>3, <3>3 DEF J, K
      <4>2. msgs[p(i)].role = "tool"
        BY <3>1, <3>3, <4>1, ProperPair
      <4> QED BY <1>3, <4>1, <4>2
    <3> QED BY <3>2, <3>3
  <2> QED BY <1>1, <1>4, <1>8, <2>1, <2>2, <2>3
<1> QED BY <1>6, <1>7, <1>8 DEF Proper, all, new

(* A run, or a checkpoint of one, continues a session: it begins with the  *)
(* history it was given, and its own messages are later than the session's *)
(* and answer one another.                                                 *)
Continues(conv, msgs, now) ==
  LET held == Len(GetHistorySafe(conv)) IN
  /\ held < Len(msgs) /\ Proper(msgs) /\ Follows(conv, msgs, held)
  /\ \A i \in 1..held : \E j \in 1..Len(conv) : msgs[i] = conv[j]
  /\ \A i \in 1..Len(msgs) : msgs[i].by <= now

Latest(msgs, now) == \A i \in 1..Len(msgs) : msgs[i].by = now => msgs[i].at = i

SessionsProper ==
  \A s \in Sessions : Proper(session[s]) /\ \A j \in 1..Len(session[s]) : session[s][j].by <= cur

RunContinues ==
  mpc \in {"next", "reading", "done"} =>
    /\ historyLen = Len(GetHistorySafe(session[sess]))
    /\ Continues(session[sess], allMsgs, cur) /\ Latest(allMsgs, cur)
    /\ \A j \in 1..Len(session[sess]) : session[sess][j].by < cur
    /\ \A a \in Agents : checkPoints[a][sess] = <<>>

StoredContinues ==
  \A a \in Agents, s \in Sessions :
    checkPoints[a][s] # <<>> => Continues(session[s], checkPoints[a][s], cur)

KeepInv == SessionsProper /\ RunContinues /\ StoredContinues

LEMMA HeldType ==
  ASSUME NEW conv \in Seq(Message)
  PROVE  Len(GetHistorySafe(conv)) \in Nat
BY HistoryIsSuffix

LEMMA MessageBy ==
  ASSUME NEW m \in Message
  PROVE  m.by \in Nat
BY AgentAssumption DEF Message

LEMMA ContinuesLonger ==
  ASSUME NEW conv \in Seq(Message), NEW msgs \in Seq(Message), NEW now \in Nat,
         Continues(conv, msgs, now)
  PROVE  Continues(conv, msgs, now + 1)
<1>1. \A i \in 1..Len(msgs) : msgs[i].by \in Nat
  BY MessageBy
<1> QED BY <1>1 DEF Continues

(* After /clear all of a checkpoint is new.                                *)
LEMMA ContinuesCleared ==
  ASSUME NEW conv, NEW msgs \in Seq(Message), NEW now, msgs # <<>>, Continues(conv, msgs, now)
  PROVE  Continues(<<>>, msgs, now)
<1>1. GetHistorySafe(<<>>) = <<>> /\ Len(<<>>) = 0
  BY AgentAssumption DEF GetHistorySafe
<1>2. 0 < Len(msgs) /\ Proper(msgs) /\ \A i \in 1..Len(msgs) : msgs[i].by <= now
  BY DEF Continues
<1>3. Follows(<<>>, msgs, 0)
  BY <1>1, <1>2, ProperResult DEF Follows
<1> QED BY <1>1, <1>2, <1>3 DEF Continues

LEMMA ContinuesNext ==
  ASSUME NEW conv \in Seq(Message), NEW msgs \in Seq(Message), NEW now \in 0..MaxRequests,
         Continues(conv, msgs, now), Latest(msgs, now),
         \A j \in 1..Len(conv) : conv[j].by < now,
         NEW role \in {"user", "assistant", "tool"}, NEW calls \in Nat
  PROVE  LET next == Append(msgs, NewMessage(role, calls, msgs, now)) IN
         next \in Seq(Message) /\ Continues(conv, next, now) /\ Latest(next, now)
<1> DEFINE m == NewMessage(role, calls, msgs, now)
           n == Len(msgs)
           next == Append(msgs, m)
           held == Len(GetHistorySafe(conv))
<1>1. held \in Nat /\ n \in Nat /\ held < n /\ now \in Nat
  BY HeldType, AgentAssumption DEF Continues
<1>2. m \in Message /\ m.by = now /\ m.at = n + 1 /\ m.role = role
      /\ (role = "tool" => m.call = <<msgs[n].by, msgs[n].at>>)
  <2>1. m \in Message
    <3>1. msgs # <<>>
      BY <1>1
    <3> QED BY <3>1, NewMessageType
  <2> QED BY <2>1 DEF NewMessage, Last
<1>3. Proper(next)
  BY <1>1, AppendProper DEF Latest, Continues
<1> HIDE DEF m
<1>4. /\ next \in Seq(Message) /\ Len(next) = n + 1
      /\ \A i \in 1..n : next[i] = msgs[i]
      /\ next[n + 1] = m
  BY <1>1, <1>2
<1> HIDE DEF next
<1>5. \A i \in 1..Len(next) : i \in 1..n \/ i = n + 1
  BY <1>1, <1>4
<1>6. ASSUME NEW i \in (held + 1)..Len(next)
      PROVE  /\ \A j \in 1..Len(conv) : conv[j].by < next[i].by
             /\ next[i].role = "tool" => \E c \in (held + 1)..(i - 1) : Answers(next[i], next[c])
  <2>1. CASE i = n + 1
    <3>1. n \in (held + 1)..(i - 1) /\ n \in 1..n
      BY <1>1, <2>1
    <3> QED BY <1>2, <1>4, <2>1, <3>1 DEF Answers
  <2>2. CASE i # n + 1
    <3>1. i \in (held + 1)..n /\ i \in 1..n
      BY <1>1, <1>4, <2>2
    <3>2. \A j \in 1..Len(conv) : conv[j].by < next[i].by
      BY <1>4, <3>1 DEF Continues, Follows
    <3>3. ASSUME next[i].role = "tool"
          PROVE  \E c \in (held + 1)..(i - 1) : Answers(next[i], next[c])
      <4>1. PICK c \in (held + 1)..(i - 1) : Answers(msgs[i], msgs[c])
        BY <1>4, <3>1, <3>3 DEF Continues, Follows
      <4>2. c \in 1..n
        BY <1>1, <3>1, <4>1
      <4> QED BY <1>4, <3>1, <4>1, <4>2
    <3> QED BY <3>2, <3>3
  <2> QED BY <2>1, <2>2
<1>7. \A i \in 1..held : \E j \in 1..Len(conv) : next[i] = conv[j]
  <2>1. \A i \in 1..held : i \in 1..n
    BY <1>1
  <2> QED BY <1>4, <2>1 DEF Continues
<1>8. ASSUME NEW i \in 1..Len(next) PROVE next[i].by <= now
  <2>1. CASE i \in 1..n
    BY <1>4, <2>1 DEF Continues
  <2>2. CASE i = n + 1
    BY <1>1, <1>2, <1>4, <2>2
  <2> QED BY <1>5, <2>1, <2>2
<1>9. Latest(next, now)
  BY <1>2, <1>4, <1>5 DEF Latest
<1>10. Continues(conv, next, now)
  <2>1. held < Len(next)
    BY <1>1, <1>4
  <2> QED BY <1>3, <1>6, <1>7, <1>8, <2>1 DEF Continues, Follows
<1> QED BY <1>4, <1>9, <1>10 DEF next, m

(* A new run.                                                              *)
LEMMA ContinuesPrompt ==
  ASSUME NEW conv \in Seq(Message), Proper(conv), NEW now \in 1..MaxRequests,
         \A j \in 1..Len(conv) : conv[j].by < now
  PROVE  LET h == GetHistorySafe(conv)
             msgs == Append(h, NewMessage("user", 0, h, now))
         IN Continues(conv, msgs, now) /\ Latest(msgs, now)
<1> DEFINE h == GetHistorySafe(conv)
           m == NewMessage("user", 0, h, now)
           msgs == Append(h, m)
<1>1. PICK a \in 1..(Len(conv) + 1) : h = SubSeq(conv, a, Len(conv)) /\ Apart(conv, a)
  BY HistoryApart
<1>2. /\ h \in Seq(Message) /\ Len(h) = Len(conv) - a + 1
      /\ \A i \in 1..Len(h) : h[i] = conv[a + i - 1]
  <2> HIDE DEF h
  <2> QED BY <1>1, EndOf
<1>3. Proper(h)
  BY <1>1, EndProper
<1> HIDE DEF h
<1>4. \A i \in 1..Len(h) : \E j \in 1..Len(conv) : h[i] = conv[j]
  <2>1. ASSUME NEW i \in 1..Len(h) PROVE \E j \in 1..Len(conv) : h[i] = conv[j]
    <3>1. a + i - 1 \in 1..Len(conv)
      BY <1>2
    <3> QED BY <1>2, <3>1
  <2> QED BY <2>1
<1>5. ASSUME NEW i \in 1..Len(h) PROVE h[i].by < now /\ h[i].by \in Nat
  <2>1. h[i] \in Message
    BY <1>2
  <2>2. h[i].by \in Nat
    BY <2>1, AgentAssumption DEF Message
  <2> QED BY <1>4, <2>2
<1>6. m \in Message /\ m.by = now /\ m.at = Len(h) + 1 /\ m.role = "user"
  <2>1. now \in 0..MaxRequests
    BY AgentAssumption
  <2>2. m \in Message
    BY <1>2, <2>1, NewMessageType
  <2> QED BY <2>2 DEF NewMessage
<1>7. Proper(msgs)
  BY <1>2, <1>3, <1>5, AppendProper
<1> HIDE DEF m
<1>8. /\ Len(h) \in Nat /\ Len(msgs) = Len(h) + 1
      /\ \A i \in 1..Len(h) : msgs[i] = h[i]
      /\ msgs[Len(h) + 1] = m
  <2>1. h \in Seq(Message)
    BY <1>2
  <2> QED BY <1>6, <2>1
<1> HIDE DEF msgs
<1>9. \A i \in 1..Len(msgs) : i \in 1..Len(h) \/ i = Len(h) + 1
  BY <1>8
<1>10. ASSUME NEW i \in 1..Len(msgs)
       PROVE  msgs[i].by <= now /\ (msgs[i].by = now => msgs[i].at = i)
  <2>1. CASE i \in 1..Len(h)
    BY <1>5, <1>8, <2>1
  <2>2. CASE i = Len(h) + 1
    BY <1>6, <1>8, <2>2
  <2> QED BY <1>9, <2>1, <2>2
<1>11. Follows(conv, msgs, Len(h))
  <2>1. \A i \in (Len(h) + 1)..Len(msgs) : i = Len(h) + 1
    BY <1>8
  <2> QED BY <1>6, <1>8, <2>1 DEF Follows
<1>12. \A i \in 1..Len(h) : \E j \in 1..Len(conv) : msgs[i] = conv[j]
  BY <1>4, <1>8
<1>13. Len(h) < Len(msgs)
  BY <1>8
<1>14. Continues(conv, msgs, now)
  BY <1>7, <1>10, <1>11, <1>12, <1>13 DEF Continues, h
<1>15. Latest(msgs, now)
  BY <1>10 DEF Latest
<1> QED BY <1>14, <1>15 DEF msgs, m, h

(* The steps that change a run, its checkpoints or its session.            *)
LEMMA KeepSteps ==
  ASSUME [Next]_vars
  PROVE  \/ \E s \in Sessions : RouteCommand(s)
         \/ \E a \in Agents, s \in Sessions : Prompt(a, s) \/ Resume(a, s)
         \/ FinishOutput \/ MaxIterations \/ RunInterrupted \/ SaveSession
         \/ /\ UNCHANGED <<checkPoints, session>> /\ cur' \in {cur, cur + 1}
            /\ \/ mpc' \notin {"next", "reading", "done"}
               \/ /\ mpc \in {"next", "reading", "done"}
                  /\ UNCHANGED <<cur, sess, historyLen, allMsgs>>
            /\ ~(mpc = "done" /\ mpc' = "saved")
            /\ ~(mpc = "consume" /\ mpc' = "next")
<1> DEFINE Other == /\ UNCHANGED <<checkPoints, session>> /\ cur' \in {cur, cur + 1}
                    /\ \/ mpc' \notin {"next", "reading", "done"}
                       \/ /\ mpc \in {"next", "reading", "done"}
                          /\ UNCHANGED <<cur, sess, historyLen, allMsgs>>
                    /\ ~(mpc = "done" /\ mpc' = "saved")
                    /\ ~(mpc = "consume" /\ mpc' = "next")
<1>1. CASE RunStep /\ ~(FinishOutput \/ MaxIterations \/ RunInterrupted)
  BY <1>1 DEF RunStep, NextOutput, ReadChunk, ReadFails, RunEnds, RunFails, runVars, storeVars
<1>2. CASE Poll \/ ConsumeCancelled \/ RouteFails
  BY <1>2 DEF Poll, ConsumeCancelled, RouteFails, storeVars, runVars
<1>3. CASE ReplyInterrupt \/ ReplyError \/ Reply \/ UnregisterCallback
  BY <1>3 DEF ReplyInterrupt, ReplyError, Reply, UnregisterCallback, storeVars, runVars
<1>4. CASE \/ \E a \in Agents : TakeEvent(a) \/ CallBack(a) \/ LoopExits(a)
           \/ Cancel \/ StopAgents \/ UNCHANGED vars
  <2>1. UNCHANGED <<mpc, cur, runVars, storeVars>>
    BY <1>4 DEF TakeEvent, CallBack, LoopExits, Cancel, StopAgents, vars
  <2> QED BY <2>1 DEF runVars, storeVars
<1> QED BY <1>1, <1>2, <1>3, <1>4, AgentSteps

(* What a save leaves.                                                     *)
LEMMA SaveProper ==
  ASSUME TypeOK, SessionsProper, RunContinues, SaveSession
  PROVE  LET new == SubSeq(allMsgs, historyLen + 1, Len(allMsgs)) IN
         /\ Proper(session[sess] \o new)
         /\ \A j \in 1..Len(session[sess] \o new) : (session[sess] \o new)[j].by <= cur
         /\ session' = [session EXCEPT ![sess] = session[sess] \o new]
<1> DEFINE conv == session[sess]
           new == SubSeq(allMsgs, historyLen + 1, Len(allMsgs))
<1>1. /\ conv \in Seq(Message) /\ allMsgs \in Seq(Message) /\ sess \in Sessions
      /\ historyLen = Len(GetHistorySafe(conv)) /\ Continues(conv, allMsgs, cur)
  BY DEF TypeOK, RunOK, MessagesOK, StoreOK, SaveSession, RunContinues
<1>2. historyLen \in 0..Len(allMsgs) /\ historyLen + 1 \in 1..(Len(allMsgs) + 1)
  BY <1>1, HeldType DEF Continues
<1>3. Proper(conv \o new)
  BY <1>1, <1>2, JoinProper DEF SessionsProper, Continues
<1>4. \A j \in 1..Len(new) : \E i \in 1..Len(allMsgs) : new[j] = allMsgs[i]
  <2>1. /\ Len(new) = Len(allMsgs) - (historyLen + 1) + 1
        /\ \A j \in 1..Len(new) : new[j] = allMsgs[historyLen + 1 + j - 1]
    BY <1>1, <1>2, EndOf
  <2> HIDE DEF new
  <2>2. ASSUME NEW j \in 1..Len(new) PROVE \E i \in 1..Len(allMsgs) : new[j] = allMsgs[i]
    <3>1. historyLen + 1 + j - 1 \in 1..Len(allMsgs)
      BY <1>1, <1>2, <2>1
    <3> QED BY <2>1, <3>1
  <2> QED BY <2>2
<1>5. \A j \in 1..Len(new) : new[j].by <= cur
  <2> HIDE DEF new
  <2> QED BY <1>1, <1>4 DEF Continues
<1>6. new \in Seq(Message)
  BY <1>1, <1>2, EndOf
<1> HIDE DEF new
<1>7. ASSUME NEW j \in 1..Len(conv \o new) PROVE (conv \o new)[j].by <= cur
  <2>1. (conv \o new)[j] = IF j <= Len(conv) THEN conv[j] ELSE new[j - Len(conv)]
    BY <1>1, <1>6, ConcatProperties
  <2>2. CASE j <= Len(conv)
    BY <1>1, <2>1, <2>2 DEF SessionsProper
  <2>3. CASE ~(j <= Len(conv))
    <3>1. j - Len(conv) \in 1..Len(new)
      BY <1>1, <1>6, <2>3
    <3> QED BY <1>5, <2>1, <2>3, <3>1
  <2> QED BY <2>2, <2>3
<1>8. session' = [session EXCEPT ![sess] = conv \o new]
  BY DEF SaveSession, new
<1> QED BY <1>3, <1>7, <1>8 DEF new

LEMMA EmptyProper == Proper(<<>>)
BY DEF Proper

LEMMA SessionsProperStep ==
  ASSUME TypeOK, SessionsProper, RunContinues, [Next]_vars
  PROVE  SessionsProper'
<1>1. \A s \in Sessions : \A j \in 1..Len(session[s]) : session[s][j].by \in Nat
  BY MessageBy DEF TypeOK, StoreOK
<1>2. CASE session' = session /\ cur' \in {cur, cur + 1}
  <2>1. cur \in Nat
    BY AgentAssumption DEF TypeOK, ManagerOK
  <2> QED BY <1>1, <1>2, <2>1 DEF SessionsProper
<1>3. ASSUME NEW s \in Sessions, RouteCommand(s) PROVE SessionsProper'
  <2>1. session' = [session EXCEPT ![s] = <<>>] /\ cur' = cur + 1 /\ cur \in Nat
    BY <1>3, AgentAssumption DEF RouteCommand, TypeOK, ManagerOK
  <2>2. ASSUME NEW t \in Sessions
        PROVE  Proper(session'[t]) /\ \A j \in 1..Len(session'[t]) : session'[t][j].by <= cur + 1
    <3>1. CASE t = s
      BY <2>1, <3>1, EmptyProper DEF TypeOK, StoreOK
    <3>2. CASE t # s
      BY <1>1, <2>1, <3>2 DEF SessionsProper, TypeOK, StoreOK
    <3> QED BY <3>1, <3>2
  <2> QED BY <2>1, <2>2 DEF SessionsProper
<1>4. CASE SaveSession
  <2> DEFINE new == SubSeq(allMsgs, historyLen + 1, Len(allMsgs))
             saved == session[sess] \o new
  <2>1. /\ session' = [session EXCEPT ![sess] = saved] /\ cur' = cur
        /\ Proper(saved) /\ \A j \in 1..Len(saved) : saved[j].by <= cur
    BY <1>4, SaveProper DEF SaveSession
  <2> HIDE DEF saved
  <2>2. ASSUME NEW t \in Sessions
        PROVE  Proper(session'[t]) /\ \A j \in 1..Len(session'[t]) : session'[t][j].by <= cur
    <3>1. CASE t = sess
      BY <2>1, <3>1 DEF TypeOK, StoreOK
    <3>2. CASE t # sess
      BY <2>1, <3>2 DEF SessionsProper, TypeOK, StoreOK
    <3> QED BY <3>1, <3>2
  <2> QED BY <2>1, <2>2 DEF SessionsProper
<1>5. CASE \/ FinishOutput \/ MaxIterations \/ RunInterrupted
           \/ \E a \in Agents, s \in Sessions : Prompt(a, s) \/ Resume(a, s)
  BY <1>2, <1>5 DEF FinishOutput, MaxIterations, RunInterrupted, Prompt, Resume, Accept, storeVars
<1> QED BY <1>2, <1>3, <1>4, <1>5, KeepSteps

LEMMA RunContinuesStep ==
  ASSUME SingleAgent, TypeOK, KeepInv, [Next]_vars
  PROVE  RunContinues'
<1>0. SessionsProper /\ RunContinues /\ StoredContinues /\ cur \in 0..MaxRequests
  BY DEF KeepInv, TypeOK, ManagerOK
<1>1. ASSUME NEW a \in Agents, NEW s \in Sessions, Prompt(a, s) \/ Resume(a, s)
      PROVE  RunContinues'
  <2>1. /\ cur' = cur + 1 /\ sess' = s /\ session' = session
        /\ historyLen' = Len(GetHistorySafe(session[s])) /\ cur < MaxRequests
    BY <1>1 DEF Prompt, Resume, Accept, storeVars
  <2>2. /\ session[s] \in Seq(Message) /\ cur + 1 \in 1..MaxRequests /\ cur \in Nat
        /\ \A j \in 1..Len(session[s]) : session[s][j].by < cur + 1
    <3>1. session[s] \in Seq(Message) /\ \A j \in 1..Len(session[s]) : session[s][j].by \in Nat
      BY MessageBy DEF TypeOK, StoreOK
    <3>2. cur \in Nat /\ cur + 1 \in 1..MaxRequests
      BY <1>0, <2>1, AgentAssumption
    <3> QED BY <1>0, <3>1, <3>2 DEF SessionsProper
  <2>3. Continues(session[s], allMsgs', cur + 1) /\ Latest(allMsgs', cur + 1)
    <3>1. CASE Prompt(a, s)
      <4>1. LET h == GetHistorySafe(session[s])
            IN  allMsgs' = Append(h, NewMessage("user", 0, h, cur + 1))
        BY <3>1 DEF Prompt
      <4>2. Proper(session[s])
        BY <1>0 DEF SessionsProper
      <4> QED BY <2>2, <4>1, <4>2, ContinuesPrompt
    <3>2. CASE Resume(a, s)
      <4>1. allMsgs' = checkPoints[a][s] /\ checkPoints[a][s] # <<>>
        BY <3>2 DEF Resume
      <4>2. checkPoints[a][s] \in Seq(Message)
        BY DEF TypeOK, StoreOK
      <4>3. Continues(session[s], checkPoints[a][s], cur)
        BY <1>0, <4>1 DEF StoredContinues
      <4>4. Continues(session[s], checkPoints[a][s], cur + 1)
        BY <2>2, <4>2, <4>3, ContinuesLonger
      <4>5. ASSUME NEW i \in 1..Len(checkPoints[a][s]) PROVE checkPoints[a][s][i].by # cur + 1
        <5>1. checkPoints[a][s][i].by <= cur /\ checkPoints[a][s][i].by \in Nat
          BY <4>2, <4>3, MessageBy DEF Continues
        <5> QED BY <2>2, <5>1
      <4> QED BY <4>1, <4>4, <4>5 DEF Latest
    <3> QED BY <1>1, <3>1, <3>2
  <2>4. \A b \in Agents : checkPoints'[b][s] = <<>>
    <3>1. checkPoints'[a][s] = <<>>
      BY <1>1 DEF Prompt, Resume, TypeOK, StoreOK, storeVars
    <3> QED BY <3>1 DEF SingleAgent
  <2> QED BY <2>1, <2>2, <2>3, <2>4 DEF RunContinues
<1>2. CASE FinishOutput
  <2> DEFINE role == IF reading = "tool" THEN "tool" ELSE "assistant"
             calls == IF reading = "call" THEN 1 ELSE 0
  <2>1. /\ allMsgs' = Append(allMsgs, NewMessage(role, calls, allMsgs, cur))
        /\ mpc = "reading"
        /\ UNCHANGED <<cur, sess, historyLen, checkPoints, session>>
    BY <1>2 DEF FinishOutput, storeVars
  <2>2. session[sess] \in Seq(Message) /\ allMsgs \in Seq(Message)
    BY DEF TypeOK, RunOK, StoreOK, MessagesOK
  <2>3. role \in {"user", "assistant", "tool"} /\ calls \in Nat
    OBVIOUS
  <2> HIDE DEF role, calls
  <2>4. Continues(session[sess], allMsgs', cur) /\ Latest(allMsgs', cur)
    BY <1>0, <2>1, <2>2, <2>3, ContinuesNext DEF RunContinues
  <2> QED BY <1>0, <2>1, <2>4 DEF RunContinues
<1>3. CASE MaxIterations
  <2> DEFINE notice == Append(allMsgs, NewMessage("user", 0, allMsgs, cur))
  <2>1. /\ allMsgs' = Append(notice, NewMessage("assistant", 0, notice, cur))
        /\ mpc = "next"
        /\ UNCHANGED <<cur, sess, historyLen, checkPoints, session>>
    BY <1>3 DEF MaxIterations, storeVars
  <2>2. session[sess] \in Seq(Message) /\ allMsgs \in Seq(Message)
    BY DEF TypeOK, RunOK, StoreOK, MessagesOK
  <2>3. notice \in Seq(Message) /\ Continues(session[sess], notice, cur) /\ Latest(notice, cur)
    BY <1>0, <2>1, <2>2, ContinuesNext DEF RunContinues
  <2> HIDE DEF notice
  <2>4. Continues(session[sess], allMsgs', cur) /\ Latest(allMsgs', cur)
    BY <1>0, <2>1, <2>2, <2>3, ContinuesNext DEF RunContinues
  <2> QED BY <1>0, <2>1, <2>4 DEF RunContinues
<1>4. CASE mpc' \notin {"next", "reading", "done"}
  BY <1>4 DEF RunContinues
<1>5. CASE /\ mpc \in {"next", "reading", "done"}
           /\ UNCHANGED <<cur, sess, historyLen, allMsgs, checkPoints, session>>
  BY <1>0, <1>5 DEF RunContinues
<1>6. CASE RunInterrupted \/ SaveSession \/ \E s \in Sessions : RouteCommand(s)
  BY <1>4, <1>6 DEF RunInterrupted, SaveSession, RouteCommand
<1> QED BY <1>1, <1>2, <1>3, <1>4, <1>5, <1>6, KeepSteps

LEMMA StoredContinuesStep ==
  ASSUME TypeOK, KeepInv, [Next]_vars
  PROVE  StoredContinues'
<1>0. RunContinues /\ StoredContinues /\ cur \in Nat
  BY AgentAssumption DEF KeepInv, TypeOK, ManagerOK
<1> SUFFICES ASSUME NEW a \in Agents, NEW s \in Sessions, checkPoints'[a][s] # <<>>
             PROVE  Continues(session'[s], checkPoints'[a][s], cur')
  BY DEF StoredContinues
<1>1. session[s] \in Seq(Message) /\ checkPoints[a][s] \in Seq(Message)
  BY DEF TypeOK, StoreOK
<1>2. CASE /\ checkPoints'[a][s] = checkPoints[a][s] /\ session'[s] = session[s]
           /\ cur' \in {cur, cur + 1}
  BY <1>0, <1>1, <1>2, ContinuesLonger DEF StoredContinues
<1>3. ASSUME NEW t \in Sessions, RouteCommand(t)
      PROVE  Continues(session'[s], checkPoints'[a][s], cur')
  <2>1. session' = [session EXCEPT ![t] = <<>>] /\ checkPoints' = checkPoints /\ cur' = cur + 1
    BY <1>3 DEF RouteCommand
  <2>2. CASE s = t
    <3>1. Continues(session[s], checkPoints[a][s], cur + 1)
      BY <1>0, <1>1, <2>1, ContinuesLonger DEF StoredContinues
    <3>2. Continues(<<>>, checkPoints[a][s], cur + 1)
      BY <1>1, <2>1, <3>1, ContinuesCleared
    <3> QED BY <2>1, <2>2, <3>2 DEF TypeOK, StoreOK
  <2>3. CASE s # t
    BY <1>2, <2>1, <2>3 DEF TypeOK, StoreOK
  <2> QED BY <2>2, <2>3
<1>4. ASSUME NEW b \in Agents, NEW t \in Sessions, Prompt(b, t) \/ Resume(b, t)
      PROVE  Continues(session'[s], checkPoints'[a][s], cur')
  <2>1. session' = session /\ cur' = cur + 1
    BY <1>4 DEF Prompt, Resume, Accept, storeVars
  <2>2. checkPoints'[a][s] = checkPoints[a][s] \/ checkPoints'[a][s] = <<>>
    BY <1>4 DEF Prompt, Resume, storeVars, TypeOK, StoreOK
  <2> QED BY <1>2, <2>1, <2>2
<1>5. CASE RunInterrupted
  <2>1. /\ checkPoints' = [checkPoints EXCEPT ![agent][sess] = allMsgs]
        /\ session' = session /\ cur' = cur /\ mpc = "next"
    BY <1>5 DEF RunInterrupted
  <2>2. CASE a = agent /\ s = sess
    <3>1. checkPoints'[a][s] = allMsgs
      BY <2>1, <2>2 DEF TypeOK, StoreOK
    <3> QED BY <1>0, <2>1, <2>2, <3>1 DEF RunContinues
  <2>3. CASE ~(a = agent /\ s = sess)
    <3>1. checkPoints'[a][s] = checkPoints[a][s]
      BY <2>1, <2>3 DEF TypeOK, StoreOK
    <3> QED BY <1>2, <2>1, <3>1
  <2> QED BY <2>2, <2>3
<1>6. CASE SaveSession
  <2>1. /\ session' = [session EXCEPT ![sess] =
                         session[sess] \o SubSeq(allMsgs, historyLen + 1, Len(allMsgs))]
        /\ checkPoints' = checkPoints /\ cur' = cur /\ mpc = "done"
    BY <1>6 DEF SaveSession
  <2>2. s # sess
    BY <1>0, <2>1 DEF RunContinues
  <2> QED BY <1>2, <2>1, <2>2 DEF TypeOK, StoreOK
<1>7. CASE FinishOutput \/ MaxIterations
  BY <1>2, <1>7 DEF FinishOutput, MaxIterations, storeVars
<1> QED BY <1>2, <1>3, <1>4, <1>5, <1>6, <1>7, KeepSteps

LEMMA KeepInit ==
  ASSUME ProperStart, Init
  PROVE  KeepInv
<1>1. SessionsProper
  BY DEF Init, ProperStart, SessionsProper
<1>2. RunContinues /\ StoredContinues
  BY DEF Init, RunContinues, StoredContinues
<1> QED BY <1>1, <1>2 DEF KeepInv

(* The two halves of SessionKeepsNew.                                      *)
LEMMA SaveStep ==
  ASSUME TypeOK, KeepInv, [Next]_vars
  PROVE  SaveKeepsNew
<1> SUFFICES ASSUME mpc = "done", mpc' = "saved" PROVE SaveKeepsNew
  BY DEF SaveKeepsNew
<1>1. SaveSession
  BY KeepSteps DEF RouteCommand, Prompt, Resume, Accept, FinishOutput, MaxIterations,
    RunInterrupted
<1>2. /\ session[sess] \in Seq(Message) /\ allMsgs \in Seq(Message) /\ sess \in Sessions
      /\ historyLen = Len(GetHistorySafe(session[sess]))
      /\ Continues(session[sess], allMsgs, cur)
  BY DEF KeepInv, TypeOK, RunOK, MessagesOK, StoreOK, RunContinues
<1>3. historyLen \in 0..Len(allMsgs)
  BY <1>2, HeldType DEF Continues
<1>4. session'[sess] = session[sess] \o SubSeq(allMsgs, historyLen + 1, Len(allMsgs))
  BY <1>1 DEF SaveSession, TypeOK, RunOK, StoreOK
<1>5. ASSUME NEW i \in 1..Len(allMsgs), i <= historyLen PROVE Contains(session[sess], allMsgs[i])
  BY <1>2, <1>3, <1>5 DEF Continues, Contains
<1>6. ASSUME NEW i \in 1..Len(allMsgs), ~(i <= historyLen)
      PROVE  ~Contains(session[sess], allMsgs[i])
  <2>1. i \in (historyLen + 1)..Len(allMsgs)
    BY <1>3, <1>6
  <2>2. \A j \in 1..Len(session[sess]) : session[sess][j].by < allMsgs[i].by
    BY <1>2, <2>1 DEF Continues, Follows
  <2>3. \A j \in 1..Len(session[sess]) : session[sess][j].by \in Nat
    BY <1>2, MessageBy
  <2>4. \A j \in 1..Len(session[sess]) : session[sess][j] # allMsgs[i]
    BY <2>2, <2>3
  <2> QED BY <2>4 DEF Contains
<1> QED BY <1>3, <1>4, <1>5, <1>6 DEF SaveKeepsNew

LEMMA WholeStep ==
  ASSUME TypeOK, KeepInv, [Next]_vars
  PROVE  RunSeesWhole
<1> SUFFICES ASSUME mpc = "consume", mpc' = "next", ~resumed' PROVE RunSeesWhole
  BY DEF RunSeesWhole
<1>1. PICK a \in Agents, s \in Sessions : Prompt(a, s)
  BY KeepSteps DEF RouteCommand, Resume, FinishOutput, MaxIterations, RunInterrupted, SaveSession
<1> DEFINE all == session[s]
           h == GetHistorySafe(all)
<1>2. all \in Seq(Message) /\ Proper(all) /\ session[sess'] = all
  BY <1>1 DEF Prompt, Accept, TypeOK, StoreOK, KeepInv, SessionsProper
<1>3. PICK b \in 1..(Len(all) + 1) :
        /\ h = SubSeq(all, b, Len(all)) /\ Apart(all, b)
        /\ b # 1 => Len(all) - b + 1 >= MaxHistory
  BY <1>2, HistoryApart
<1>4. /\ h \in Seq(Message) /\ Len(h) = Len(all) - b + 1
      /\ \A i \in 1..Len(h) : h[i] = all[b + i - 1]
  <2> HIDE DEF h, all
  <2> QED BY <1>2, <1>3, EndOf
<1>5. Front(allMsgs') = h
  <2>1. allMsgs' = Append(h, NewMessage("user", 0, h, cur + 1))
    BY <1>1 DEF Prompt
  <2>2. cur + 1 \in 0..MaxRequests
    BY <1>1, AgentAssumption DEF Prompt, Accept, TypeOK, ManagerOK
  <2>3. NewMessage("user", 0, h, cur + 1) \in Message
    BY <1>4, <2>2, NewMessageType
  <2> HIDE DEF h
  <2>4. /\ allMsgs' \in Seq(Message) /\ Len(allMsgs') = Len(h) + 1
        /\ \A i \in 1..Len(h) : allMsgs'[i] = h[i]
    BY <1>4, <2>1, <2>3
  <2>5. /\ SubSeq(allMsgs', 1, Len(h)) \in Seq(Message)
        /\ Len(SubSeq(allMsgs', 1, Len(h))) = Len(h)
        /\ \A i \in 1..Len(h) : SubSeq(allMsgs', 1, Len(h))[i] = h[i]
    BY <1>4, <2>4, SubSeqProperties
  <2>6. SubSeq(allMsgs', 1, Len(h)) = h
    BY <1>4, <2>5, SeqEqual
  <2>7. Len(allMsgs') - 1 = Len(h)
    BY <1>4, <2>4
  <2> QED BY <2>6, <2>7 DEF Front
<1> DEFINE unseen == SubSeq(all, 1, Len(all) - Len(h))
<1>6. /\ unseen \in Seq(Message) /\ Len(unseen) = b - 1
      /\ \A i \in 1..Len(unseen) : unseen[i] = all[i]
  <2>1. Len(all) - Len(h) = b - 1 /\ b - 1 \in 0..Len(all)
    BY <1>2, <1>3, <1>4
  <2> HIDE DEF h, all
  <2> QED BY <1>2, <2>1, SubSeqProperties
<1> HIDE DEF all, h, unseen
<1>7. all = unseen \o h
  <2>1. Len(unseen \o h) = Len(all)
    <3>1. Len(unseen \o h) = Len(unseen) + Len(h)
      BY <1>4, <1>6, ConcatProperties
    <3> QED BY <1>2, <1>3, <1>4, <1>6, <3>1
  <2>2. ASSUME NEW i \in 1..Len(all) PROVE (unseen \o h)[i] = all[i]
    <3>1. (unseen \o h)[i] = IF i <= Len(unseen) THEN unseen[i] ELSE h[i - Len(unseen)]
      BY <1>4, <1>6, <2>1, ConcatProperties
    <3>2. CASE i <= Len(unseen)
      BY <1>6, <3>1, <3>2
    <3>3. CASE ~(i <= Len(unseen))
      <4>1. i - Len(unseen) \in 1..Len(h) /\ b + (i - Len(unseen)) - 1 = i
        BY <1>2, <1>3, <1>4, <1>6, <3>3
      <4> QED BY <1>4, <3>1, <3>3, <4>1
    <3> QED BY <3>2, <3>3
  <2>3. unseen \o h \in Seq(Message)
    BY <1>4, <1>6
  <2> QED BY <1>2, <2>1, <2>2, <2>3, SeqEqual
<1>8. unseen # <<>> => Len(h) >= MaxHistory
  BY <1>3, <1>4, <1>6
<1>9. ASSUME NEW i \in DOMAIN h, NEW j \in DOMAIN unseen PROVE ~Answers(h[i], unseen[j])
  <2>1. i \in 1..Len(h) /\ j \in 1..(b - 1)
    BY <1>4, <1>6
  <2>2. b + i - 1 \in b..Len(all) /\ h[i] = all[b + i - 1] /\ unseen[j] = all[j]
    BY <1>2, <1>3, <1>4, <1>6, <2>1
  <2> QED BY <1>3, <2>1, <2>2 DEF Apart
<1>10. session[sess'] = all
  BY <1>2
<1> QED BY <1>5, <1>7, <1>8, <1>9, <1>10 DEF RunSeesWhole, unseen

(* Where one agent answers in a session, and what earlier processes left   *)
(* is in order, a save adds what is new and nothing else, and a run is     *)
(* given an end of the session in which no result lacks its call           *)
(* (agent/manager.go:825, session/session.go:224).  With two agents in one *)
(* session this is false: a run that is resumed is measured against what   *)
(* the other has added since.                                              *)
THEOREM KeepsNew ==
  ASSUME SingleAgent, ProperStart
  PROVE  Spec => SessionKeepsNew
<1>1. TypeOK /\ KeepInv /\ [Next]_vars => KeepInv'
  BY SessionsProperStep, RunContinuesStep, StoredContinuesStep DEF KeepInv
<1>2. TypeOK /\ KeepInv /\ [Next]_vars => SaveKeepsNew /\ RunSeesWhole
  BY SaveStep, WholeStep
<1>3. TypeOK /\ KeepInv /\ [Next]_vars => [SaveKeepsNew /\ RunSeesWhole]_vars
  BY <1>2
<1>4. Init => KeepInv
  BY KeepInit
<1> QED BY <1>1, <1>3, <1>4, TypeCorrect, PTL DEF Spec, SessionKeepsNew
=============================================================================
