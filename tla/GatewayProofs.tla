--------------------------- MODULE GatewayProofs ---------------------------
(***************************************************************************)
(* Theorems about the gateway of Gateway.tla, for any accounts, setups and *)
(* capacities.                                                             *)
(***************************************************************************)
EXTENDS Gateway, FiniteSetTheorems, SequenceTheorems, TLAPS

(* A set of numbers that is not empty has a least element: of the          *)
(* intervals that end in one of them, one has no other inside it.          *)
LEMMA LeastOf ==
  ASSUME NEW S \in SUBSET Nat, S # {}
  PROVE  \E n \in S : \A m \in S : n <= m
<1> DEFINE T == {0..n : n \in S}
           R == StrictSubsetOrdering(Nat)
<1>1. IsWellFoundedOn(R, FiniteSubsetsOf(Nat))
  BY FS_StrictSubsetOrderingWellFounded, Zenon
<1>2. T \subseteq FiniteSubsetsOf(Nat)
  <2>1. ASSUME NEW n \in S PROVE IsFiniteSet(0..n) /\ 0..n \in SUBSET Nat
    BY FS_Interval
  <2> QED BY <2>1 DEF FiniteSubsetsOf
<1>3. T # {}
  OBVIOUS
<1>4. PICK x \in T : \A y \in T : <<y, x>> \notin R
  <2> HIDE DEF T, R
  <2> QED BY <1>1, <1>2, <1>3, WFMin, Zenon
<1>5. PICK n \in S : x = 0..n
  OBVIOUS
<1>6. ASSUME NEW m \in S PROVE n <= m
  <2>1. SUFFICES ASSUME m < n PROVE FALSE
    OBVIOUS
  <2>2. 0..m \subseteq 0..n /\ n \in 0..n /\ n \notin 0..m
    BY <2>1
  <2>3. 0..m \in SUBSET Nat /\ 0..n \in SUBSET Nat /\ 0..m # 0..n
    BY <2>2
  <2>4. <<0..m, 0..n>> \in R
    BY <2>2, <2>3 DEF StrictSubsetOrdering
  <2> QED BY <1>4, <1>5, <2>4
<1> QED BY <1>6

(* What holds of 0 and passes from each number to the next holds of all.   *)
LEMMA Upwards ==
  ASSUME NEW n \in Nat, NEW S, 0 \in S, \A i \in 1..n : i - 1 \in S => i \in S
  PROVE  \A i \in 0..n : i \in S
<1> DEFINE Bad == (0..n) \ S
<1>1. SUFFICES ASSUME Bad # {} PROVE FALSE
  OBVIOUS
<1>2. PICK k \in Bad : \A m \in Bad : k <= m
  <2>1. Bad \in SUBSET Nat
    OBVIOUS
  <2> HIDE DEF Bad
  <2> QED BY <1>1, <2>1, LeastOf
<1>3. k \in 1..n /\ k - 1 \in 0..n
  OBVIOUS
<1>4. k - 1 \notin Bad
  <2> HIDE DEF Bad
  <2> QED BY <1>2, <1>3
<1> QED BY <1>3, <1>4

LEMMA GreatestOf ==
  ASSUME NEW k \in Nat, NEW S \in SUBSET (1..k), S # {}
  PROVE  Max(S) \in S /\ \A m \in S : m <= Max(S)
<1> DEFINE D == {k - n : n \in S}
<1>1. D \in SUBSET Nat /\ D # {}
  <2>1. \A n \in S : k - n \in Nat
    OBVIOUS
  <2> QED BY <2>1
<1>2. PICK d \in D : \A e \in D : d <= e
  <2> HIDE DEF D
  <2> QED BY <1>1, LeastOf
<1>3. PICK n \in S : d = k - n
  OBVIOUS
<1>4. \A m \in S : n >= m
  BY <1>2, <1>3
<1> QED BY <1>4 DEF Max

LEMMA GreatestIs ==
  ASSUME NEW k \in Nat, NEW S \in SUBSET (1..k), k \in S
  PROVE  Max(S) = k
<1>1. S # {}
  OBVIOUS
<1>2. Max(S) \in S /\ k <= Max(S)
  BY <1>1, GreatestOf
<1>3. Max(S) \in 1..k
  BY <1>2
<1> HIDE DEF Max
<1> QED BY <1>2, <1>3

-----------------------------------------------------------------------------
(* A fold over a sequence is a function on the sets of its indices; its    *)
(* values on 1..0, 1..1, ... are what it has made of the sequence so far.  *)
LEMMA FoldRuns ==
  ASSUME NEW n \in Nat, NEW i \in 1..n
  PROVE  /\ 1..i # {} /\ Max(1..i) = i /\ (1..i) \ {i} = 1..(i - 1)
         /\ 1..i \in SUBSET (1..n) /\ 1..(i - 1) \in SUBSET (1..n)
<1>1. Max(1..i) = i
  BY GreatestIs
<1> QED BY <1>1

-----------------------------------------------------------------------------
(* Bind for every binding in the order of the list (InitializeFromConfig): *)
(* the last one of a session counts.                                       *)
Latest(c, o, s) == {j \in s : c.bindings[j].key = o}
Target(c, o) ==
  LET mine == Latest(c, o, DOMAIN c.bindings)
  IN IF mine = {} THEN o ELSE c.bindings[Max(mine)].target
BoundBy(c, s) ==
  [o \in {c.bindings[j].key : j \in s} |-> c.bindings[Max(Latest(c, o, s))].target]

LEMMA BindLast ==
  ASSUME NEW c, NEW n \in Nat, NEW s \in SUBSET (1..n), NEW i \in s, \A j \in s : j <= i
  PROVE  BoundBy(c, s) = Put(BoundBy(c, s \ {i}), c.bindings[i].key, c.bindings[i].target)
<1> DEFINE b == c.bindings
           keys == {b[j].key : j \in s}
           new == Put(BoundBy(c, s \ {i}), b[i].key, b[i].target)
<1>1. keys = {b[i].key} \cup {b[j].key : j \in s \ {i}}
  OBVIOUS
<1>2. new = [o \in keys |-> IF o = b[i].key THEN b[i].target ELSE BoundBy(c, s \ {i})[o]]
  BY <1>1 DEF BoundBy, Put
<1>3. ASSUME NEW o \in keys
      PROVE  BoundBy(c, s)[o] = IF o = b[i].key THEN b[i].target ELSE BoundBy(c, s \ {i})[o]
  <2>1. CASE o = b[i].key
    <3>1. i \in Nat /\ s \subseteq 1..i
      OBVIOUS
    <3>2. Latest(c, o, s) \in SUBSET (1..i) /\ i \in Latest(c, o, s)
      BY <2>1, <3>1 DEF Latest
    <3>3. Max(Latest(c, o, s)) = i
      BY <3>1, <3>2, GreatestIs
    <3> QED BY <2>1, <3>3 DEF BoundBy
  <2>2. CASE o # b[i].key
    <3>1. Latest(c, o, s) = Latest(c, o, s \ {i})
      BY <2>2 DEF Latest
    <3>2. o \in {b[j].key : j \in s \ {i}}
      BY <1>1, <2>2
    <3> QED BY <2>2, <3>1, <3>2 DEF BoundBy
  <2> QED BY <2>1, <2>2
<1>4. BoundBy(c, s) = [o \in keys |-> BoundBy(c, s)[o]]
  BY DEF BoundBy
<1> HIDE DEF new, keys
<1> QED BY <1>2, <1>3, <1>4, Zenon DEF new

LEMMA BindingsFold ==
  ASSUME NEW c, Whole(c), ~ChannelsFail(c)
  PROVE  Bindings(c) = BoundBy(c, DOMAIN c.bindings)
<1> DEFINE q == c.bindings
           n == Len(q)
           Fold(h) == h = [s \in SUBSET (1..n) |->
                             IF s = {} THEN << >> ELSE Put(h[s \ {Max(s)}], q[Max(s)].key, q[Max(s)].target)]
           F == CHOOSE h : Fold(h)
           H == [s \in SUBSET (1..n) |-> BoundBy(c, s)]
<1>1. n \in Nat /\ DOMAIN q = 1..n
  BY DEF Whole
<1>2. Bindings(c) = F[1..n]
  BY <1>1 DEF Bindings, FoldLeft, MapThenFoldSet
<1>3. BoundBy(c, {}) = << >>
  BY DEF BoundBy
<1>4. ASSUME NEW s \in SUBSET (1..n), s # {}
      PROVE  BoundBy(c, s) = Put(BoundBy(c, s \ {Max(s)}), q[Max(s)].key, q[Max(s)].target)
  <2>1. Max(s) \in s /\ \A j \in s : j <= Max(s)
    BY <1>1, <1>4, GreatestOf
  <2> QED BY <1>1, <2>1, BindLast
<1>5. Fold(H)
  BY <1>3, <1>4
<1>6. Fold(F)
  <2> HIDE DEF Fold
  <2> QED BY <1>5
<1>7. F[{}] = << >>
  BY <1>6
<1>8. ASSUME NEW i \in 1..n PROVE F[1..i] = Put(F[1..(i - 1)], q[i].key, q[i].target)
  <2>1. 1..i # {} /\ Max(1..i) = i /\ (1..i) \ {i} = 1..(i - 1) /\ 1..i \in SUBSET (1..n)
    BY <1>1, FoldRuns
  <2> HIDE DEF F, q
  <2> QED BY <1>6, <2>1
<1> DEFINE S == {j \in 0..n : F[1..j] = BoundBy(c, 1..j)}
<1>9. 0 \in S
  <2> HIDE DEF F, q
  <2> QED BY <1>1, <1>3, <1>7
<1>10. ASSUME NEW i \in 1..n, i - 1 \in S PROVE i \in S
  <2>1. F[1..(i - 1)] = BoundBy(c, 1..(i - 1))
    BY <1>10
  <2>2. 1..i # {} /\ Max(1..i) = i /\ (1..i) \ {i} = 1..(i - 1) /\ 1..i \in SUBSET (1..n)
    BY <1>1, FoldRuns
  <2>3. BoundBy(c, 1..i) = Put(BoundBy(c, 1..(i - 1)), q[i].key, q[i].target)
    <3> HIDE DEF q
    <3> QED BY <1>4, <2>2
  <2>4. i \in 0..n
    BY <1>1
  <2> HIDE DEF F, q
  <2> QED BY <1>8, <2>1, <2>3, <2>4
<1>11. n \in S
  <2> HIDE DEF S, n
  <2> QED BY <1>1, <1>9, <1>10, Upwards
<1> QED BY <1>1, <1>2, <1>11

LEMMA Resolved ==
  ASSUME NEW c, Whole(c), ~ChannelsFail(c), NEW o
  PROVE  ResolveChannel(Bindings(c), o) = Target(c, o)
<1>1. Bindings(c) = BoundBy(c, DOMAIN c.bindings)
  BY BindingsFold
<1>2. o \in DOMAIN BoundBy(c, DOMAIN c.bindings) <=> Latest(c, o, DOMAIN c.bindings) # {}
  BY DEF BoundBy, Latest
<1> QED BY <1>1, <1>2 DEF ResolveChannel, Target, BoundBy

-----------------------------------------------------------------------------
(* Parts of the type invariant that a step does not touch.                 *)
LEMMA Kept ==
  /\ ProcessOK /\ UNCHANGED <<setup, life, channels, busOpen>> => ProcessOK'
  /\ NetOK /\ UNCHANGED netVars => NetOK'
  /\ AgentOK /\ UNCHANGED agent => AgentOK'
  /\ DispatchOK /\ UNCHANGED <<dspVars, said, handed>> => DispatchOK'
  /\ FilesOK /\ UNCHANGED <<setup, life, boots, config, fileVars>> => FilesOK'
BY DEF ProcessOK, NetOK, AgentOK, DispatchOK, FilesOK, netVars, dspVars, fileVars

LEMMA SequenceSteps ==
  ASSUME NEW S, NEW q \in Seq(S)
  PROVE  /\ \A e \in S : Append(q, e) \in Seq(S) /\ Len(Append(q, e)) = Len(q) + 1
         /\ q # <<>> => Head(q) \in S /\ Tail(q) \in Seq(S) /\ Len(Tail(q)) = Len(q) - 1
OBVIOUS

(* The files a setup may write are whole.                                  *)
LEMMA SetupWhole ==
  ASSUME TypeOK
  PROVE  \A c \in {setup.file} \cup setup.updates \cup setup.written : Whole(c)
BY GatewayAssumption DEF TypeOK, ProcessOK

(* What is broadcast joins a buffer that has room, or is dropped.          *)
LEMMA BroadcastType ==
  ASSUME TypeOK, NEW d \in Dispatchers, NEW msg \in Outgoing, Broadcast(d, msg)
  PROVE  /\ buf' \in [Dispatchers -> Seq(Outgoing)] /\ \A e \in Dispatchers : Len(buf'[e]) <= SubCap
         /\ said' \in Seq(Outgoing)
<1> USE DEF TypeOK, DispatchOK
<1>1. CASE open[d] /\ Len(buf[d]) < SubCap
  <2>1. buf[d] \in Seq(Outgoing) /\ Len(buf[d]) \in Nat
    OBVIOUS
  <2>2. Append(buf[d], msg) \in Seq(Outgoing) /\ Len(Append(buf[d], msg)) = Len(buf[d]) + 1
    BY <2>1, SequenceSteps
  <2>3. buf' = [buf EXCEPT ![d] = Append(@, msg)]
    BY <1>1 DEF Broadcast
  <2>4. Append(said, msg) \in Seq(Outgoing)
    BY SequenceSteps
  <2>5. said' \in Seq(Outgoing)
    BY <1>1, <2>4 DEF Broadcast
  <2>6. Len(Append(buf[d], msg)) <= SubCap
    BY <1>1, <2>1, <2>2, GatewayAssumption
  <2> QED BY <2>2, <2>3, <2>5, <2>6
<1>2. CASE ~(open[d] /\ Len(buf[d]) < SubCap)
  BY <1>2 DEF Broadcast
<1> QED BY <1>1, <1>2

LEMMA BootType ==
  ASSUME TypeOK, Boot
  PROVE  TypeOK'
<1>1. ProcessOK'
  BY DEF TypeOK, ProcessOK, Boot, runVars, netVars, dspVars, fileVars
<1>2. FilesOK'
  BY DEF TypeOK, FilesOK, Boot, runVars, netVars, dspVars, fileVars
<1> QED BY <1>1, <1>2, Kept DEF TypeOK, Boot, runVars, netVars, dspVars, fileVars

LEMMA CreateType ==
  ASSUME TypeOK, Create
  PROVE  TypeOK'
<1>1. ProcessOK'
  <2>1. Whole(config)
    BY SetupWhole DEF TypeOK, FilesOK, Create
  <2> QED BY <2>1 DEF TypeOK, ProcessOK, Create, Whole
<1>2. AgentOK'
  BY DEF TypeOK, AgentOK, Create, runVars, netVars, dspVars, fileVars
<1>3. FilesOK'
  BY DEF TypeOK, FilesOK, Create, runVars, netVars, dspVars, fileVars
<1> QED BY <1>1, <1>2, <1>3, Kept DEF TypeOK, Create, runVars, netVars, dspVars, fileVars

LEMMA StartDispatchersType ==
  ASSUME TypeOK, StartDispatchers
  PROVE  TypeOK'
<1>1. ProcessOK'
  BY DEF TypeOK, ProcessOK, StartDispatchers, runVars, netVars, dspVars, fileVars
<1>2. DispatchOK'
  BY ZenonT(40) DEF TypeOK, DispatchOK, StartDispatchers, runVars, netVars, dspVars, fileVars
<1>3. FilesOK'
  BY DEF TypeOK, FilesOK, StartDispatchers, runVars, netVars, dspVars, fileVars
<1> QED BY <1>1, <1>2, <1>3, Kept DEF TypeOK, StartDispatchers, runVars, netVars, dspVars, fileVars

LEMMA OpenServerType ==
  ASSUME TypeOK, OpenServer
  PROVE  TypeOK'
<1>1. ProcessOK'
  BY DEF TypeOK, ProcessOK, OpenServer, runVars, netVars, dspVars, fileVars
<1>2. FilesOK'
  BY DEF TypeOK, FilesOK, OpenServer, runVars, netVars, dspVars, fileVars
<1> QED BY <1>1, <1>2, Kept DEF TypeOK, OpenServer, runVars, netVars, dspVars, fileVars

LEMMA SignalType ==
  ASSUME TypeOK, Signal
  PROVE  TypeOK'
<1>1. ProcessOK'
  BY DEF TypeOK, ProcessOK, Signal, Advance, runVars, netVars, dspVars, fileVars
<1>2. FilesOK'
  BY DEF TypeOK, FilesOK, Signal, Advance, runVars, netVars, dspVars, fileVars
<1> QED BY <1>1, <1>2, Kept DEF TypeOK, Signal, Advance, runVars, netVars, dspVars, fileVars

LEMMA StopServerType ==
  ASSUME TypeOK, StopServer
  PROVE  TypeOK'
<1>1. ProcessOK'
  BY DEF TypeOK, ProcessOK, StopServer, Advance, runVars, netVars, dspVars, fileVars
<1>2. FilesOK'
  BY DEF TypeOK, FilesOK, StopServer, Advance, runVars, netVars, dspVars, fileVars
<1> QED BY <1>1, <1>2, Kept DEF TypeOK, StopServer, Advance, runVars, netVars, dspVars, fileVars

LEMMA StopSchedulerType ==
  ASSUME TypeOK, StopScheduler
  PROVE  TypeOK'
<1>1. ProcessOK'
  BY DEF TypeOK, ProcessOK, StopScheduler, Advance, runVars, netVars, dspVars, fileVars
<1>2. FilesOK'
  BY DEF TypeOK, FilesOK, StopScheduler, Advance, runVars, netVars, dspVars, fileVars
<1> QED BY <1>1, <1>2, Kept DEF TypeOK, StopScheduler, Advance, runVars, netVars, dspVars, fileVars

LEMMA AgentsStoppedType ==
  ASSUME TypeOK, AgentsStopped
  PROVE  TypeOK'
<1>1. ProcessOK'
  BY DEF TypeOK, ProcessOK, AgentsStopped, Advance, runVars, netVars, dspVars, fileVars
<1>2. FilesOK'
  BY DEF TypeOK, FilesOK, AgentsStopped, Advance, runVars, netVars, dspVars, fileVars
<1> QED BY <1>1, <1>2, Kept DEF TypeOK, AgentsStopped, Advance, runVars, netVars, dspVars, fileVars

LEMMA CloseBusType ==
  ASSUME TypeOK, CloseBus
  PROVE  TypeOK'
<1>1. ProcessOK'
  BY DEF TypeOK, ProcessOK, CloseBus, runVars, netVars, dspVars, fileVars
<1>2. DispatchOK'
  BY DEF TypeOK, DispatchOK, CloseBus, runVars, netVars, dspVars, fileVars
<1>3. FilesOK'
  BY DEF TypeOK, FilesOK, CloseBus, runVars, netVars, dspVars, fileVars
<1> QED BY <1>1, <1>2, <1>3, Kept DEF TypeOK, CloseBus, runVars, netVars, dspVars, fileVars

LEMMA PublishWebType ==
  ASSUME TypeOK, PublishWeb
  PROVE  TypeOK'
<1>1. NetOK'
  <2>1. inbound' \in Seq([ch : Origins, n : Nat]) /\ Len(inbound') <= InboundCap
    BY GatewayAssumption, SequenceSteps DEF TypeOK, NetOK, PublishWeb, Origins
  <2>2. conn' \in [Accounts -> {"off", "up", "broken", "gone"}] /\ running' \in [Accounts -> BOOLEAN]
    BY DEF TypeOK, NetOK, PublishWeb
  <2>3. rx' \in [Accounts -> {"off", "read", "have", "publish"}]
    BY DEF TypeOK, NetOK, PublishWeb
  <2>4. sent' \in [Origins -> Nat] /\ breaks' \in Nat
    BY DEF TypeOK, NetOK, PublishWeb, Origins
  <2> QED BY <2>1, <2>2, <2>3, <2>4 DEF NetOK
<1> QED BY <1>1, Kept DEF TypeOK, PublishWeb, runVars, netVars, dspVars, fileVars

LEMMA AgentTakeType ==
  ASSUME TypeOK, AgentTake
  PROVE  TypeOK'
<1>1. NetOK'
  <2>1. inbound' \in Seq([ch : Origins, n : Nat]) /\ Len(inbound') <= InboundCap
    BY GatewayAssumption, SequenceSteps DEF TypeOK, NetOK, AgentTake, Origins
  <2>2. conn' \in [Accounts -> {"off", "up", "broken", "gone"}] /\ running' \in [Accounts -> BOOLEAN]
    BY DEF TypeOK, NetOK, AgentTake
  <2>3. rx' \in [Accounts -> {"off", "read", "have", "publish"}]
    BY DEF TypeOK, NetOK, AgentTake
  <2>4. sent' \in [Origins -> Nat] /\ breaks' \in Nat
    BY DEF TypeOK, NetOK, AgentTake, Origins
  <2> QED BY <2>1, <2>2, <2>3, <2>4 DEF NetOK
<1>2. AgentOK'
  <2>1. setup.answers \in Seq(Answers)
    BY GatewayAssumption DEF TypeOK, ProcessOK
  <2>2. Head(inbound) \in [ch : Origins, n : Nat]
    BY SequenceSteps DEF TypeOK, NetOK, AgentTake
  <2> DEFINE todo == [k \in DOMAIN setup.answers |->
                       [ch |-> Head(inbound).ch, n |-> Head(inbound).n, k |-> k, kind |-> setup.answers[k]]]
  <2>3. \A k \in DOMAIN setup.answers : todo[k] \in Outgoing
    BY <2>1, <2>2 DEF Outgoing
  <2>4. todo \in Seq(Outgoing)
    <3>1. DOMAIN todo = 1..Len(setup.answers) /\ Len(setup.answers) \in Nat
      BY <2>1
    <3> HIDE DEF Outgoing
    <3> QED BY <2>3, <3>1
  <2>5. agent' = [agent EXCEPT !.pc = "run", !.todo = todo]
    BY DEF AgentTake
  <2> HIDE DEF todo
  <2> QED BY <2>4, <2>5 DEF TypeOK, AgentOK
<1> QED BY <1>1, <1>2, Kept DEF TypeOK, AgentTake, runVars, netVars, dspVars, fileVars

LEMMA AgentSayType ==
  ASSUME TypeOK, AgentSay
  PROVE  TypeOK'
<1>1. AgentOK'
  BY DEF TypeOK, AgentOK, AgentSay, Broadcast, runVars, netVars, dspVars, fileVars
<1>2. DispatchOK'
  <2>1. Head(agent.todo) \in Outgoing
    BY SequenceSteps DEF TypeOK, AgentOK, AgentSay
  <2>2. PICK d \in Dispatchers : Broadcast(d, Head(agent.todo))
    BY DEF AgentSay, Dispatchers
  <2>3. UNCHANGED <<dsp, field, open, handed>>
    BY DEF AgentSay
  <2> QED BY <2>1, <2>2, <2>3, BroadcastType DEF TypeOK, DispatchOK
<1> QED BY <1>1, <1>2, Kept DEF TypeOK, AgentSay, Broadcast, runVars, netVars, dspVars, fileVars

LEMMA AgentResumeType ==
  ASSUME TypeOK, AgentResume
  PROVE  TypeOK'
<1>1. AgentOK'
  BY DEF TypeOK, AgentOK, AgentResume, runVars, netVars, dspVars, fileVars
<1> QED BY <1>1, Kept DEF TypeOK, AgentResume, runVars, netVars, dspVars, fileVars

LEMMA AgentIdleType ==
  ASSUME TypeOK, AgentIdle
  PROVE  TypeOK'
<1>1. AgentOK'
  BY DEF TypeOK, AgentOK, AgentIdle, runVars, netVars, dspVars, fileVars
<1> QED BY <1>1, Kept DEF TypeOK, AgentIdle, runVars, netVars, dspVars, fileVars

LEMMA AgentExitType ==
  ASSUME TypeOK, AgentExit
  PROVE  TypeOK'
<1>1. AgentOK'
  BY DEF TypeOK, AgentOK, AgentExit, runVars, netVars, dspVars, fileVars
<1> QED BY <1>1, Kept DEF TypeOK, AgentExit, runVars, netVars, dspVars, fileVars

LEMMA SkipType ==
  ASSUME TypeOK, Skip
  PROVE  TypeOK'
<1>1. DispatchOK'
  BY ZenonT(40) DEF TypeOK, DispatchOK, Skip, Back, runVars, netVars, dspVars, fileVars
<1> QED BY <1>1, Kept DEF TypeOK, Skip, Back, runVars, netVars, dspVars, fileVars

LEMMA HandleRequestType ==
  ASSUME TypeOK, HandleRequest
  PROVE  TypeOK'
<1>1. DispatchOK'
  BY ZenonT(40) DEF TypeOK, DispatchOK, HandleRequest, Back, runVars, netVars, dspVars, fileVars
<1> QED BY <1>1, Kept DEF TypeOK, HandleRequest, Back, runVars, netVars, dspVars, fileVars

LEMMA AnswerRequestType ==
  ASSUME TypeOK, AnswerRequest
  PROVE  TypeOK'
<1>1. AgentOK'
  BY DEF TypeOK, AgentOK, AnswerRequest, Broadcast, Back, runVars, netVars, dspVars, fileVars
<1>2. DispatchOK'
  <2> DEFINE msg == dsp["out"].msg
             response == [msg EXCEPT !.kind = "response"]
  <2>1. msg \in Outgoing
    BY DEF TypeOK, DispatchOK, AnswerRequest, Dispatchers
  <2>2. response \in Outgoing /\ "out" \in Dispatchers
    BY <2>1 DEF Outgoing, Dispatchers
  <2>3. UNCHANGED <<field, open, handed>> /\ dsp' = [dsp EXCEPT !["out"].pc = "look"]
    BY DEF AnswerRequest, Back
  <2>4. UNCHANGED <<buf, said>> \/ Broadcast("out", response)
    BY DEF AnswerRequest
  <2>5. /\ dsp' \in [Dispatchers -> [pc : {"off", "look", "recv", "have", "answer", "send", "done"},
                                     msg : Outgoing \cup {Nothing}]]
        /\ \A e \in Dispatchers : dsp'[e].pc \in {"have", "answer"} => dsp'[e].msg \in Outgoing
    BY <2>2, <2>3 DEF TypeOK, DispatchOK
  <2> HIDE DEF response
  <2> QED BY <2>2, <2>3, <2>4, <2>5, BroadcastType DEF TypeOK, DispatchOK
<1> QED BY <1>1, <1>2, Kept DEF TypeOK, AnswerRequest, Broadcast, Back, runVars, netVars, dspVars, fileVars

LEMMA DeliverType ==
  ASSUME TypeOK, Deliver
  PROVE  TypeOK'
<1>1. DispatchOK'
  <2> DEFINE msg == dsp["out"].msg
             target == ResolveChannel(bound, msg.ch)
  <2>1. msg \in Outgoing /\ "out" \in Dispatchers
    BY DEF TypeOK, DispatchOK, Deliver, Dispatchers
  <2>2. PICK to \in {"look", "send"} : dsp' = [dsp EXCEPT !["out"].pc = to]
    BY DEF Deliver, Back
  <2>3. UNCHANGED handed \/ (target \in Accounts /\ handed' = Append(handed, <<msg, target>>))
    BY DEF Deliver, TypeOK, ProcessOK
  <2>4. handed' \in Seq(Outgoing \X Accounts)
    <3>1. handed \in Seq(Outgoing \X Accounts)
      BY DEF TypeOK, DispatchOK
    <3>2. target \in Accounts => Append(handed, <<msg, target>>) \in Seq(Outgoing \X Accounts)
      <4>1. target \in Accounts => <<msg, target>> \in Outgoing \X Accounts
        BY <2>1
      <4> HIDE DEF msg, target, Outgoing
      <4> QED BY <3>1, <4>1, SequenceSteps
    <3> HIDE DEF msg, target, Outgoing
    <3> QED BY <2>3, <3>1, <3>2
  <2>5. /\ dsp' \in [Dispatchers -> [pc : {"off", "look", "recv", "have", "answer", "send", "done"},
                                     msg : Outgoing \cup {Nothing}]]
        /\ \A e \in Dispatchers : dsp'[e].pc \in {"have", "answer"} => dsp'[e].msg \in Outgoing
    BY <2>1, <2>2, ZenonT(40) DEF TypeOK, DispatchOK
  <2> QED BY <2>4, <2>5 DEF Deliver, TypeOK, DispatchOK
<1> QED BY <1>1, Kept DEF TypeOK, Deliver, Back, runVars, netVars, dspVars, fileVars

LEMMA SendEndsType ==
  ASSUME TypeOK, SendEnds
  PROVE  TypeOK'
<1>1. DispatchOK'
  BY ZenonT(40) DEF TypeOK, DispatchOK, SendEnds, Back, runVars, netVars, dspVars, fileVars
<1> QED BY <1>1, Kept DEF TypeOK, SendEnds, Back, runVars, netVars, dspVars, fileVars

LEMMA HandleEventType ==
  ASSUME TypeOK, HandleEvent
  PROVE  TypeOK'
<1>1. DispatchOK'
  BY DEF TypeOK, DispatchOK, HandleEvent, Back, runVars, netVars, dspVars, fileVars
<1> QED BY <1>1, Kept DEF TypeOK, HandleEvent, Back, runVars, netVars, dspVars, fileVars

LEMMA TruncateType ==
  ASSUME TypeOK, Truncate
  PROVE  TypeOK'
<1>1. FilesOK'
  BY DEF TypeOK, FilesOK, Truncate, UpdateStep, runVars, netVars, dspVars, fileVars
<1> QED BY <1>1, Kept DEF TypeOK, Truncate, UpdateStep, runVars, netVars, dspVars, fileVars

LEMMA BackupType ==
  ASSUME TypeOK, Backup
  PROVE  TypeOK'
<1>1. FilesOK'
  BY DEF TypeOK, FilesOK, Backup, UpdateStep, runVars, netVars, dspVars, fileVars
<1> QED BY <1>1, Kept DEF TypeOK, Backup, UpdateStep, runVars, netVars, dspVars, fileVars

LEMMA WriteTempType ==
  ASSUME TypeOK, WriteTemp
  PROVE  TypeOK'
<1>1. FilesOK'
  BY DEF TypeOK, FilesOK, WriteTemp, UpdateStep, runVars, netVars, dspVars, fileVars
<1> QED BY <1>1, Kept DEF TypeOK, WriteTemp, UpdateStep, runVars, netVars, dspVars, fileVars

LEMMA RenameType ==
  ASSUME TypeOK, Rename
  PROVE  TypeOK'
<1>1. FilesOK'
  BY DEF TypeOK, FilesOK, Rename, UpdateStep, runVars, netVars, dspVars, fileVars
<1> QED BY <1>1, Kept DEF TypeOK, Rename, UpdateStep, runVars, netVars, dspVars, fileVars

LEMMA RememberType ==
  ASSUME TypeOK, Remember
  PROVE  TypeOK'
<1>1. FilesOK'
  BY DEF TypeOK, FilesOK, Remember, UpdateStep, runVars, netVars, dspVars, fileVars
<1> QED BY <1>1, Kept DEF TypeOK, Remember, UpdateStep, runVars, netVars, dspVars, fileVars

LEMMA StartChannelType ==
  ASSUME NEW a \in Accounts, TypeOK, StartChannel(a)
  PROVE  TypeOK'
<1>1. ProcessOK'
  BY DEF TypeOK, ProcessOK, StartChannel, runVars, netVars, dspVars, fileVars
<1>2. NetOK'
  BY DEF TypeOK, NetOK, StartChannel, runVars, netVars, dspVars, fileVars
<1>3. FilesOK'
  BY DEF TypeOK, FilesOK, StartChannel, runVars, netVars, dspVars, fileVars
<1> QED BY <1>1, <1>2, <1>3, Kept DEF TypeOK, StartChannel, runVars, netVars, dspVars, fileVars

LEMMA StopChannelType ==
  ASSUME NEW a \in Accounts, TypeOK, StopChannel(a)
  PROVE  TypeOK'
<1>1. NetOK'
  BY DEF TypeOK, NetOK, StopChannel, runVars, netVars, dspVars, fileVars
<1> QED BY <1>1, Kept DEF TypeOK, StopChannel, runVars, netVars, dspVars, fileVars

LEMMA ReceiveType ==
  ASSUME NEW a \in Accounts, TypeOK, Receive(a)
  PROVE  TypeOK'
<1>1. NetOK'
  <2>1. inbound' \in Seq([ch : Origins, n : Nat]) /\ Len(inbound') <= InboundCap
    BY GatewayAssumption, SequenceSteps DEF TypeOK, NetOK, Receive, Origins
  <2>2. conn' \in [Accounts -> {"off", "up", "broken", "gone"}] /\ running' \in [Accounts -> BOOLEAN]
    BY DEF TypeOK, NetOK, Receive
  <2>3. rx' \in [Accounts -> {"off", "read", "have", "publish"}]
    BY DEF TypeOK, NetOK, Receive
  <2>4. sent' \in [Origins -> Nat] /\ breaks' \in Nat
    BY DEF TypeOK, NetOK, Receive, Origins
  <2> QED BY <2>1, <2>2, <2>3, <2>4 DEF NetOK
<1> QED BY <1>1, Kept DEF TypeOK, Receive, runVars, netVars, dspVars, fileVars

LEMMA LockBusType ==
  ASSUME NEW a \in Accounts, TypeOK, LockBus(a)
  PROVE  TypeOK'
<1>1. NetOK'
  BY DEF TypeOK, NetOK, LockBus, runVars, netVars, dspVars, fileVars
<1> QED BY <1>1, Kept DEF TypeOK, LockBus, runVars, netVars, dspVars, fileVars

LEMMA PublishInboundType ==
  ASSUME NEW a \in Accounts, TypeOK, PublishInbound(a)
  PROVE  TypeOK'
<1>1. NetOK'
  <2>1. inbound' \in Seq([ch : Origins, n : Nat]) /\ Len(inbound') <= InboundCap
    BY GatewayAssumption, SequenceSteps DEF TypeOK, NetOK, PublishInbound, Origins
  <2>2. conn' \in [Accounts -> {"off", "up", "broken", "gone"}] /\ running' \in [Accounts -> BOOLEAN]
    BY DEF TypeOK, NetOK, PublishInbound
  <2>3. rx' \in [Accounts -> {"off", "read", "have", "publish"}]
    BY DEF TypeOK, NetOK, PublishInbound
  <2>4. sent' \in [Origins -> Nat] /\ breaks' \in Nat
    BY DEF TypeOK, NetOK, PublishInbound, Origins
  <2> QED BY <2>1, <2>2, <2>3, <2>4 DEF NetOK
<1> QED BY <1>1, Kept DEF TypeOK, PublishInbound, runVars, netVars, dspVars, fileVars

LEMMA BreakType ==
  ASSUME NEW a \in Accounts, TypeOK, Break(a)
  PROVE  TypeOK'
<1>1. NetOK'
  BY DEF TypeOK, NetOK, Break, runVars, netVars, dspVars, fileVars
<1> QED BY <1>1, Kept DEF TypeOK, Break, runVars, netVars, dspVars, fileVars

LEMMA LoopEndsType ==
  ASSUME NEW a \in Accounts, TypeOK, LoopEnds(a)
  PROVE  TypeOK'
<1>1. NetOK'
  BY DEF TypeOK, NetOK, LoopEnds, runVars, netVars, dspVars, fileVars
<1> QED BY <1>1, Kept DEF TypeOK, LoopEnds, runVars, netVars, dspVars, fileVars

LEMMA ReconnectType ==
  ASSUME NEW a \in Accounts, TypeOK, Reconnect(a)
  PROVE  TypeOK'
<1>1. NetOK'
  BY DEF TypeOK, NetOK, Reconnect, runVars, netVars, dspVars, fileVars
<1> QED BY <1>1, Kept DEF TypeOK, Reconnect, runVars, netVars, dspVars, fileVars

LEMMA UnsubscribeType ==
  ASSUME NEW d \in Dispatchers, TypeOK, Unsubscribe(d)
  PROVE  TypeOK'
<1>1. ProcessOK'
  BY DEF TypeOK, ProcessOK, Unsubscribe, Advance, runVars, netVars, dspVars, fileVars
<1>2. DispatchOK'
  BY DEF TypeOK, DispatchOK, Unsubscribe, Advance, runVars, netVars, dspVars, fileVars
<1>3. FilesOK'
  BY DEF TypeOK, FilesOK, Unsubscribe, Advance, runVars, netVars, dspVars, fileVars
<1> QED BY <1>1, <1>2, <1>3, Kept DEF TypeOK, Unsubscribe, Advance, runVars, netVars, dspVars, fileVars

LEMMA ForgetType ==
  ASSUME NEW d \in Dispatchers, TypeOK, Forget(d)
  PROVE  TypeOK'
<1>1. ProcessOK'
  BY DEF TypeOK, ProcessOK, Forget, Advance, runVars, netVars, dspVars, fileVars
<1>2. DispatchOK'
  BY DEF TypeOK, DispatchOK, Forget, Advance, runVars, netVars, dspVars, fileVars
<1>3. FilesOK'
  BY DEF TypeOK, FilesOK, Forget, Advance, runVars, netVars, dspVars, fileVars
<1> QED BY <1>1, <1>2, <1>3, Kept DEF TypeOK, Forget, Advance, runVars, netVars, dspVars, fileVars

LEMMA LookType ==
  ASSUME NEW d \in Dispatchers, TypeOK, Look(d)
  PROVE  TypeOK'
<1>1. DispatchOK'
  BY DEF TypeOK, DispatchOK, Look, runVars, netVars, dspVars, fileVars
<1> QED BY <1>1, Kept DEF TypeOK, Look, runVars, netVars, dspVars, fileVars

LEMMA TakeType ==
  ASSUME NEW d \in Dispatchers, TypeOK, Take(d)
  PROVE  TypeOK'
<1>1. DispatchOK'
  <2>1. buf[d] \in Seq(Outgoing) /\ buf[d] # <<>>
    BY DEF TypeOK, DispatchOK, Take
  <2>2. Head(buf[d]) \in Outgoing /\ Tail(buf[d]) \in Seq(Outgoing) /\ Len(Tail(buf[d])) = Len(buf[d]) - 1
        /\ Len(buf[d]) \in Nat
    BY <2>1, SequenceSteps
  <2>3. Len(Tail(buf[d])) <= SubCap
    BY <2>2, GatewayAssumption DEF TypeOK, DispatchOK
  <2>4. buf' \in [Dispatchers -> Seq(Outgoing)] /\ \A e \in Dispatchers : Len(buf'[e]) <= SubCap
    BY <2>2, <2>3 DEF TypeOK, DispatchOK, Take
  <2>5. /\ dsp' \in [Dispatchers -> [pc : {"off", "look", "recv", "have", "answer", "send", "done"},
                                     msg : Outgoing \cup {Nothing}]]
        /\ \A e \in Dispatchers : dsp'[e].pc \in {"have", "answer"} => dsp'[e].msg \in Outgoing
    BY <2>2 DEF TypeOK, DispatchOK, Take
  <2> QED BY <2>4, <2>5 DEF Take, TypeOK, DispatchOK
<1> QED BY <1>1, Kept DEF TypeOK, Take, runVars, netVars, dspVars, fileVars

LEMMA DispatcherEndsType ==
  ASSUME NEW d \in Dispatchers, TypeOK, DispatcherEnds(d)
  PROVE  TypeOK'
<1>1. DispatchOK'
  BY DEF TypeOK, DispatchOK, DispatcherEnds, runVars, netVars, dspVars, fileVars
<1> QED BY <1>1, Kept DEF TypeOK, DispatcherEnds, runVars, netVars, dspVars, fileVars

LEMMA UpdateType ==
  ASSUME NEW c \in Configs, TypeOK, Update(c), c \in setup.updates
  PROVE  TypeOK'
<1>1. FilesOK'
  BY DEF TypeOK, FilesOK, Update, runVars, netVars, dspVars, fileVars
<1> QED BY <1>1, Kept DEF TypeOK, Update, runVars, netVars, dspVars, fileVars

LEMMA HandEditType ==
  ASSUME NEW c \in Configs, TypeOK, HandEdit(c), c \in setup.written
  PROVE  TypeOK'
<1>1. FilesOK'
  BY DEF TypeOK, FilesOK, HandEdit, runVars, netVars, dspVars, fileVars
<1> QED BY <1>1, Kept DEF TypeOK, HandEdit, runVars, netVars, dspVars, fileVars

LEMMA ExitType ==
  ASSUME TypeOK, Exit
  PROVE  TypeOK'
<1>1. ProcessOK'
  BY DEF TypeOK, ProcessOK, Exit
<1>2. NetOK'
  BY GatewayAssumption DEF TypeOK, NetOK, Exit
<1>3. AgentOK'
  BY DEF TypeOK, AgentOK, Exit
<1>4. DispatchOK'
  BY GatewayAssumption DEF TypeOK, DispatchOK, Exit
<1>5. FilesOK'
  BY DEF TypeOK, FilesOK, Exit
<1> QED BY <1>1, <1>2, <1>3, <1>4, <1>5 DEF TypeOK

LEMMA InitType ==
  Init => TypeOK
<1> SUFFICES ASSUME Init PROVE TypeOK
  OBVIOUS
<1>1. ProcessOK
  BY DEF Init, NoProcess, ProcessOK
<1>2. NetOK
  BY GatewayAssumption DEF Init, NoProcess, NetOK
<1>3. AgentOK
  BY DEF Init, NoProcess, AgentOK
<1>4. DispatchOK
  BY GatewayAssumption DEF Init, NoProcess, DispatchOK
<1>5. FilesOK
  <2>1. upd = [pc |-> "idle", new |-> Blank] /\ mem = Blank /\ bak = Blank /\ accepted = Blank
    BY DEF Init, NoProcess
  <2>2. life = "down" /\ file = setup.file /\ boots = 0 /\ edits = 0
    BY DEF Init
  <2> DEFINE files == {setup.file} \cup setup.updates \cup setup.written
  <2>3. file \in files /\ {mem, accepted} \subseteq files \cup {Blank} /\ bak \in files \cup {Blank, Torn}
    BY <2>1, <2>2
  <2>4. /\ upd \in [pc : {"idle", "backup", "write", "temp", "rename", "remember"}, new : files \cup {Blank}]
        /\ upd.pc = "idle"
    BY <2>1
  <2>5. {boots, edits} \subseteq Nat
    BY <2>2
  <2>6. touched \in BOOLEAN
    BY Zenon DEF Init
  <2>7. upd.pc = "idle" /\ life = "down"
    BY <2>2, <2>4
  <2> QED BY <2>3, <2>4, <2>5, <2>6, <2>7, Zenon DEF FilesOK
<1> QED BY <1>1, <1>2, <1>3, <1>4, <1>5 DEF TypeOK

LEMMA StepType ==
  TypeOK /\ [Next]_vars => TypeOK'
<1> SUFFICES ASSUME TypeOK, [Next]_vars PROVE TypeOK'
  OBVIOUS
<1>1. CASE Exit
  BY <1>1, ExitType
<1>2. CASE Process
  BY <1>1, <1>2, CreateType, StartDispatchersType, OpenServerType, StartChannelType, StopChannelType, StopServerType,
     UnsubscribeType, ForgetType, StopSchedulerType, AgentsStoppedType, CloseBusType
     DEF Process, CreateFails, GiveUp, Stopped
<1>3. CASE Boot \/ Signal \/ Kill \/ PublishWeb \/ HandleEvent
  BY <1>1, <1>3, BootType, SignalType, PublishWebType, HandleEventType DEF Kill
<1>4. CASE \E a \in Accounts : Loop(a) \/ Receive(a) \/ Break(a) \/ Reconnect(a)
  BY <1>4, LockBusType, PublishInboundType, LoopEndsType, ReceiveType, BreakType, ReconnectType DEF Loop
<1>5. CASE Agent
  BY <1>5, AgentTakeType, AgentSayType, AgentResumeType, AgentIdleType, AgentExitType DEF Agent
<1>6. CASE \E d \in Dispatchers : Dispatch(d)
  BY <1>1, <1>6, LookType, TakeType, DispatcherEndsType DEF Dispatch, Panic
<1>7. CASE Outbound
  BY <1>7, SkipType, HandleRequestType, AnswerRequestType, DeliverType, SendEndsType DEF Outbound
<1>8. CASE Manager
  BY <1>8, TruncateType, BackupType, WriteTempType, RenameType, RememberType DEF Manager
<1>9. CASE \E c \in Configs : (c \in setup.updates /\ Update(c)) \/ (c \in setup.written /\ HandEdit(c))
  BY <1>9, UpdateType, HandEditType
<1>10. CASE UNCHANGED vars
  BY <1>10, Kept DEF TypeOK, vars, runVars, dspVars
<1> QED BY <1>2, <1>3, <1>4, <1>5, <1>6, <1>7, <1>8, <1>9, <1>10 DEF Next

(* Every part of the gateway keeps its shape, whatever is stopped, broken  *)
(* or killed.                                                              *)
THEOREM GatewayTypeCorrect == Spec => []TypeOK
<1>1. Init => TypeOK
  BY InitType
<1>2. TypeOK /\ [Next]_vars => TypeOK'
  BY StepType
<1> QED BY <1>1, <1>2, PTL DEF Spec

-----------------------------------------------------------------------------
(* The file.  An update goes on only while the gateway serves or stops,    *)
(* and between the rename and the end of an update the file is what the    *)
(* client sent, unless a user wrote it.                                    *)
Starting == life \in {"down", "create", "start", "abort", "open"}
Renamed == upd.pc = "remember" /\ ~touched => file = upd.new
ConfigInv == (Starting => upd.pc = "idle") /\ Renamed /\ ConfigWhole

(* Most steps leave the files alone and come to no state from where the    *)
(* file is read again.                                                     *)
Aside ==
  UNCHANGED fileVars /\ (life' = "serve" => life = "serve") /\ (Starting' => Starting)

LEMMA AsideSteps ==
  ASSUME TypeOK, Next
  PROVE  \/ Aside \/ Exit \/ OpenServer \/ Manager
         \/ \E c \in Configs : (c \in setup.updates /\ Update(c)) \/ (c \in setup.written /\ HandEdit(c))
<1> USE DEF Aside, Starting
<1>1. CASE Process
  BY <1>1 DEF Process, Create, CreateFails, StartChannel, StartDispatchers, GiveUp, StopServer, Unsubscribe, Forget,
              StopChannel, StopScheduler, AgentsStopped, CloseBus, Stopped, Advance
<1>2. CASE Boot \/ Signal \/ Kill \/ PublishWeb \/ HandleEvent
  BY <1>2 DEF Boot, Signal, Advance, Kill, PublishWeb, HandleEvent
<1>3. CASE \E a \in Accounts : Loop(a) \/ Receive(a) \/ Break(a) \/ Reconnect(a)
  BY <1>3 DEF Loop, LockBus, PublishInbound, LoopEnds, Receive, Break, Reconnect
<1>4. CASE Agent
  BY <1>4 DEF Agent, AgentTake, AgentSay, AgentResume, AgentIdle, AgentExit
<1>5. CASE \E d \in Dispatchers : Dispatch(d)
  BY <1>5 DEF Dispatch, Look, Panic, Take, DispatcherEnds
<1>6. CASE Outbound
  BY <1>6 DEF Outbound, Skip, HandleRequest, AnswerRequest, Deliver, SendEnds
<1> QED BY <1>1, <1>2, <1>3, <1>4, <1>5, <1>6 DEF Next

LEMMA InitConfig ==
  ASSUME Init
  PROVE  ConfigInv
<1>1. file # Torn
  BY GatewayAssumption DEF Init, Whole
<1>2. accepted = Blank /\ life = "down" /\ upd.pc = "idle"
  BY DEF Init, NoProcess
<1> QED BY <1>1, <1>2 DEF ConfigInv, Renamed, ConfigWhole

LEMMA StepConfig ==
  ASSUME TypeOK, ConfigInv, [Next]_vars
  PROVE  ConfigInv'
<1> USE DEF ConfigInv, Renamed, ConfigWhole, Starting
<1>1. CASE Aside \/ UNCHANGED vars
  BY <1>1 DEF Aside, fileVars, vars
<1>2. CASE Exit
  BY <1>2 DEF Exit
<1>3. CASE OpenServer
  BY <1>3 DEF OpenServer
<1>4. CASE Truncate \/ Backup \/ WriteTemp
  BY <1>4 DEF Truncate, Backup, WriteTemp, UpdateStep, TypeOK, FilesOK
<1>5. CASE Rename
  <2>1. upd.new # Torn
    BY <1>5, SetupWhole DEF Rename, UpdateStep, TypeOK, FilesOK, Whole
  <2> QED BY <1>5, <2>1 DEF Rename, UpdateStep, TypeOK, FilesOK
<1>6. CASE Remember
  BY <1>6 DEF Remember, UpdateStep, TypeOK, FilesOK
<1>7. ASSUME NEW c \in setup.updates, Update(c) PROVE ConfigInv'
  BY <1>7 DEF Update, TypeOK, FilesOK
<1>8. ASSUME NEW c \in setup.written, HandEdit(c) PROVE ConfigInv'
  <2>1. c # Torn
    BY <1>8, SetupWhole DEF Whole
  <2> QED BY <1>8, <2>1 DEF HandEdit
<1> QED BY <1>1, <1>2, <1>3, <1>4, <1>5, <1>6, <1>7, <1>8, AsideSteps DEF Manager

(* The configuration file is never half written, what an update            *)
(* acknowledged is what is on the disk, and the manager's copy is, too,    *)
(* unless a user wrote the file: whatever fails or is killed.              *)
THEOREM FileWhole == Spec => []ConfigWhole
<1> DEFINE Inv == TypeOK /\ ConfigInv
<1>1. Init => Inv
  BY InitType, InitConfig
<1>2. Inv /\ [Next]_vars => Inv'
  BY StepType, StepConfig
<1>3. Inv => ConfigWhole
  BY DEF ConfigInv
<1> QED BY <1>1, <1>2, <1>3, PTL DEF Spec

-----------------------------------------------------------------------------
(* The dispatcher.  Before the channels are there nothing was said; then   *)
(* the channels and the bindings are those of the configuration.  What     *)
(* waits for the dispatcher, in its hand and in its subscription, is the   *)
(* end of what was said.                                                   *)
Early == life \in {"down", "create"}
NothingYet ==
  /\ channels = {} /\ said = <<>> /\ handed = <<>> /\ buf["out"] = <<>>
  /\ dsp["out"].pc = "off" /\ agent.pc = "off" /\ ~open["out"]
Off == life \in {"down", "create", "start"} => dsp["out"].pc = "off"
Having == IF dsp["out"].pc = "have" THEN 1 ELSE 0
Waiting ==
  /\ Passed \in Nat
  /\ Having = 1 => dsp["out"].msg = said[Passed + 1]
  /\ \A i \in 1..Len(buf["out"]) : buf["out"][i] = said[Passed + Having + i]
Wired == channels = Registered(config) /\ bound = Bindings(config)
Placed == Len(handed) = Cardinality(Due)
Delivered == \A i \in Due : handed[Cardinality({j \in Due : j <= i})] = <<said[i], Destination(said[i].ch)>>

DispatchInv ==
  /\ Early => NothingYet
  /\ Off
  /\ ~Early => Wired
  /\ Waiting
  /\ ~Early /\ channels # {} => Placed /\ Delivered

(* What there is to count.                                                 *)
LEMMA Lengths ==
  ASSUME TypeOK
  PROVE  /\ Len(said) \in Nat /\ Len(buf["out"]) \in Nat /\ Having \in {0, 1}
         /\ Passed = Len(said) - Len(buf["out"]) - Having
<1>1. said \in Seq(Outgoing) /\ buf["out"] \in Seq(Outgoing)
  BY DEF TypeOK, DispatchOK, Dispatchers
<1>2. Len(said) \in Nat /\ Len(buf["out"]) \in Nat
  <2> HIDE DEF Outgoing
  <2> QED BY <1>1
<1> QED BY <1>2 DEF Passed, Having

LEMMA Counts ==
  ASSUME TypeOK
  PROVE  /\ Len(said) \in Nat /\ Len(buf["out"]) \in Nat /\ Len(handed) \in Nat /\ Having \in {0, 1}
         /\ Passed = Len(said) - Len(buf["out"]) - Having
         /\ said \in Seq(Outgoing) /\ buf["out"] \in Seq(Outgoing) /\ handed \in Seq(Outgoing \X Accounts)
<1>1. /\ said \in Seq(Outgoing) /\ buf["out"] \in Seq(Outgoing) /\ handed \in Seq(Outgoing \X Accounts)
  BY DEF TypeOK, DispatchOK, Dispatchers
<1>2. Len(said) \in Nat /\ Len(buf["out"]) \in Nat /\ Len(handed) \in Nat
  <2> HIDE DEF Outgoing
  <2> QED BY <1>1
<1> QED BY <1>1, <1>2 DEF Passed, Having

LEMMA DueCounted ==
  ASSUME TypeOK, Waiting
  PROVE  /\ Due \in SUBSET (1..Passed) /\ IsFiniteSet(Due) /\ Cardinality(Due) \in Nat
         /\ \A i \in Due : Cardinality({j \in Due : j <= i}) \in 1..Cardinality(Due)
<1>1. Due \in SUBSET (1..Passed) /\ Passed \in Nat
  BY DEF Due, Waiting
<1>2. IsFiniteSet(Due)
  <2>1. IsFiniteSet(1..Passed)
    BY <1>1, FS_Interval
  <2> QED BY <1>1, <2>1, FS_Subset
<1>3. Cardinality(Due) \in Nat
  BY <1>2, FS_CardinalityType
<1>4. ASSUME NEW i \in Due PROVE Cardinality({j \in Due : j <= i}) \in 1..Cardinality(Due)
  <2> DEFINE D == {j \in Due : j <= i}
  <2>1. D \in SUBSET Due /\ D # {}
    BY <1>1
  <2>2. IsFiniteSet(D) /\ Cardinality(D) <= Cardinality(Due)
    BY <1>2, <2>1, FS_Subset
  <2>3. Cardinality(D) \in Nat /\ Cardinality(D) # 0
    BY <2>1, <2>2, FS_CardinalityType, FS_EmptySet
  <2> HIDE DEF D
  <2>4. Cardinality(D) \in 1..Cardinality(Due)
    BY <1>3, <2>2, <2>3
  <2> QED BY <2>4 DEF D
<1> QED BY <1>1, <1>2, <1>3, <1>4

(* If what was passed on is the same, so is what was due.                  *)
LEMMA SameDue ==
  ASSUME UNCHANGED <<config, channels, handed>>, Passed' = Passed, \A i \in 1..Passed : said'[i] = said[i]
  PROVE  Due' = Due /\ (Placed => Placed') /\ (Delivered => Delivered')
<1>1. \A o : Destination(o)' = Destination(o)
  BY DEF Destination
<1>2. Due' = Due
  BY <1>1 DEF Due
<1>3. Due \subseteq 1..Passed
  BY DEF Due
<1>4. Placed => Placed'
  BY <1>2 DEF Placed
<1>5. Delivered => Delivered'
  BY <1>1, <1>2, <1>3 DEF Delivered
<1> QED BY <1>2, <1>4, <1>5

(* A step that leaves the dispatcher of outbound messages alone, or moves  *)
(* it between places where it has nothing in hand.                         *)
Beside ==
  /\ UNCHANGED <<config, channels, bound, said, handed>> /\ buf'["out"] = buf["out"] /\ Having' = Having
  /\ Having = 1 => dsp'["out"].msg = dsp["out"].msg
  /\ Early' => Early /\ dsp'["out"].pc = dsp["out"].pc /\ agent'.pc = agent.pc /\ open'["out"] = open["out"]
  /\ Early => Early'
  /\ Off'

LEMMA BesideKeeps ==
  ASSUME TypeOK, DispatchInv, Beside
  PROVE  DispatchInv'
<1>1. Passed' = Passed
  BY DEF Beside, Passed, Having
<1>2. (Early => NothingYet)'
  BY DEF Beside, DispatchInv, NothingYet
<1>3. (~Early => Wired)'
  BY DEF Beside, DispatchInv, Wired
<1>4. Waiting'
  BY <1>1 DEF Beside, DispatchInv, Waiting
<1>5. (~Early /\ channels # {} => Placed /\ Delivered)'
  BY <1>1, SameDue DEF Beside, DispatchInv
<1> QED BY <1>2, <1>3, <1>4, <1>5 DEF DispatchInv, Beside

(* What is said joins the end of what waits.                               *)
LEMMA SayKeeps ==
  ASSUME TypeOK, DispatchInv, ~Early, NEW msg \in Outgoing, Broadcast("out", msg),
         UNCHANGED <<config, channels, bound, handed, life>>, Having' = Having, Off',
         Having = 1 => dsp'["out"].msg = dsp["out"].msg
  PROVE  DispatchInv'
<1>1. CASE UNCHANGED <<buf, said>>
  BY <1>1, BesideKeeps DEF Beside, Early
<1>2. CASE ~UNCHANGED <<buf, said>>
  <2>1. buf' = [buf EXCEPT !["out"] = Append(@, msg)] /\ said' = Append(said, msg)
    BY <1>2 DEF Broadcast
  <2>2. buf'["out"] = Append(buf["out"], msg)
    BY <2>1 DEF TypeOK, DispatchOK, Dispatchers
  <2>3. /\ Len(said') = Len(said) + 1 /\ Len(buf'["out"]) = Len(buf["out"]) + 1
        /\ said'[Len(said) + 1] = msg /\ buf'["out"][Len(buf["out"]) + 1] = msg
        /\ \A i \in 1..Len(said) : said'[i] = said[i]
        /\ \A i \in 1..Len(buf["out"]) : buf'["out"][i] = buf["out"][i]
    <3> HIDE DEF Outgoing
    <3> QED BY <2>1, <2>2, Counts
  <2>4. Passed' = Passed /\ Passed \in Nat /\ Passed + Having + Len(buf["out"]) = Len(said)
    BY <2>3, Counts DEF Passed, Having, DispatchInv, Waiting
  <2>5. Waiting'
    <3>1. Having' = 1 => dsp'["out"].msg = said'[Passed' + 1]
      <4>1. SUFFICES ASSUME Having = 1 PROVE dsp'["out"].msg = said'[Passed' + 1]
        OBVIOUS
      <4>2. Passed + 1 \in 1..Len(said)
        <5>1. Passed + 1 + Len(buf["out"]) = Len(said)
          BY <2>4, <4>1
        <5>2. \A x, y \in Nat : x + 1 \in 1..(x + 1 + y)
          OBVIOUS
        <5>3. Len(buf["out"]) \in Nat /\ Passed \in Nat
          BY <2>4, Lengths
        <5> QED BY <5>1, <5>2, <5>3, Zenon
      <4> QED BY <2>3, <2>4, <4>1, <4>2 DEF DispatchInv, Waiting
    <3>2. ASSUME NEW i \in 1..Len(buf'["out"]) PROVE buf'["out"][i] = said'[Passed' + Having' + i]
      <4>1. CASE i = Len(buf["out"]) + 1
        <5>1. Passed + Having + i = Len(said) + 1
          BY <2>4, <4>1, Lengths
        <5> QED BY <2>3, <2>4, <4>1, <5>1
      <4>2. CASE i # Len(buf["out"]) + 1
        <5>1. i \in 1..Len(buf["out"])
          <6>1. i \in 1..(Len(buf["out"]) + 1)
            BY <2>3
          <6> QED BY <4>2, <6>1, Lengths
        <5>2. Passed + Having + i \in 1..Len(said)
          BY <2>4, <5>1, Lengths
        <5> QED BY <2>3, <2>4, <5>1, <5>2 DEF DispatchInv, Waiting
      <4> QED BY <4>1, <4>2
    <3>3. Passed' \in Nat
      BY <2>4
    <3> QED BY <3>1, <3>2, <3>3 DEF Waiting
  <2>6. (~Early /\ channels # {} => Placed /\ Delivered)'
    <3>1. \A i \in 1..Passed : said'[i] = said[i]
      BY <2>3, <2>4, Counts
    <3> QED BY <2>4, <3>1, SameDue DEF DispatchInv, Early
  <2>7. (~Early => Wired)' /\ ~Early' /\ Off'
    BY DEF DispatchInv, Wired, Early
  <2> QED BY <2>5, <2>6, <2>7 DEF DispatchInv
<1> QED BY <1>1, <1>2

LEMMA TakeKeeps ==
  ASSUME TypeOK, DispatchInv, Take("out")
  PROVE  DispatchInv'
<1> DEFINE b == buf["out"]
<1>1. /\ Having = 0 /\ Having' = 1 /\ b # <<>> /\ dsp'["out"].msg = Head(b) /\ buf'["out"] = Tail(b)
      /\ UNCHANGED <<config, channels, bound, said, handed, life>> /\ ~Early
  BY DEF Take, TypeOK, DispatchOK, Dispatchers, Having, runVars, DispatchInv, NothingYet
<1>2. /\ Len(b) \in Nat /\ Len(b) # 0 /\ Len(Tail(b)) = Len(b) - 1 /\ Head(b) = b[1]
      /\ \A i \in 1..(Len(b) - 1) : Tail(b)[i] = b[i + 1]
  <2>1. b \in Seq(Outgoing)
    BY Counts
  <2> HIDE DEF b, Outgoing
  <2> QED BY <1>1, <2>1
<1>3. Passed' = Passed /\ Passed \in Nat
  <2>1. Passed \in Nat /\ Passed = Len(said) - Len(b) - 0
    BY <1>1, Lengths DEF DispatchInv, Waiting
  <2>2. Passed' = Len(said) - Len(Tail(b)) - 1
    BY <1>1 DEF Passed, Having
  <2>3. Len(said) \in Nat /\ Len(b) \in Nat /\ Len(Tail(b)) = Len(b) - 1
    BY <1>2, Lengths
  <2>4. Len(said) - Len(Tail(b)) - 1 = Len(said) - Len(b) - 0
    <3>1. \A x, y, z \in Int : z = y - 1 => x - z - 1 = x - y - 0
      OBVIOUS
    <3>2. Len(said) \in Int /\ Len(b) \in Int /\ Len(Tail(b)) \in Int
      BY <1>1, <1>2, Lengths
    <3> QED BY <2>3, <3>1, <3>2, Zenon
  <2> QED BY <2>1, <2>2, <2>4, Zenon
<1>4. Waiting'
  <2>1. dsp'["out"].msg = said[Passed + 1]
    BY <1>1, <1>2, <1>3 DEF DispatchInv, Waiting
  <2>2. ASSUME NEW i \in 1..Len(Tail(b)) PROVE Tail(b)[i] = said[Passed + 1 + i]
    <3>1. i + 1 \in 1..Len(b) /\ i \in 1..(Len(b) - 1) /\ Passed + 0 + (i + 1) = Passed + 1 + i
      BY <1>2, <1>3
    <3>2. b[i + 1] = said[Passed + 0 + (i + 1)]
      BY <1>1, <3>1 DEF DispatchInv, Waiting
    <3> QED BY <1>2, <3>1, <3>2
  <2> HIDE DEF b
  <2> QED BY <1>1, <1>3, <2>1, <2>2 DEF Waiting
<1>5. (~Early /\ channels # {} => Placed /\ Delivered)'
  BY <1>1, <1>3, SameDue DEF DispatchInv, Early
<1>6. (~Early => Wired)' /\ ~Early'
  BY <1>1 DEF DispatchInv, Wired, Early
<1>7. Off'
  BY <1>1 DEF DispatchInv, Off, Take
<1> QED BY <1>4, <1>5, <1>6, <1>7 DEF DispatchInv

(* A message that leaves the dispatcher's hand.                            *)
Passes ==
  /\ dsp["out"].pc = "have" /\ Having' = 0 /\ buf'["out"] = buf["out"]
  /\ UNCHANGED <<config, channels, bound, said, life>>

LEMMA PassesOn ==
  ASSUME TypeOK, DispatchInv, Passes
  PROVE  /\ Having = 1 /\ Passed' = Passed + 1 /\ Passed \in Nat /\ dsp["out"].msg = said[Passed + 1]
         /\ Waiting' /\ ~Early /\ ~Early' /\ Wired' /\ Off'
<1>1. Having = 1 /\ Passed' = Passed + 1 /\ Passed \in Nat /\ dsp["out"].msg = said[Passed + 1]
  BY Counts DEF Passes, Passed, Having, DispatchInv, Waiting
<1>2. ~Early /\ ~Early' /\ Wired' /\ Off'
  BY DEF DispatchInv, NothingYet, Passes, Early, Wired, Off
<1>3. Waiting'
  <2>1. ASSUME NEW i \in 1..Len(buf["out"]) PROVE buf["out"][i] = said[Passed' + 0 + i]
    <3>1. Passed' + 0 + i = Passed + 1 + i
      BY <1>1, Counts
    <3> QED BY <1>1, <3>1 DEF DispatchInv, Waiting
  <2> QED BY <1>1, <2>1 DEF Passes, Waiting
<1> QED BY <1>1, <1>2, <1>3

LEMMA PassesBy ==
  ASSUME TypeOK, DispatchInv, Passes, UNCHANGED handed,
         channels # {} => ~(/\ dsp["out"].msg.kind \in {"stream", "final"}
                            /\ Destination(dsp["out"].msg.ch) \in channels)
  PROVE  DispatchInv'
<1>1. /\ Passed' = Passed + 1 /\ Passed \in Nat /\ dsp["out"].msg = said[Passed + 1]
      /\ Waiting' /\ ~Early /\ ~Early' /\ Wired' /\ Off'
  BY PassesOn
<1>2. ASSUME channels # {} PROVE Placed' /\ Delivered'
  <2>1. Placed /\ Delivered
    BY <1>1, <1>2 DEF DispatchInv
  <2>2. \A o : Destination(o)' = Destination(o)
    BY DEF Destination, Passes
  <2>3. 1..(Passed + 1) = (1..Passed) \cup {Passed + 1}
    BY <1>1
  <2>4. Due' = {i \in 1..(Passed + 1) : said[i].kind \in {"stream", "final"} /\ Destination(said[i].ch) \in channels}
    BY <1>1, <2>2 DEF Due, Passes
  <2>5. Due' = Due
    BY <1>1, <1>2, <2>3, <2>4 DEF Due
  <2>6. Placed'
    BY <2>1, <2>5 DEF Placed
  <2>7. Delivered'
    BY <2>1, <2>2, <2>5 DEF Delivered, Passes
  <2> QED BY <2>6, <2>7
<1>3. channels' = channels
  BY DEF Passes
<1> QED BY <1>1, <1>2, <1>3 DEF DispatchInv

LEMMA PassesTo ==
  ASSUME TypeOK, DispatchInv, Passes, channels # {}, dsp["out"].msg.kind \in {"stream", "final"},
         NEW target, target = Destination(dsp["out"].msg.ch), target \in channels,
         handed' = Append(handed, <<dsp["out"].msg, target>>)
  PROVE  DispatchInv'
<1>1. /\ Passed' = Passed + 1 /\ Passed \in Nat /\ dsp["out"].msg = said[Passed + 1]
      /\ Waiting' /\ ~Early /\ ~Early' /\ Wired' /\ Off'
  BY PassesOn
<1>2. Placed /\ Delivered
  BY <1>1 DEF DispatchInv
<1>3. \A o : Destination(o)' = Destination(o)
  BY DEF Destination, Passes
<1>4. 1..(Passed + 1) = (1..Passed) \cup {Passed + 1}
  BY <1>1
<1> DEFINE p == Passed + 1
<1>5. Due' = Due \cup {p} /\ p \notin Due /\ \A i \in Due : i < p /\ i \in 1..Passed
  <2>1. Due' = {i \in 1..(Passed + 1) : said[i].kind \in {"stream", "final"} /\ Destination(said[i].ch) \in channels}
    BY <1>1, <1>3 DEF Due, Passes
  <2> QED BY <1>1, <1>4, <2>1 DEF Due
<1>6. /\ IsFiniteSet(Due) /\ Cardinality(Due) \in Nat
      /\ \A i \in Due : Cardinality({j \in Due : j <= i}) \in 1..Cardinality(Due)
  <2>1. Waiting
    BY DEF DispatchInv
  <2> QED BY <2>1, DueCounted
<1>7. Cardinality(Due') = Cardinality(Due) + 1
  BY <1>5, <1>6, FS_AddElement
<1>8. /\ Len(handed') = Len(handed) + 1 /\ handed'[Len(handed) + 1] = <<said[p], target>>
      /\ \A i \in 1..Len(handed) : handed'[i] = handed[i]
  <2>1. handed \in Seq(Outgoing \X Accounts)
    BY Counts
  <2>2. <<said[p], target>> = <<dsp["out"].msg, target>>
    BY <1>1
  <2> HIDE DEF Outgoing, p
  <2> QED BY <2>1, <2>2
<1>9. Placed'
  BY <1>2, <1>7, <1>8 DEF Placed
<1>10. ASSUME NEW i \in Due' PROVE handed'[Cardinality({j \in Due' : j <= i})] = <<said[i], Destination(said[i].ch)>>
  <2>1. CASE i = p
    <3>1. \A j \in Due' : j <= p
      <4>1. p \in Int /\ \A j \in Due : j < p /\ j \in Int
        BY <1>1, <1>5
      <4>2. Due' = Due \cup {p}
        BY <1>5
      <4> HIDE DEF Due, p
      <4> QED BY <4>1, <4>2
    <3>3. {j \in Due' : j <= i} = Due'
      <4> HIDE DEF Due, p
      <4> QED BY <2>1, <3>1
    <3>2. Cardinality({j \in Due' : j <= i}) = Len(handed) + 1
      BY <1>2, <1>7, <3>3 DEF Placed
    <3> HIDE DEF p
    <3> QED BY <1>1, <1>8, <2>1, <3>2 DEF p
  <2>2. CASE i # p
    <3>1. i \in Due /\ {j \in Due' : j <= i} = {j \in Due : j <= i}
      BY <1>1, <1>5, <2>2
    <3>2. Cardinality({j \in Due : j <= i}) \in 1..Len(handed)
      BY <1>2, <1>6, <3>1 DEF Placed
    <3> QED BY <1>2, <1>8, <3>1, <3>2 DEF Delivered
  <2> QED BY <2>1, <2>2
<1>11. Delivered'
  BY <1>3, <1>10 DEF Delivered, Passes
<1> QED BY <1>1, <1>9, <1>11 DEF DispatchInv

LEMMA EmptyKeeps ==
  ASSUME TypeOK', NothingYet', Early'
  PROVE  DispatchInv'
<1>1. Len(said)' = 0 /\ Len(buf["out"])' = 0 /\ Having' = 0
  BY DEF NothingYet, Having
<1>2. Passed' = 0
  <2>1. Passed' = Len(said)' - Len(buf["out"])' - Having'
    BY DEF Passed, Having
  <2> QED BY <1>1, <2>1
<1>3. Waiting'
  BY <1>1, <1>2 DEF Waiting
<1> QED BY <1>3 DEF DispatchInv, Off, Early, NothingYet

LEMMA CreateKeeps ==
  ASSUME TypeOK, DispatchInv, Create
  PROVE  DispatchInv'
<1>1. /\ said' = <<>> /\ handed' = <<>> /\ buf'["out"] = <<>> /\ dsp'["out"].pc = "off" /\ life' = "start"
      /\ Wired'
  BY DEF Create, DispatchInv, NothingYet, Early, dspVars, Wired
<1>2. Having' = 0 /\ Len(said') = 0 /\ Len(buf'["out"]) = 0 /\ Len(handed') = 0
  BY <1>1 DEF Having
<1>3. Passed' = 0
  <2>1. Passed' = Len(said') - Len(buf'["out"]) - Having'
    BY DEF Passed, Having
  <2> QED BY <1>2, <2>1
<1>4. Due' = {}
  BY <1>3 DEF Due
<1>5. Placed' /\ Delivered' /\ Waiting'
  BY <1>2, <1>3, <1>4, FS_EmptySet DEF Placed, Delivered, Waiting
<1> QED BY <1>1, <1>5 DEF DispatchInv, Off, Early

LEMMA SayStep ==
  ASSUME TypeOK, DispatchInv, AgentSay
  PROVE  DispatchInv'
<1> DEFINE msg == Head(agent.todo)
<1>1. msg \in Outgoing
  BY SequenceSteps DEF TypeOK, AgentOK, AgentSay
<1>2. /\ ~Early /\ UNCHANGED <<config, channels, bound, handed, life, dsp, open>>
      /\ Having' = Having /\ Off'
  BY DEF AgentSay, runVars, DispatchInv, NothingYet, Having, Off
<1>3. CASE Broadcast("out", msg)
  <2> HIDE DEF msg
  <2> QED BY <1>1, <1>2, <1>3, SayKeeps
<1>4. CASE Broadcast("chat", msg)
  <2>1. said' = said /\ buf'["out"] = buf["out"]
    BY <1>4 DEF Broadcast, TypeOK, DispatchOK, Dispatchers
  <2>2. Beside
    BY <1>2, <2>1 DEF Beside, Early
  <2> QED BY <2>2, BesideKeeps
<1> QED BY <1>3, <1>4 DEF AgentSay

LEMMA AnswerStep ==
  ASSUME TypeOK, DispatchInv, AnswerRequest
  PROVE  DispatchInv'
<1> DEFINE msg == dsp["out"].msg
           response == [msg EXCEPT !.kind = "response"]
<1>1. response \in Outgoing
  BY DEF TypeOK, DispatchOK, AnswerRequest, Dispatchers, Outgoing
<1>2. /\ ~Early /\ UNCHANGED <<config, channels, bound, handed, life, open>> /\ dsp'["out"].pc = "look"
      /\ Having' = 0 /\ Having = 0 /\ Off'
  BY DEF AnswerRequest, Back, runVars, DispatchInv, NothingYet, Having, Off, Early, TypeOK, DispatchOK, Dispatchers
<1>3. CASE Broadcast("out", response)
  <2> HIDE DEF response
  <2> QED BY <1>1, <1>2, <1>3, SayKeeps
<1>4. CASE UNCHANGED <<buf, said>>
  <2>1. Beside
    BY <1>2, <1>4 DEF Beside, Early
  <2> QED BY <2>1, BesideKeeps
<1> QED BY <1>3, <1>4 DEF AnswerRequest

LEMMA DeliverStep ==
  ASSUME TypeOK, DispatchInv, Deliver
  PROVE  DispatchInv'
<1> DEFINE msg == dsp["out"].msg
           target == ResolveChannel(bound, msg.ch)
<1>1. Passes
  BY DEF Deliver, Back, Passes, Having, runVars, TypeOK, DispatchOK, Dispatchers
<1>2. Wired /\ ~Early
  BY <1>1, PassesOn DEF DispatchInv
<1>3. channels # {} => target = Destination(msg.ch)
  <2>1. SUFFICES ASSUME channels # {} PROVE target = Destination(msg.ch)
    OBVIOUS
  <2>2. ~ChannelsFail(config) /\ bound = Bindings(config)
    BY <1>2, <2>1 DEF Wired, Registered
  <2>3. Whole(config)
    BY <1>2, SetupWhole DEF TypeOK, FilesOK, Early
  <2>4. target = Target(config, msg.ch)
    BY <2>2, <2>3, Resolved
  <2> QED BY <2>4 DEF Target, Latest, Destination
<1>4. CASE target \in channels
  <2>1. channels # {} /\ target = Destination(msg.ch) /\ handed' = Append(handed, <<msg, target>>)
    BY <1>3, <1>4 DEF Deliver
  <2>2. msg.kind \in {"stream", "final"}
    BY DEF Deliver
  <2> HIDE DEF target
  <2> QED BY <1>1, <1>4, <2>1, <2>2, PassesTo
<1>5. CASE target \notin channels
  <2>1. UNCHANGED handed
    BY <1>5 DEF Deliver
  <2> QED BY <1>1, <1>3, <1>5, <2>1, PassesBy
<1> QED BY <1>4, <1>5

LEMMA OtherStep ==
  ASSUME TypeOK, DispatchInv, Skip \/ HandleRequest
  PROVE  DispatchInv'
<1>1. Passes /\ UNCHANGED handed
  BY DEF Skip, HandleRequest, Back, Passes, Having, runVars, TypeOK, DispatchOK, Dispatchers
<1>2. dsp["out"].msg.kind \notin {"stream", "final"}
  BY DEF Skip, HandleRequest, Requests
<1> QED BY <1>1, <1>2, PassesBy

LEMMA BesideSteps ==
  ASSUME TypeOK, DispatchInv, [Next]_vars
  PROVE  \/ Beside \/ Exit \/ Boot \/ Create \/ AgentSay \/ AnswerRequest \/ Deliver \/ Skip \/ HandleRequest
         \/ Take("out")
<1> USE DEF Beside, Having, Off, Early, DispatchInv, runVars, dspVars
<1>1. CASE StartDispatchers \/ OpenServer \/ (\E a \in Accounts : StartChannel(a) \/ StopChannel(a))
  BY <1>1 DEF StartDispatchers, OpenServer, StartChannel, StopChannel, Dispatchers, TypeOK, DispatchOK
<1>2. CASE Signal \/ StopServer \/ StopScheduler \/ AgentsStopped \/ CloseBus
  BY <1>2 DEF Signal, StopServer, StopScheduler, AgentsStopped, CloseBus, Advance
<1>3. CASE \E d \in Dispatchers : Unsubscribe(d) \/ Forget(d)
  BY <1>3 DEF Unsubscribe, Forget, Advance
<1>4. CASE \E a \in Accounts : Loop(a) \/ Receive(a) \/ Break(a) \/ Reconnect(a)
  BY <1>4 DEF Loop, LockBus, PublishInbound, LoopEnds, Receive, Break, Reconnect
<1>5. CASE PublishWeb \/ UNCHANGED vars
  BY <1>5 DEF PublishWeb, vars
<1>6. CASE AgentTake \/ AgentResume \/ AgentIdle \/ AgentExit
  BY <1>6 DEF AgentTake, AgentResume, AgentIdle, AgentExit, NothingYet
<1>7. ASSUME NEW d \in Dispatchers, Look(d) \/ DispatcherEnds(d) PROVE Beside
  BY <1>7 DEF Look, DispatcherEnds, Dispatchers, TypeOK, DispatchOK
<1>8. CASE Take("chat")
  BY <1>8 DEF Take, Dispatchers, TypeOK, DispatchOK
<1>9. CASE SendEnds \/ HandleEvent
  BY <1>9, ZenonT(40) DEF SendEnds, HandleEvent, Back, Dispatchers, TypeOK, DispatchOK
<1>10. CASE Manager
  BY <1>10 DEF Manager, Truncate, Backup, WriteTemp, Rename, Remember, UpdateStep
<1>11. ASSUME NEW c, Update(c) \/ HandEdit(c) PROVE Beside
  BY <1>11 DEF Update, HandEdit
<1>12. CASE Process
  BY <1>1, <1>2, <1>3, <1>12 DEF Process, CreateFails, GiveUp, Stopped
<1>13. CASE Agent
  BY <1>6, <1>13 DEF Agent
<1>14. CASE \E d \in Dispatchers : Dispatch(d)
  BY <1>7, <1>8, <1>14 DEF Dispatch, Panic, Dispatchers
<1>15. CASE Outbound
  BY <1>9, <1>15 DEF Outbound
<1> QED BY <1>2, <1>4, <1>5, <1>9, <1>10, <1>11, <1>12, <1>13, <1>14, <1>15 DEF Next, Kill

LEMMA StepDispatch ==
  ASSUME TypeOK, DispatchInv, [Next]_vars
  PROVE  DispatchInv'
<1>1. TypeOK'
  BY StepType
<1>2. CASE Exit
  <2>1. NothingYet' /\ Early'
    BY <1>2 DEF Exit, NothingYet, Early, Dispatchers
  <2> QED BY <1>1, <2>1, EmptyKeeps
<1>3. CASE Boot
  <2>1. NothingYet' /\ Early'
    BY <1>3 DEF Boot, NothingYet, Early, dspVars, DispatchInv
  <2> QED BY <1>1, <2>1, EmptyKeeps
<1> QED BY <1>2, <1>3, BesideSteps, BesideKeeps, CreateKeeps, SayStep, AnswerStep, DeliverStep, OtherStep, TakeKeeps

(* The dispatcher gives every message once, in the order of the bus, to    *)
(* the channel its chat is bound to, and requests and responses to none:   *)
(* for any accounts, configurations and buffers.                           *)
THEOREM DispatchedOnce == Spec => []Dispatched
<1> DEFINE Inv == TypeOK /\ DispatchInv
<1>1. Init => Inv
  <2> SUFFICES ASSUME Init PROVE Inv
    OBVIOUS
  <2>1. NothingYet /\ Early
    BY DEF Init, NoProcess, NothingYet, Early, Dispatchers
  <2>2. Having = 0 /\ Len(said) = 0 /\ Len(buf["out"]) = 0
    BY <2>1 DEF NothingYet, Having
  <2>3. Passed = 0
    <3>1. Passed = Len(said) - Len(buf["out"]) - Having
      BY DEF Passed, Having
    <3> QED BY <2>2, <3>1
  <2> QED BY <2>1, <2>2, <2>3, InitType DEF DispatchInv, Waiting, Off, NothingYet
<1>2. Inv /\ [Next]_vars => Inv'
  BY StepType, StepDispatch
<1>3. Inv => Dispatched
  BY DEF DispatchInv, NothingYet, Early, Placed, Delivered, Dispatched
<1> QED BY <1>1, <1>2, <1>3, PTL DEF Spec

-----------------------------------------------------------------------------
(* What a callback is answered with.  A message to the agent carries the   *)
(* request id of its frame, and the type of its event if it has one.       *)
LEMMA InboundOf ==
  ASSUME NEW f, Callback(f), Inbound(f) # None
  PROVE  /\ Inbound(f).id = f.req /\ Inbound(f).meta.req = f.req /\ Inbound(f).meta # NoMeta
         /\ f.cmd = "aibot_msg_callback" => Inbound(f).meta.event = None
         /\ f.cmd = "aibot_event_callback" =>
              Inbound(f).meta.event = f.event /\ f.event # None /\ f.event \in Published
<1>1. CASE f.cmd = "aibot_msg_callback"
  <2>1. Inbound(f) = HandleMessage(f)
    BY <1>1 DEF Inbound
  <2> DEFINE in == ConvertToInbound(ParseInboundMessage(f), f.req)
  <2>2. HandleMessage(f) = ProcessMedia(in, f.file)
    BY <2>1 DEF HandleMessage
  <2>3. in.id = f.req /\ in.meta = [req |-> f.req, event |-> None]
    BY DEF ConvertToInbound
  <2>4. ProcessMedia(in, f.file).id = in.id /\ ProcessMedia(in, f.file).meta = in.meta
    BY DEF ProcessMedia, ConvertToInbound
  <2> HIDE DEF in
  <2> QED BY <1>1, <2>1, <2>2, <2>3, <2>4 DEF Callback, NoMeta
<1>2. CASE f.cmd = "aibot_event_callback"
  <2>1. Inbound(f) = HandleEventFrame(f)
    BY <1>2 DEF Inbound
  <2>2. f.event # None /\ f.event \in Published
    BY <2>1 DEF HandleEventFrame, ParseEvent
  <2>3. Inbound(f).id = f.req /\ Inbound(f).meta = [req |-> f.req, event |-> f.event]
    BY <2>1, <2>2 DEF HandleEventFrame, ParseEvent
  <2> QED BY <1>2, <2>2, <2>3 DEF Callback, NoMeta
<1> QED BY <1>1, <1>2 DEF Callback

(* The frame of a message with the metadata of a callback, and of one      *)
(* without.                                                                *)
Final(req, cmd, kind, text, to) == Frame(req, cmd, kind, TRUE, text, to)

LEMMA FrameParts ==
  ASSUME NEW req, NEW cmd, NEW kind, NEW text, NEW to, NEW frame, frame = Final(req, cmd, kind, text, to)
  PROVE  frame.req = req /\ frame.cmd = cmd /\ frame.finish /\ frame.text = text /\ frame.to = to
BY DEF Final, Frame

LEMMA SentWithMeta ==
  ASSUME NEW f, Callback(f), Inbound(f) # None, NEW msg, msg.meta = Inbound(f).meta, msg.reply = Inbound(f).id
  PROVE  /\ Send(msg).req = f.req /\ Send(msg).finish /\ Send(msg).to = None
         /\ \A how : how \notin {"interrupt", "error"} => Send(msg).cmd = CommandOf(f, how)
         /\ msg.text = None /\ msg.think = None => Send(msg).text \in {None, <<"hello">>}
         /\ msg.text # None =>
              Send(msg).text = msg.text \/ (msg.think # None /\ Send(msg).text = msg.think \o msg.text)
<1> DEFINE in == Inbound(f)
<1>1. msg.meta = in.meta /\ msg.reply = in.id
  OBVIOUS
<1>2. /\ in.id = f.req /\ in.meta.req = f.req /\ in.meta # NoMeta /\ f.req # None
      /\ f.cmd = "aibot_msg_callback" => in.meta.event = None
      /\ f.cmd = "aibot_event_callback" => in.meta.event = f.event /\ f.event # None /\ f.event \in Published
  BY InboundOf DEF Callback
<1>3. RequestId(msg) = f.req
  BY <1>1, <1>2 DEF RequestId
<1>4. CASE f.cmd = "aibot_msg_callback"
  <2>1. Send(msg) = Final(f.req, "aibot_respond_msg", "stream", ConvertOutboundToReply(msg), None)
    BY <1>1, <1>2, <1>3, <1>4 DEF Send, Final
  <2>2. /\ Send(msg).req = f.req /\ Send(msg).cmd = "aibot_respond_msg" /\ Send(msg).finish
        /\ Send(msg).text = ConvertOutboundToReply(msg) /\ Send(msg).to = None
    BY <2>1, FrameParts
  <2> QED BY <1>1, <1>4, <2>2 DEF CommandOf, ConvertOutboundToReply
<1>5. CASE f.cmd = "aibot_event_callback"
  <2>1. Send(msg) = SendEventReply(msg) /\ msg.meta.event = f.event
    BY <1>1, <1>2, <1>5 DEF Send
  <2>2. f.event = "enter_chat" \/ f.event = "template_card_event" \/ f.event = "feedback_event"
    BY <1>2, <1>5 DEF Published
  <2>3. f.event = "enter_chat" =>
          Send(msg) = Final(f.req, "aibot_respond_welcome_msg", "text", IF msg.text = None THEN <<"hello">> ELSE msg.text, None)
    BY <1>1, <1>3, <2>1 DEF SendEventReply, Final
  <2>4. f.event = "template_card_event" =>
          Send(msg) = Final(f.req, "aibot_respond_update_msg", "card", msg.text, None)
    BY <1>1, <1>3, <2>1 DEF SendEventReply, Final
  <2>5. f.event = "feedback_event" =>
          Send(msg) = Final(f.req, "aibot_respond_welcome_msg", "text", msg.text, None)
    BY <1>1, <1>3, <2>1 DEF SendEventReply, Final
  <2>6. PICK cmd, kind, text : /\ Send(msg) = Final(f.req, cmd, kind, text, None)
                               /\ \A how : how \notin {"interrupt", "error"} => cmd = CommandOf(f, how)
                               /\ text = msg.text \/ (msg.text = None /\ text = <<"hello">>)
    BY <1>5, <2>2, <2>3, <2>4, <2>5 DEF CommandOf
  <2>7. /\ Send(msg).req = f.req /\ Send(msg).cmd = cmd /\ Send(msg).finish
        /\ Send(msg).text = text /\ Send(msg).to = None
    BY <2>6, FrameParts
  <2> QED BY <2>6, <2>7
<1> QED BY <1>4, <1>5 DEF Callback

LEMMA SentWithoutMeta ==
  ASSUME NEW f, Callback(f), Inbound(f) # None, NEW text, NEW msg, msg = Message(Inbound(f), FALSE, TRUE, text, NoMeta)
  PROVE  Send(msg) = Frame(f.req, "aibot_respond_msg", "stream", TRUE, text, Inbound(f).chat)
<1>1. /\ msg.meta = NoMeta /\ msg.text = text /\ msg.think = None /\ msg.reply = f.req /\ msg.chat = Inbound(f).chat
  BY InboundOf DEF Message
<1>2. NoMeta.event = None /\ NoMeta.req = None
  BY DEF NoMeta
<1> QED BY <1>1, <1>2 DEF Send, RequestId, ConvertOutboundToReply

(* What the event loop publishes of a run: its chunks, and the final of an *)
(* announced answer behind them.                                           *)
Breaks == {"error", "interrupt"}
Chunks(how, chunks) == IF how \in {"stream"} \cup Breaks THEN Len(chunks) ELSE 0
Closes(how, announced) == how \in {"stream", "whole"} /\ announced

LEMMA StreamedParts ==
  ASSUME NEW chunks, Len(chunks) \in Nat, DOMAIN chunks = 1..Len(chunks), NEW in, NEW how, NEW announced \in BOOLEAN,
         NEW text, NEW think, NEW events, events = Streamed(in, how, chunks, announced, text, think),
         NEW n, n = Chunks(how, chunks)
  PROVE  /\ n \in 0..Len(chunks)
         /\ DOMAIN events = 1..Len(events) /\ events \in Seq(Range(events))
         /\ Len(events) = IF Closes(how, announced) THEN n + 1 ELSE n
         /\ \A i \in 1..n : events[i] = PublishStreamOutbound(in, chunks[i])
         /\ Closes(how, announced) => events[n + 1] = PublishFinalOutbound(in, text, think)
<1> DEFINE middle == IF how \in {"stream"} \cup Breaks THEN [i \in DOMAIN chunks |-> PublishStreamOutbound(in, chunks[i])] ELSE <<>>
           last == PublishFinalOutbound(in, text, think)
           end == IF Closes(how, announced) THEN <<last>> ELSE <<>>
           Said == {PublishStreamOutbound(in, chunks[i]) : i \in 1..Len(chunks)} \cup {last}
<1>1. n \in 0..Len(chunks)
  BY DEF Chunks
<1>2. middle \in Seq(Said) /\ Len(middle) = n /\ \A i \in 1..n : middle[i] = PublishStreamOutbound(in, chunks[i])
  <2>1. CASE how \in {"stream"} \cup Breaks
    <3>1. middle = [i \in 1..Len(chunks) |-> PublishStreamOutbound(in, chunks[i])] /\ n = Len(chunks)
      BY <2>1 DEF Chunks
    <3> HIDE DEF middle
    <3> QED BY <3>1
  <2>2. CASE how \notin {"stream"} \cup Breaks
    BY <2>2 DEF Chunks
  <2> QED BY <2>1, <2>2
<1>3. events = middle \o end
  BY DEF Streamed, Breaks, Closes
<1>4. /\ end \in Seq(Said) /\ Len(end) = IF Closes(how, announced) THEN 1 ELSE 0
      /\ Closes(how, announced) => end[1] = last
  <2>1. last \in Said
    OBVIOUS
  <2> HIDE DEF last, Said
  <2> QED BY <2>1
<1> HIDE DEF middle, end, last, Said
<1>5. events \in Seq(Said)
  BY <1>2, <1>3, <1>4
<1>6. Len(events) = n + Len(end) /\ \A i \in 1..n : events[i] = middle[i]
  BY <1>1, <1>2, <1>3, <1>4, ConcatProperties
<1>7. Closes(how, announced) => events[n + 1] = end[1]
  BY <1>1, <1>2, <1>3, <1>4, ConcatProperties
<1>8. DOMAIN events = 1..Len(events) /\ events \in Seq(Range(events))
  BY <1>5 DEF Range
<1> QED BY <1>1, <1>2, <1>4, <1>6, <1>7, <1>8 DEF last

LEMMA Inserted ==
  ASSUME NEW s, NEW S, s \in Seq(S), NEW e, NEW k \in 1..(Len(s) + 1), NEW t, t = InsertAt(s, k, e)
  PROVE  /\ DOMAIN t = 1..Len(t) /\ Len(t) = Len(s) + 1 /\ t[k] = e
         /\ \A i \in 1..Len(t) : i # k => \E j \in 1..Len(s) : t[i] = s[j]
<1> DEFINE E == S \cup {e}
           before == SubSeq(s, 1, k - 1)
           behind == SubSeq(s, k, Len(s))
<1>1. s \in Seq(E) /\ Len(s) \in Nat
  OBVIOUS
<1>2. /\ before \in Seq(E) /\ Len(before) = k - 1 /\ \A i \in 1..(k - 1) : before[i] = s[i]
  BY <1>1, SubSeqProperties
<1>3. /\ behind \in Seq(E) /\ Len(behind) = Len(s) - k + 1 /\ \A i \in 1..Len(behind) : behind[i] = s[k + i - 1]
  <2>1. \A i \in k..Len(s) : s[i] \in E
    BY <1>1
  <2> QED BY <1>1, <2>1, SubSeqProperties
<1>4. t = (before \o <<e>>) \o behind
  BY DEF InsertAt
<1> HIDE DEF before, behind
<1>5. /\ before \o <<e>> \in Seq(E) /\ Len(before \o <<e>>) = k /\ (before \o <<e>>)[k] = e
      /\ \A i \in 1..(k - 1) : (before \o <<e>>)[i] = s[i]
  <2>1. <<e>> \in Seq(E) /\ Len(<<e>>) = 1 /\ <<e>>[1] = e
    BY DEF E
  <2> QED BY <1>2, <2>1
<1> DEFINE front == before \o <<e>>
<1>6. front \in Seq(E) /\ Len(front) = k /\ front[k] = e /\ (\A i \in 1..(k - 1) : front[i] = s[i]) /\ t = front \o behind
  BY <1>4, <1>5
<1> HIDE DEF front, E
<1>7. t \in Seq(E) /\ Len(t) = k + Len(behind) /\ (\A i \in 1..k : t[i] = front[i]) /\ \A i \in (k + 1)..Len(t) : t[i] = behind[i - k]
  BY <1>3, <1>6, ConcatProperties
<1>8. ASSUME NEW i \in 1..Len(t), i # k PROVE \E j \in 1..Len(s) : t[i] = s[j]
  <2>1. CASE i < k
    <3>1. i \in 1..(k - 1) /\ i \in 1..k /\ i \in 1..Len(s)
      BY <1>1, <1>8, <2>1
    <3>2. t[i] = front[i]
      BY <1>7, <3>1
    <3>3. front[i] = s[i]
      BY <1>6, <3>1
    <3> QED BY <3>1, <3>2, <3>3
  <2>2. CASE i > k
    <3>1. i \in (k + 1)..Len(t) /\ i - k \in 1..Len(behind) /\ i - 1 \in 1..Len(s) /\ k + (i - k) - 1 = i - 1
      BY <1>1, <1>3, <1>7, <1>8, <2>2
    <3>2. t[i] = behind[i - k] /\ behind[i - k] = s[i - 1]
      BY <1>3, <1>7, <3>1
    <3> QED BY <3>1, <3>2
  <2> QED BY <1>7, <1>8, <2>1, <2>2
<1>9. DOMAIN t = 1..Len(t) /\ Len(t) = Len(s) + 1 /\ t[k] = e
  BY <1>1, <1>3, <1>6, <1>7
<1> QED BY <1>8, <1>9

(* The messages of an answer: chunks, the final of the event loop, and the *)
(* manager's own.                                                          *)
Closing(in, how, announced, text, think, msg) ==
  \/ Closes(how, announced) /\ msg = PublishFinalOutbound(in, text, think)
  \/ how # "stream" /\ msg = OwnReply(in, how, text, think)

Parted(in, how, chunks, announced, text, think, out, last) ==
  /\ \A i \in last : Closing(in, how, announced, text, think, out[i])
  /\ \A i \in 1..Len(out) : i \notin last => \E j \in 1..Len(chunks) : out[i] = PublishStreamOutbound(in, chunks[j])
  /\ last # {} <=> (how # "stream" \/ announced)
  /\ (how # "whole" \/ ~announced) => \A i, j \in last : i = j
  /\ how \notin Breaks => last = {} \/ Len(out) \in last

LEMMA AnswerParts ==
  ASSUME NEW chunks, Len(chunks) \in Nat, DOMAIN chunks = 1..Len(chunks), NEW in, NEW how \in Ways, NEW announced \in BOOLEAN,
         NEW text, NEW think, NEW out \in Answer(in, how, chunks, announced, text, think)
  PROVE  /\ DOMAIN out = 1..Len(out) /\ Len(out) \in Nat
         /\ \E last \in SUBSET (1..Len(out)) : Parted(in, how, chunks, announced, text, think, out, last)
<1> DEFINE events == Streamed(in, how, chunks, announced, text, think)
           n == Chunks(how, chunks)
           own == OwnReply(in, how, text, think)
<1>1. /\ n \in 0..Len(chunks)
      /\ DOMAIN events = 1..Len(events) /\ events \in Seq(Range(events))
      /\ Len(events) = IF Closes(how, announced) THEN n + 1 ELSE n
      /\ \A i \in 1..n : events[i] = PublishStreamOutbound(in, chunks[i])
      /\ Closes(how, announced) => events[n + 1] = PublishFinalOutbound(in, text, think)
  BY StreamedParts
<1>2. CASE how = "stream"
  <2>1. out = events /\ Closes(how, announced) = announced
    BY <1>2 DEF Answer, Closes
  <2> HIDE DEF events
  <2>2. CASE announced
    <3>1. Len(out) = n + 1 /\ DOMAIN out = 1..(n + 1) /\ n + 1 \in 1..Len(out)
      BY <1>1, <2>1, <2>2
    <3>2. Closing(in, how, announced, text, think, out[n + 1])
      BY <1>1, <2>1, <2>2 DEF Closing
    <3>3. \A i \in 1..Len(out) : i \notin {n + 1} => \E j \in 1..Len(chunks) : out[i] = PublishStreamOutbound(in, chunks[j])
      BY <1>1, <2>1, <3>1
    <3>4. Parted(in, how, chunks, announced, text, think, out, {n + 1})
      BY <1>2, <2>2, <3>1, <3>2, <3>3 DEF Parted
    <3> QED BY <1>1, <3>1, <3>4
  <2>3. CASE ~announced
    <3>1. Len(out) = n /\ DOMAIN out = 1..n
      BY <1>1, <2>1, <2>3
    <3>2. \A i \in 1..Len(out) : \E j \in 1..Len(chunks) : out[i] = PublishStreamOutbound(in, chunks[j])
      BY <1>1, <2>1, <3>1
    <3>3. Parted(in, how, chunks, announced, text, think, out, {})
      BY <1>2, <2>3, <3>2 DEF Parted
    <3> QED BY <1>1, <3>1, <3>3
  <2> QED BY <2>2, <2>3
<1>3. CASE how # "stream"
  <2>1. PICK k \in 1..(Len(events) + 1) : out = InsertAt(events, k, own)
    BY <1>3 DEF Answer
  <2> HIDE DEF events, own
  <2>2. /\ DOMAIN out = 1..Len(out) /\ Len(out) = Len(events) + 1 /\ out[k] = own
        /\ \A i \in 1..Len(out) : i # k => \E j \in 1..Len(events) : out[i] = events[j]
    <3>1. events \in Seq(Range(events))
      BY <1>1
    <3> DEFINE S == Range(events)
    <3> HIDE DEF S
    <3>2. events \in Seq(S)
      BY <3>1 DEF S
    <3> QED BY <2>1, <3>2, Inserted
  <2>3. Closing(in, how, announced, text, think, own)
    BY <1>3 DEF Closing, own
  <2>4. CASE Closes(how, announced)
    <3>1. n = 0 /\ Len(events) = 1 /\ how = "whole" /\ announced
      BY <1>1, <1>3, <2>4 DEF Closes, Chunks, Breaks
    <3>2. \A i \in 1..Len(out) : Closing(in, how, announced, text, think, out[i])
      BY <1>1, <2>2, <2>3, <2>4, <3>1 DEF Closing
    <3>3. Len(out) \in 1..Len(out)
      BY <2>2, <3>1
    <3>4. Parted(in, how, chunks, announced, text, think, out, 1..Len(out))
      BY <1>3, <3>1, <3>2, <3>3 DEF Parted
    <3>5. 1..Len(out) \in SUBSET (1..Len(out)) /\ Len(out) \in Nat
      BY <2>2, <3>1
    <3> QED BY <2>2, <3>4, <3>5
  <2>5. CASE ~Closes(how, announced)
    <3>1. \A i \in 1..Len(out) : i # k => \E j \in 1..Len(chunks) : out[i] = PublishStreamOutbound(in, chunks[j])
      <4>1. \A j \in 1..Len(events) : j \in 1..Len(chunks) /\ events[j] = PublishStreamOutbound(in, chunks[j])
        BY <1>1, <2>5
      <4> QED BY <2>2, <4>1
    <3>2. how \notin Breaks => k = Len(out)
      BY <1>1, <1>3, <2>1, <2>2, <2>5 DEF Chunks, Breaks
    <3>3. k \in 1..Len(out)
      BY <1>1, <2>1, <2>2
    <3>4. Parted(in, how, chunks, announced, text, think, out, {k})
      BY <1>3, <2>2, <2>3, <3>1, <3>2, <3>3 DEF Parted
    <3> QED BY <1>1, <2>2, <3>3, <3>4
  <2> QED BY <2>4, <2>5
<1> QED BY <1>2, <1>3

(* A chunk's frame does not end the answer.                                *)
LEMMA SentChunk ==
  ASSUME NEW f, Callback(f), Inbound(f) # None, NEW chunk, NEW msg, msg = PublishStreamOutbound(Inbound(f), chunk)
  PROVE  /\ msg.stream /\ ~msg.final
         /\ SendStream(msg) = Frame(f.req, "aibot_respond_msg", "stream", FALSE, chunk, None)
<1>1. msg.meta = Inbound(f).meta /\ msg.text = chunk /\ msg.stream /\ ~msg.final
  BY DEF PublishStreamOutbound, Message
<1>2. RequestId(msg) = f.req
  BY <1>1, InboundOf DEF RequestId, Callback
<1> QED BY <1>1, <1>2 DEF SendStream

(* The frame of a message that closes an answer ends it, and is the same   *)
(* whichever of the two it is.                                             *)
LEMMA SentClosing ==
  ASSUME NEW f, Callback(f), Inbound(f) # None, NEW how \in Ways, NEW announced \in BOOLEAN, NEW text, text # None, NEW think,
         NEW msg, Closing(Inbound(f), how, announced, text, think, msg)
  PROVE  /\ ~(msg.stream /\ ~msg.final)
         /\ Send(msg).req = f.req /\ Send(msg).finish /\ Finishes(Send(msg), f, how, text, think)
<1> DEFINE in == Inbound(f)
<1>1. CASE how \notin Breaks
  <2>1. /\ msg.meta = in.meta /\ msg.reply = in.id /\ msg.final
        /\ how = "empty" => msg.text = None /\ msg.think = None
        /\ how # "empty" => msg.text = text /\ msg.think \in {think, None}
    <3>1. CASE msg = PublishFinalOutbound(in, text, think) /\ how # "empty"
      BY <3>1 DEF PublishFinalOutbound, Message
    <3>2. CASE msg = OwnReply(in, how, text, think) /\ how # "stream"
      BY <1>1, <3>2 DEF OwnReply, Message, Ways, Breaks
    <3> QED BY <3>1, <3>2 DEF Closing, Closes
  <2>2. /\ Send(msg).req = f.req /\ Send(msg).finish /\ Send(msg).to = None
        /\ Send(msg).cmd = CommandOf(f, how)
        /\ how = "empty" => Send(msg).text \in {None, <<"hello">>}
        /\ how # "empty" => Send(msg).text = text \/ (think # None /\ Send(msg).text = think \o text)
    BY <1>1, <2>1, SentWithMeta, ZenonT(40) DEF Breaks
  <2> QED BY <1>1, <2>1, <2>2 DEF Finishes, Breaks
<1>2. CASE how \in Breaks
  <2>1. PICK words \in {text, None} :
          /\ msg = Message(in, FALSE, TRUE, words, NoMeta)
          /\ how = "error" => words = None
          /\ how # "error" => words = text
    BY <1>2 DEF Closing, Closes, OwnReply, Breaks
  <2>2. Send(msg) = Frame(f.req, "aibot_respond_msg", "stream", TRUE, words, in.chat)
    BY <2>1, SentWithoutMeta
  <2>3. /\ Send(msg).req = f.req /\ Send(msg).finish /\ Send(msg).to = in.chat /\ Send(msg).text = words
        /\ Send(msg).cmd = CommandOf(f, how)
    BY <1>2, <2>2 DEF CommandOf, Frame, Breaks
  <2>4. msg.final
    BY <2>1 DEF Message
  <2> QED BY <1>2, <2>1, <2>3, <2>4 DEF Finishes, Breaks
<1> QED BY <1>1, <1>2

LEMMA SameFrame ==
  ASSUME NEW in, NEW how \in Ways, NEW announced \in BOOLEAN, NEW text, NEW think,
         NEW m1, Closing(in, how, announced, text, think, m1), NEW m2, Closing(in, how, announced, text, think, m2)
  PROVE  Send(m1) = Send(m2)
<1>1. CASE how # "whole"
  BY <1>1 DEF Closing, Closes
<1>2. CASE how = "whole"
  <2>1. ASSUME NEW m, Closing(in, how, announced, text, think, m)
        PROVE  m.meta = in.meta /\ m.reply = in.id /\ m.chat = in.chat /\ m.text = text /\ m.think = think
    <3>1. m = PublishFinalOutbound(in, text, think) \/ m = [Message(in, FALSE, TRUE, text, in.meta) EXCEPT !.think = think]
      BY <1>2, <2>1 DEF Closing, OwnReply
    <3> QED BY <3>1 DEF PublishFinalOutbound, Message
  <2>2. /\ m1.meta = m2.meta /\ m1.reply = m2.reply /\ m1.chat = m2.chat /\ m1.text = m2.text /\ m1.think = m2.think
    BY <2>1
  <2>3. RequestId(m1) = RequestId(m2) /\ ConvertOutboundToReply(m1) = ConvertOutboundToReply(m2) /\ SendEventReply(m1) = SendEventReply(m2)
    BY <2>2 DEF RequestId, ConvertOutboundToReply, SendEventReply
  <2> QED BY <2>2, <2>3 DEF Send
<1> QED BY <1>1, <1>2

LEMMA AnswerIsRight ==
  ASSUME NEW f, Callback(f), NEW how \in Ways, NEW chunks, Len(chunks) \in Nat, DOMAIN chunks = 1..Len(chunks),
         NEW announced \in BOOLEAN, NEW text, text # None, NEW think
  PROVE  AnswerRight(f, how, chunks, announced, text, think)
<1> SUFFICES ASSUME Inbound(f) # None, NEW out \in Answer(Inbound(f), how, chunks, announced, text, think)
             PROVE  LET frames == Sent(out)
                        ends == {i \in DOMAIN frames : frames[i].finish}
                    IN /\ \A i \in DOMAIN frames : frames[i].req = f.req
                       /\ \A i \in ends : Finishes(frames[i], f, how, text, think)
                       /\ \A i \in DOMAIN frames \ ends :
                            \E j \in DOMAIN chunks : frames[i] = Frame(f.req, "aibot_respond_msg", "stream", FALSE, chunks[j], None)
                       /\ ends # {} <=> (how # "stream" \/ announced)
                       /\ \A i, j \in ends : frames[i] = frames[j] /\ (i = j \/ (how = "whole" /\ announced))
                       /\ how \notin {"error", "interrupt"} => ends = {} \/ Len(frames) \in ends
  BY DEF AnswerRight
<1> DEFINE in == Inbound(f)
           frames == Sent(out)
           ends == {i \in DOMAIN frames : frames[i].finish}
<1>1. /\ DOMAIN out = 1..Len(out) /\ Len(out) \in Nat
      /\ \E last \in SUBSET (1..Len(out)) : Parted(in, how, chunks, announced, text, think, out, last)
  BY AnswerParts
<1>2. PICK last \in SUBSET (1..Len(out)) :
        /\ \A i \in last : Closing(in, how, announced, text, think, out[i])
        /\ \A i \in 1..Len(out) : i \notin last => \E j \in 1..Len(chunks) : out[i] = PublishStreamOutbound(in, chunks[j])
        /\ last # {} <=> (how # "stream" \/ announced)
        /\ (how # "whole" \/ ~announced) => \A i, j \in last : i = j
        /\ how \notin Breaks => last = {} \/ Len(out) \in last
  BY <1>1 DEF Parted
<1>3. frames = [i \in 1..Len(out) |-> IF out[i].stream /\ ~out[i].final THEN SendStream(out[i]) ELSE Send(out[i])]
  BY <1>1 DEF Sent
<1>4. DOMAIN frames = 1..Len(out) /\ Len(frames) = Len(out)
  BY <1>1, <1>3
<1> HIDE DEF frames
<1>5. ASSUME NEW i \in last
      PROVE  frames[i] = Send(out[i]) /\ frames[i].req = f.req /\ frames[i].finish /\ Finishes(frames[i], f, how, text, think)
  <2>1. /\ ~(out[i].stream /\ ~out[i].final)
        /\ Send(out[i]).req = f.req /\ Send(out[i]).finish /\ Finishes(Send(out[i]), f, how, text, think)
    BY <1>2, SentClosing
  <2>2. frames[i] = Send(out[i])
    BY <1>3, <2>1
  <2> QED BY <2>1, <2>2
<1>6. ASSUME NEW i \in 1..Len(out), i \notin last
      PROVE  /\ frames[i].req = f.req /\ ~frames[i].finish
             /\ \E j \in DOMAIN chunks : frames[i] = Frame(f.req, "aibot_respond_msg", "stream", FALSE, chunks[j], None)
  <2>1. PICK j \in 1..Len(chunks) : out[i] = PublishStreamOutbound(in, chunks[j])
    BY <1>2, <1>6
  <2>2. frames[i] = Frame(f.req, "aibot_respond_msg", "stream", FALSE, chunks[j], None)
    BY <1>3, <2>1, SentChunk
  <2>3. ~frames[i].finish /\ frames[i].req = f.req
    BY <2>2 DEF Frame
  <2> QED BY <2>2, <2>3
<1>7. ends = last
  BY <1>4, <1>5, <1>6
<1>8. \A i, j \in last : frames[i] = frames[j]
  BY <1>2, <1>5, SameFrame
<1> HIDE DEF ends
<1>9. \A i, j \in ends : frames[i] = frames[j] /\ (i = j \/ (how = "whole" /\ announced))
  BY <1>2, <1>7, <1>8
<1>10. ends # {} <=> (how # "stream" \/ announced)
  BY <1>2, <1>7
<1>11. how \notin {"error", "interrupt"} => ends = {} \/ Len(frames) \in ends
  BY <1>2, <1>4, <1>7 DEF Breaks
<1> QED BY <1>4, <1>5, <1>6, <1>7, <1>9, <1>10, <1>11 DEF ends, frames

(* What users and WeCom are answered is right, whatever was called back,   *)
(* however the run goes, whatever its chunks are and whether or not its    *)
(* answer is announced: the request id, the command, the address and the   *)
(* text of the frame that ends it, and that there is one, except for a     *)
(* stream without announcement, which goes on for ever, and an announced   *)
(* run that does not stream, which ends with two.                          *)
THEOREM EveryoneAnswered == Spec => []Addressed
<1>1. TypeOK => Addressed
  <2>1. SUFFICES ASSUME TypeOK, setup.frame # None, NEW how \in Ways, NEW chunks \in setup.chunks, NEW announced \in BOOLEAN,
                        NEW think \in {None, <<"thought">>}
                 PROVE  AnswerRight(setup.frame, how, chunks, announced, <<"said">>, think)
    BY DEF Addressed
  <2>2. Callback(setup.frame) /\ Len(chunks) \in Nat /\ DOMAIN chunks = 1..Len(chunks) /\ None # <<"said">>
    BY <2>1, GatewayAssumption DEF TypeOK, ProcessOK
  <2> QED BY <2>2, AnswerIsRight
<1> QED BY <1>1, GatewayTypeCorrect, PTL
=============================================================================
