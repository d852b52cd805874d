-------------------------- MODULE SchedulerProofs --------------------------
(***************************************************************************)
(* Theorems about the task scheduler of Scheduler.tla, for any number of   *)
(* tasks, objects and executions, any schedules and any length of time,    *)
(* and about the WebSocket server of WsHub.tla, through which clients      *)
(* reach it, for any number of connections and any capacities.             *)
(***************************************************************************)
EXTENDS Scheduler, WsHub, FiniteSetTheorems, TLAPS

(* A set of numbers that is not empty has a least one: of the intervals    *)
(* that end in it one has no other inside it.                              *)
LEMMA LeastOf ==
  ASSUME NEW S \in SUBSET Nat, S # {}
  PROVE  Min(S) \in S /\ \A m \in S : Min(S) <= m
<1> DEFINE T == {0..n : n \in S}
           R == StrictSubsetOrdering(Nat)
<1>1. IsWellFoundedOn(R, FiniteSubsetsOf(Nat))
  BY FS_StrictSubsetOrderingWellFounded, Zenon
<1>2. T \subseteq FiniteSubsetsOf(Nat)
  <2>1. ASSUME NEW n \in S PROVE IsFiniteSet(0..n) /\ 0..n \in SUBSET Nat
    BY FS_Interval
  <2> QED BY <2>1 DEF FiniteSubsetsOf
<1>3. T # {}
  OBVIOUS
<1>4. PICK x \in T : \A y \in T : <<y, x>> \notin R
  <2> HIDE DEF T, R
  <2> QED BY <1>1, <1>2, <1>3, WFMin, Zenon
<1>5. PICK n \in S : x = 0..n
  OBVIOUS
<1>6. ASSUME NEW m \in S PROVE n <= m
  <2>1. SUFFICES ASSUME m < n PROVE FALSE
    OBVIOUS
  <2>2. 0..m \subseteq 0..n /\ n \in 0..n /\ n \notin 0..m
    BY <2>1
  <2>3. 0..m \in SUBSET Nat /\ 0..n \in SUBSET Nat /\ 0..m # 0..n
    BY <2>2
  <2>4. <<0..m, 0..n>> \in R
    BY <2>2, <2>3 DEF StrictSubsetOrdering
  <2> QED BY <1>4, <1>5, <2>4
<1> QED BY <1>6 DEF Min

(* parseCron finds a time of the schedule after the one it is given, or    *)
(* the zero time.                                                          *)
LEMMA NextTimeType ==
  ASSUME NEW cron \in Schedules, NEW base \in Nat
  PROVE  /\ NextTime(cron, base) \in Times
         /\ NextTime(cron, base) # 0 => NextTime(cron, base) > base
<1>1. \A t \in cron : t \in Nat /\ t <= MaxTime
  BY SchedulerAssumption
<1>2. \A t \in Later(cron, base) : t \in Times /\ t \in Nat /\ t > base
  BY <1>1, SchedulerAssumption DEF Later, Times
<1>3. CASE Later(cron, base) = {}
  BY <1>3, SchedulerAssumption DEF NextTime, Times
<1>4. CASE Later(cron, base) # {}
  <2>1. NextTime(cron, base) \in Later(cron, base)
    <3>1. Later(cron, base) \in SUBSET Nat
      BY <1>2
    <3> QED BY <3>1, <1>4, LeastOf DEF NextTime
  <2> QED BY <1>2, <2>1
<1> QED BY <1>3, <1>4

(* Every step, one case each.                                              *)
LEMMA SchedulerSteps ==
  [Next]_vars =>
    \/ Tick \/ UpdateTask \/ Stop \/ SaveAll \/ Restart \/ Advance
    \/ \E r \in Runs : \/ MarkRunning(r) \/ Publish(r) \/ UpdateTaskState(r)
                       \/ SaveState(r) \/ Finish(r)
    \/ \E i \in Ids : TriggerTask(i) \/ RemoveTask(i)
    \/ \E i \in Ids, c \in Config : AddTask(i, c)
    \/ \E i \in Ids, cron \in Schedules : EditConfig(i, cron)
    \/ UNCHANGED vars
BY DEF Next, Execute

-----------------------------------------------------------------------------
LEMMA BootType ==
  ASSUME now \in Times
  PROVE  /\ Booted \in [Ids -> Objs \cup {Nobody}]
         /\ \A i, j \in Ids : Booted[i] = Booted[j] /\ Booted[i] # Nobody => i = j
         /\ FirstRun \in [Objs -> Times]
         /\ [o \in Objs |-> [cron |-> First, enabled |-> TRUE]] \in [Objs -> Config]
<1>1. NextTime(First, now) \in Times /\ 0 \in Times
  BY NextTimeType, SchedulerAssumption DEF Times
<1>2. FirstRun \in [Objs -> Times]
  BY <1>1 DEF FirstRun
<1> QED BY <1>2, SchedulerAssumption DEF Booted, Config

LEMMA InitType == Init => TypeOK
<1> SUFFICES ASSUME Init PROVE TypeOK
  OBVIOUS
<1>1. now \in Times /\ 0 \in Times
  BY SchedulerAssumption DEF Init, Times
<1>2. TasksOK
  BY <1>1, BootType DEF Init, TasksOK
<1>3. StoreOK
  BY DEF Init, StoreOK
<1>4. RunOK /\ MarksOK
  BY SchedulerAssumption DEF Init, RunOK, MarksOK, Free
<1>5. ClockOK
  BY <1>1 DEF Init, ClockOK
<1> QED BY <1>2, <1>3, <1>4, <1>5 DEF TypeOK

LEMMA TasksStep == TypeOK /\ [Next]_vars => TasksOK'
<1> SUFFICES ASSUME TasksOK, RunOK, ClockOK, [Next]_vars PROVE TasksOK'
  BY DEF TypeOK
<1>0. 0 \in Times /\ now \in Times /\ Times \subseteq Nat
  BY SchedulerAssumption DEF ClockOK, Times
<1>1. ASSUME NEW r \in Runs, Finish(r) PROVE TasksOK'
  <2> DEFINE o == runs[r].obj
  <2>1. o \in Objs
    BY <1>1 DEF Finish, RunOK
  <2>2. NextTime(config[o].cron, now) \in Times
    BY <1>0, <2>1, NextTimeType DEF TasksOK, Config
  <2> QED BY <1>0, <1>1, <2>1, <2>2 DEF Finish, TasksOK
<1>2. ASSUME NEW r \in Runs, MarkRunning(r) PROVE TasksOK'
  BY <1>2 DEF MarkRunning, TasksOK, RunOK
<1>3. ASSUME NEW i \in Ids, NEW c \in Config, AddTask(i, c) PROVE TasksOK'
  <2>1. PICK o \in Fresh : /\ tasks' = [tasks EXCEPT ![i] = o]
                           /\ config' = [config EXCEPT ![o] = c]
                           /\ nextRun' = [nextRun EXCEPT ![o] = NextTime(c.cron, now)]
                           /\ lastRun' = [lastRun EXCEPT ![o] = 0]
                           /\ running' = [running EXCEPT ![o] = FALSE]
    BY <1>3 DEF AddTask
  <2>2. o \in Objs /\ \A j \in Ids : tasks[j] # o
    BY DEF Fresh
  <2>3. NextTime(c.cron, now) \in Times
    BY <1>0, NextTimeType DEF Config
  <2> QED BY <1>0, <2>1, <2>2, <2>3 DEF TasksOK
<1>4. ASSUME NEW i \in Ids, RemoveTask(i) PROVE TasksOK'
  BY <1>4 DEF RemoveTask, TasksOK
<1>5. ASSUME NEW i \in Ids, NEW cron \in Schedules, EditConfig(i, cron) PROVE TasksOK'
  <2>1. tasks[i] \in Objs
    BY <1>5 DEF EditConfig, TasksOK
  <2>2. config' \in [Objs -> Config]
    BY <1>5, <2>1 DEF EditConfig, TasksOK, Config
  <2> QED BY <1>5, <2>2 DEF EditConfig, TasksOK
<1>6. CASE UpdateTask
  <2> DEFINE o == tasks[editing.id]  c == config[editing.obj]
  <2>1. editing.id \in Ids /\ editing.obj \in Objs
    BY <1>6 DEF UpdateTask, RunOK
  <2>2. o \in Objs \cup {Nobody} /\ c \in Config
    BY <2>1 DEF TasksOK
  <2>3. CASE o = Nobody
    BY <1>6, <2>3 DEF UpdateTask, TasksOK
  <2>4. CASE o # Nobody
    <3>1. NextTime(c.cron, Base(lastRun[o])) \in Times
      BY <1>0, <2>2, <2>4, NextTimeType DEF TasksOK, Config, Base
    <3>2. /\ config' = [config EXCEPT ![o] = c]
          /\ nextRun' = [nextRun EXCEPT ![o] = NextTime(c.cron, Base(lastRun[o]))]
          /\ UNCHANGED <<tasks, lastRun, running>>
      BY <1>6, <2>4 DEF UpdateTask
    <3> QED BY <2>2, <2>4, <3>1, <3>2 DEF TasksOK
  <2> QED BY <2>3, <2>4
<1>7. CASE Restart
  BY <1>0, <1>7, BootType DEF Restart, TasksOK
<1>8. CASE UNCHANGED taskVars
  BY <1>8 DEF TasksOK, taskVars
<1>9. \/ UpdateTask \/ Restart \/ UNCHANGED taskVars
      \/ \E r \in Runs : MarkRunning(r) \/ Finish(r)
      \/ \E i \in Ids : RemoveTask(i)
      \/ \E i \in Ids, c \in Config : AddTask(i, c)
      \/ \E i \in Ids, cron \in Schedules : EditConfig(i, cron)
  BY SchedulerSteps DEF Tick, Stop, SaveAll, Advance, Publish, UpdateTaskState, SaveState,
    TriggerTask, vars
<1> QED BY <1>1, <1>2, <1>3, <1>4, <1>5, <1>6, <1>7, <1>8, <1>9

LEMMA StoreStep == TypeOK /\ [Next]_vars => StoreOK'
<1> SUFFICES ASSUME StoreOK, RunOK, [Next]_vars PROVE StoreOK'
  BY DEF TypeOK
<1>1. ASSUME NEW r \in Runs, UpdateTaskState(r) PROVE StoreOK'
  BY <1>1 DEF UpdateTaskState, StoreOK, RunOK
<1>2. ASSUME NEW r \in Runs, SaveState(r) PROVE StoreOK'
  <2>1. runs[r].id \in Ids
    BY <1>2 DEF SaveState, RunOK
  <2> QED BY <1>2, <2>1 DEF SaveState, StoreOK, Merged
<1>3. ASSUME NEW i \in Ids, RemoveTask(i) PROVE StoreOK'
  BY <1>3 DEF RemoveTask, StoreOK
<1>4. CASE SaveAll
  BY <1>4 DEF SaveAll, StoreOK
<1>5. CASE Restart
  BY <1>5 DEF Restart, StoreOK
<1>6. CASE UNCHANGED storeVars
  BY <1>6 DEF StoreOK, storeVars
<1>7. \/ SaveAll \/ Restart \/ UNCHANGED storeVars
      \/ \E r \in Runs : UpdateTaskState(r) \/ SaveState(r)
      \/ \E i \in Ids : RemoveTask(i)
  BY SchedulerSteps DEF Tick, Stop, UpdateTask, Advance, Publish, MarkRunning, Finish,
    TriggerTask, AddTask, EditConfig, vars
<1> QED BY <1>1, <1>2, <1>3, <1>4, <1>5, <1>6, <1>7

(* The goroutines that a tick starts were free, and get a due task.        *)
LEMMA TickRuns ==
  ASSUME TasksOK, Tick
  PROVE  /\ runs' = [x \in Runs |-> runs'[x]]
         /\ \A x \in Runs :
              \/ runs'[x] = runs[x]
              \/ /\ runs[x].pc = "free"
                 /\ \E i \in Ids : /\ tasks[i] \in Objs
                                   /\ runs'[x] = [pc |-> "start", obj |-> tasks[i], id |-> i]
<1>1. PICK behind \in BOOLEAN : StartAll({i \in Ids : Due(i, behind)})
  BY DEF Tick
<1> DEFINE due == {i \in Ids : Due(i, behind)}
<1>2. PICK r \in [due -> At("free")] :
        runs' = [x \in Runs |->
                 IF \E i \in due : r[i] = x
                 THEN LET i == CHOOSE j \in due : r[j] = x IN
                        [pc |-> "start", obj |-> tasks[i], id |-> i]
                 ELSE runs[x]]
  BY <1>1 DEF StartAll
<1>3. \A i \in due : tasks[i] \in Objs /\ r[i] \in At("free")
  BY DEF Due, TasksOK
<1> QED BY <1>2, <1>3 DEF At

LEMMA RunStep ==
  ASSUME TasksOK, RunOK, [Next]_vars
  PROVE  RunOK'
<1> USE DEF RunOK
<1>1. CASE Tick
  <2>1. runs' = [x \in Runs |-> runs'[x]] /\ UNCHANGED editing
    BY <1>1, TickRuns DEF Tick
  <2>2. ASSUME NEW x \in Runs
        PROVE  /\ runs'[x] \in [pc : {"free", "start", "publish", "record", "save", "finish"},
                                obj : Objs \cup {Nobody}, id : Ids \cup {None}]
               /\ runs'[x].pc # "free" => runs'[x].obj \in Objs /\ runs'[x].id \in Ids
    BY <1>1, TickRuns
  <2> QED BY <2>1, <2>2
<1>2. ASSUME NEW i \in Ids, TriggerTask(i) PROVE RunOK'
  BY <1>2 DEF TriggerTask, At, TasksOK
<1>3. ASSUME NEW r \in Runs,
             MarkRunning(r) \/ Publish(r) \/ UpdateTaskState(r) \/ SaveState(r)
      PROVE  RunOK'
  BY <1>3 DEF MarkRunning, Publish, UpdateTaskState, SaveState
<1>4. ASSUME NEW r \in Runs, Finish(r) PROVE RunOK'
  BY <1>4 DEF Finish, Free
<1>5. CASE Restart
  BY <1>5 DEF Restart, Free
<1>6. ASSUME NEW i \in Ids, NEW cron \in Schedules, EditConfig(i, cron) PROVE RunOK'
  BY <1>6 DEF EditConfig, TasksOK
<1>7. CASE UpdateTask
  BY <1>7 DEF UpdateTask
<1>8. CASE UNCHANGED <<runs, editing>>
  BY <1>8
<1> HIDE DEF RunOK
<1> QED BY <1>1, <1>2, <1>3, <1>4, <1>5, <1>6, <1>7, <1>8, SchedulerSteps
  DEF Stop, SaveAll, Advance, RemoveTask, AddTask, vars

(* s.mu is held by the goroutine that writes the file, and a mark is       *)
(* somebody's who will clear it.                                           *)
LEMMA MarksStep ==
  ASSUME TasksOK, RunOK, MarksOK, [Next]_vars
  PROVE  MarksOK'
<1> USE DEF MarksOK, RunOK
<1>1. CASE Tick
  <2>1. \A x \in Runs : runs'[x] = runs[x] \/ (runs[x].pc = "free" /\ runs'[x].pc = "start")
    BY <1>1, TickRuns
  <2>2. UNCHANGED <<running, mu>>
    BY <1>1 DEF Tick, taskVars
  <2> QED BY <2>1, <2>2
<1>2. ASSUME NEW i \in Ids, TriggerTask(i) PROVE MarksOK'
  BY <1>2 DEF TriggerTask, At, taskVars
<1>3. ASSUME NEW r \in Runs, MarkRunning(r) PROVE MarksOK'
  BY <1>3 DEF MarkRunning, TasksOK
<1>4. ASSUME NEW r \in Runs, Publish(r) PROVE MarksOK'
  BY <1>4 DEF Publish, taskVars
<1>5. ASSUME NEW r \in Runs, UpdateTaskState(r) PROVE MarksOK'
  BY <1>5, SchedulerAssumption DEF UpdateTaskState, taskVars
<1>6. ASSUME NEW r \in Runs, SaveState(r) PROVE MarksOK'
  BY <1>6, SchedulerAssumption DEF SaveState, taskVars
<1>7. ASSUME NEW r \in Runs, Finish(r) PROVE MarksOK'
  BY <1>7 DEF Finish, TasksOK, Free
<1>8. ASSUME NEW i \in Ids, NEW c \in Config, AddTask(i, c) PROVE MarksOK'
  BY <1>8 DEF AddTask, TasksOK, Fresh
<1>9. CASE Restart
  BY <1>9, SchedulerAssumption DEF Restart, Free
<1>10. CASE UNCHANGED <<running, mu, runs>>
  BY <1>10
<1> HIDE DEF MarksOK, RunOK
<1> QED BY <1>1, <1>2, <1>3, <1>4, <1>5, <1>6, <1>7, <1>8, <1>9, <1>10, SchedulerSteps
  DEF Stop, SaveAll, Advance, RemoveTask, EditConfig, UpdateTask, taskVars, vars

LEMMA ClockStep ==
  ASSUME TasksOK, ClockOK, [Next]_vars
  PROVE  ClockOK'
<1> USE DEF ClockOK
<1>1. CASE Tick
  <2>1. PICK behind \in BOOLEAN : StartAll({i \in Ids : Due(i, behind)})
    BY <1>1 DEF Tick
  <2>2. \A i \in Ids : Due(i, behind) => nextRun[tasks[i]] \in Times
    BY DEF Due, TasksOK
  <2>3. UNCHANGED <<prompt, phase, now>>
    BY <1>1 DEF Tick
  <2> QED BY <2>1, <2>2, <2>3 DEF StartAll
<1>2. CASE Advance
  BY <1>2, SchedulerAssumption DEF Advance, Times, histVars
<1>3. CASE Stop \/ SaveAll \/ Restart
  BY <1>3 DEF Stop, SaveAll, Restart, histVars
<1>4. CASE UNCHANGED <<prompt, phase, now, fired, twice>>
  BY <1>4
<1> HIDE DEF ClockOK
<1> QED BY <1>1, <1>2, <1>3, <1>4, SchedulerSteps DEF MarkRunning, Publish, UpdateTaskState,
  SaveState, Finish, TriggerTask, AddTask, RemoveTask, EditConfig, UpdateTask, histVars, vars

LEMMA TypeStep == TypeOK /\ [Next]_vars => TypeOK'
BY TasksStep, StoreStep, RunStep, MarksStep, ClockStep DEF TypeOK

(* The variables keep their shape; no two ids share an object, s.mu is     *)
(* held exactly while a state is written (updateTaskState), and a task is  *)
(* marked running only while a goroutine is there to clear the mark        *)
(* (executeTask): through removals, re-creations and restarts.             *)
THEOREM TypeCorrect == Spec => []TypeOK
BY InitType, TypeStep, PTL DEF Spec

-----------------------------------------------------------------------------
(* While a goroutine holds s.mu to write the file, its own task's state is *)
(* the only one the file may lack.                                         *)
FileInv ==
  disk # Torn =>
    \A i \in Ids : \/ states[i] = None
                   \/ disk[i] = states[i]
                   \/ mu # Nobody /\ runs[mu].id = i

LEMMA FileStep == TypeOK /\ FileInv /\ [Next]_vars => FileInv'
<1> SUFFICES ASSUME StoreOK, RunOK, MarksOK, TasksOK, FileInv, [Next]_vars,
                    disk' # Torn,
                    NEW i \in Ids, states'[i] # None, disk'[i] # states'[i]
             PROVE  mu' # Nobody /\ runs'[mu'].id = i
  BY DEF TypeOK, FileInv
<1> DEFINE Goal == mu' # Nobody /\ runs'[mu'].id = i
<1> USE SchedulerAssumption DEF RunOK, MarksOK
<1>1. ASSUME disk # Torn, states[i] # None, disk[i] # states[i]
      PROVE  mu # Nobody /\ runs[mu].id = i
  BY <1>1 DEF FileInv
<1>2. ASSUME NEW r \in Runs, UpdateTaskState(r) PROVE Goal
  BY <1>1, <1>2 DEF UpdateTaskState, StoreOK
<1>3. ASSUME NEW r \in Runs, SaveState(r) PROVE Goal
  <2>1. mu = r /\ disk # Torn
    BY <1>3 DEF SaveState
  <2>2. /\ disk' = [disk EXCEPT ![runs[r].id] = states[runs[r].id]]
        /\ states' = states
    BY <1>3, <2>1 DEF SaveState, Merged
  <2>3. disk \in [Ids -> Nat \cup {None}]
    BY <2>1 DEF StoreOK
  <2> QED BY <1>1, <2>1, <2>2, <2>3
<1>4. ASSUME NEW j \in Ids, RemoveTask(j) PROVE Goal
  BY <1>1, <1>4 DEF RemoveTask, StoreOK
<1>5. CASE SaveAll \/ Restart
  BY <1>5 DEF SaveAll, Restart
<1>6. CASE Tick
  <2>1. UNCHANGED <<mu, states, disk>>
    BY <1>6 DEF Tick, storeVars
  <2>2. \A x \in Runs : runs[x].pc = "save" => runs'[x] = runs[x]
    BY <1>6, TickRuns
  <2> QED BY <1>1, <2>1, <2>2
<1>7. ASSUME NEW j \in Ids, TriggerTask(j) PROVE Goal
  BY <1>1, <1>7 DEF TriggerTask, At, storeVars
<1>8. ASSUME NEW r \in Runs, MarkRunning(r) \/ Publish(r) \/ Finish(r) PROVE Goal
  BY <1>1, <1>8 DEF MarkRunning, Publish, Finish, storeVars
<1>9. CASE UNCHANGED <<storeVars, mu, runs>>
  BY <1>1, <1>9 DEF storeVars
<1>10. \/ Tick \/ SaveAll \/ Restart \/ UNCHANGED <<storeVars, mu, runs>>
       \/ \E r \in Runs : \/ MarkRunning(r) \/ Publish(r) \/ UpdateTaskState(r)
                          \/ SaveState(r) \/ Finish(r)
       \/ \E j \in Ids : TriggerTask(j) \/ RemoveTask(j)
  BY SchedulerSteps DEF UpdateTask, Stop, Advance, AddTask, EditConfig, vars
<1> QED BY <1>2, <1>3, <1>4, <1>5, <1>6, <1>7, <1>8, <1>9, <1>10

(* Whenever nobody is writing it, a file that no crash has torn holds the  *)
(* latest state of every task, whatever executions, removals, stops and    *)
(* restarts came in between (updateTaskState, saveAllStates).              *)
THEOREM FileCurrent == Spec => []FileIsCurrent
<1>1. Init => FileInv
  BY DEF Init, FileInv
<1>2. TypeOK /\ FileInv => FileIsCurrent
  BY DEF FileInv, FileIsCurrent
<1> QED BY <1>1, <1>2, InitType, TypeStep, FileStep, PTL DEF Spec

-----------------------------------------------------------------------------
(* A task is busy from the tick that starts it until a goroutine of its    *)
(* object finishes.  The minutes an id was started for have come; unless   *)
(* its task is busy, they are before the next run and not after the last   *)
(* one, from which an update computes the next run anew.                   *)
Busy(o) == running[o] \/ \E r \in Runs : runs[r].obj = o /\ runs[r].pc = "start"

FiredPast == \A i \in Ids : \A m \in fired[i] : m <= now

Ahead == \A i \in Ids : tasks[i] # Nobody /\ ~Busy(tasks[i]) =>
           \A m \in fired[i] : /\ nextRun[tasks[i]] # 0 => m < nextRun[tasks[i]]
                               /\ lastRun[tasks[i]] # 0 => m <= lastRun[tasks[i]]

MinuteInv == FiredPast /\ Ahead /\ OncePerMinute

LEMMA InitMinute == Init => MinuteInv
BY DEF Init, MinuteInv, FiredPast, Ahead, OncePerMinute

(* Whom a tick starts is due, and busy from then on; nobody else's         *)
(* business ends.                                                          *)
LEMMA TickStarts ==
  ASSUME TypeOK, Tick
  PROVE  \E due \in SUBSET Ids :
           /\ \A i \in due : /\ tasks[i] \in Objs /\ ~running[tasks[i]]
                             /\ nextRun[tasks[i]] # 0 /\ nextRun[tasks[i]] <= now
                             /\ \A o \in Objs : o = tasks[i] => Busy(o)'
           /\ \A o \in Objs : Busy(o) => Busy(o)'
           /\ fired' = [i \in Ids |-> IF i \in due THEN fired[i] \cup {nextRun[tasks[i]]}
                                    ELSE fired[i]]
           /\ twice' = twice \cup {i \in due : nextRun[tasks[i]] \in fired[i]}
<1> USE DEF TypeOK, TasksOK, ClockOK
<1>1. PICK behind \in BOOLEAN : StartAll({i \in Ids : Due(i, behind)})
  BY DEF Tick
<1> DEFINE due == {i \in Ids : Due(i, behind)}
<1>2. PICK r \in [due -> At("free")] :
        /\ \A i, j \in due : r[i] = r[j] => i = j
        /\ runs' = [x \in Runs |->
             IF \E i \in due : r[i] = x
             THEN LET i == CHOOSE j \in due : r[j] = x IN
                    [pc |-> "start", obj |-> tasks[i], id |-> i]
             ELSE runs[x]]
  BY <1>1 DEF StartAll
<1>3. ASSUME NEW i \in due
      PROVE  /\ tasks[i] \in Objs /\ ~running[tasks[i]]
             /\ nextRun[tasks[i]] # 0 /\ nextRun[tasks[i]] <= now
  BY SchedulerAssumption DEF Due, Times
<1>4. ASSUME NEW i \in due, NEW o \in Objs, o = tasks[i] PROVE Busy(o)'
  <2>1. r[i] \in Runs /\ (CHOOSE j \in due : r[j] = r[i]) = i
    BY <1>2 DEF At
  <2>2. runs'[r[i]] = [pc |-> "start", obj |-> tasks[i], id |-> i]
    BY <1>2, <2>1
  <2> QED BY <1>4, <2>1, <2>2 DEF Busy
<1>5. ASSUME NEW o \in Objs, Busy(o) PROVE Busy(o)'
  <2>1. \A x \in Runs : runs[x].pc = "start" => runs'[x] = runs[x]
    BY TickRuns
  <2>2. running' = running
    BY DEF Tick, taskVars
  <2> QED BY <1>5, <2>1, <2>2 DEF Busy
<1> QED
  <2>1. due \in SUBSET Ids
    OBVIOUS
  <2>2. /\ fired' = [i \in Ids |-> IF i \in due THEN fired[i] \cup {nextRun[tasks[i]]}
                                 ELSE fired[i]]
        /\ twice' = twice \cup {i \in due : nextRun[tasks[i]] \in fired[i]}
    BY <1>1 DEF StartAll
  <2> HIDE DEF due
  <2> QED BY <1>3, <1>4, <1>5, <2>1, <2>2

LEMMA TickMinute ==
  ASSUME TypeOK, MinuteInv, Tick
  PROVE  MinuteInv'
<1> USE DEF MinuteInv
<1>1. PICK due \in SUBSET Ids :
           /\ \A i \in due : /\ tasks[i] \in Objs /\ ~running[tasks[i]]
                             /\ nextRun[tasks[i]] # 0 /\ nextRun[tasks[i]] <= now
                             /\ \A o \in Objs : o = tasks[i] => Busy(o)'
           /\ \A o \in Objs : Busy(o) => Busy(o)'
           /\ fired' = [i \in Ids |-> IF i \in due THEN fired[i] \cup {nextRun[tasks[i]]}
                                    ELSE fired[i]]
           /\ twice' = twice \cup {i \in due : nextRun[tasks[i]] \in fired[i]}
  BY TickStarts
<1>2. UNCHANGED <<prompt, now, tasks, nextRun, lastRun>>
  BY DEF Tick, taskVars
<1>3. FiredPast'
  BY <1>1, <1>2 DEF FiredPast
<1>4. Ahead'
  <2> SUFFICES ASSUME NEW i \in Ids, NEW o, o = tasks[i], o # Nobody, ~Busy(o)',
                      NEW m \in fired'[i]
               PROVE  /\ nextRun[o] # 0 => m < nextRun[o]
                      /\ lastRun[o] # 0 => m <= lastRun[o]
    BY <1>2 DEF Ahead, Busy
  <2>1. o \in Objs
    BY DEF TypeOK, TasksOK
  <2>2. i \notin due /\ ~Busy(o)
    BY <1>1, <2>1
  <2>3. m \in fired[i]
    BY <1>1, <2>2
  <2> QED BY <2>2, <2>3 DEF Ahead, Busy
<1>5. OncePerMinute'
  <2> SUFFICES ASSUME prompt PROVE twice' = {}
    BY <1>2 DEF OncePerMinute
  <2>1. ASSUME NEW i \in due PROVE nextRun[tasks[i]] \notin fired[i]
    <3>1. tasks[i] # Nobody /\ nextRun[tasks[i]] \in Nat
      BY <1>1, SchedulerAssumption DEF TypeOK, TasksOK, Times
    <3>2. ~Busy(tasks[i])
      BY <1>1 DEF Tick, Busy, At
    <3>3. \A m \in fired[i] : m < nextRun[tasks[i]]
      BY <1>1, <3>1, <3>2 DEF Ahead, Busy
    <3> QED BY <3>1, <3>3
  <2> QED BY <1>1, <2>1 DEF OncePerMinute
<1> QED BY <1>3, <1>4, <1>5

(* No other step starts anybody: one that gives a task a next run gives it *)
(* one in the future, or after its last run.                               *)
LEMMA OtherAhead ==
  ASSUME TypeOK, FiredPast, Ahead, [Next]_vars, ~Tick,
         NEW i \in Ids, tasks'[i] # Nobody, ~Busy(tasks[i])', NEW m \in fired[i]
  PROVE  /\ nextRun'[tasks'[i]] # 0 => m < nextRun'[tasks'[i]]
         /\ lastRun'[tasks'[i]] # 0 => m <= lastRun'[tasks'[i]]
<1> DEFINE o == tasks[i]
           Goal == /\ nextRun'[tasks'[i]] # 0 => m < nextRun'[tasks'[i]]
                   /\ lastRun'[tasks'[i]] # 0 => m <= lastRun'[tasks'[i]]
<1>1. /\ m \in Nat /\ now \in Nat /\ m <= now
      /\ o \in Objs \cup {Nobody} /\ Nobody \notin Objs
  BY SchedulerAssumption DEF TypeOK, TasksOK, ClockOK, FiredPast, Times
<1>2. ASSUME tasks'[i] = o, nextRun'[o] = nextRun[o], lastRun'[o] = lastRun[o],
             Busy(o) => Busy(o)'
      PROVE  Goal
  BY <1>2 DEF Ahead, Busy
<1>3. \A c \in Config, base \in Nat :
        /\ NextTime(c.cron, base) \in Nat
        /\ NextTime(c.cron, base) # 0 => base < NextTime(c.cron, base)
  BY NextTimeType, SchedulerAssumption DEF Config, Times
<1>4. ASSUME NEW r \in Runs, Finish(r) PROVE Goal
  <2>1. /\ tasks'[i] = o /\ o \in Objs /\ runs[r].obj \in Objs /\ config[o] \in Config
    BY <1>1, <1>4 DEF Finish, TypeOK, TasksOK, RunOK
  <2>2. CASE runs[r].obj = o
    <3>1. nextRun'[o] = NextTime(config[o].cron, now) /\ lastRun'[o] = now
      BY <1>4, <2>1, <2>2 DEF Finish, TypeOK, TasksOK
    <3> QED BY <1>1, <1>3, <2>1, <3>1
  <2>3. CASE runs[r].obj # o
    <3>1. nextRun'[o] = nextRun[o] /\ lastRun'[o] = lastRun[o]
      BY <1>4, <2>1, <2>3 DEF Finish, TypeOK, TasksOK
    <3>2. Busy(o) => Busy(o)'
      BY <1>4, <2>1, <2>3 DEF Finish, TypeOK, TasksOK, Busy, RunOK
    <3> QED BY <1>2, <2>1, <3>1, <3>2
  <2> QED BY <2>2, <2>3
<1>5. ASSUME NEW r \in Runs, MarkRunning(r) PROVE Goal
  <2>1. Busy(o) => Busy(o)'
    BY <1>5 DEF MarkRunning, Busy, TypeOK, TasksOK, RunOK
  <2> QED BY <1>2, <1>5, <2>1 DEF MarkRunning
<1>6. ASSUME NEW r \in Runs, Publish(r) \/ UpdateTaskState(r) \/ SaveState(r) PROVE Goal
  <2>1. Busy(o) => Busy(o)'
    BY <1>6 DEF Publish, UpdateTaskState, SaveState, Busy, TypeOK, RunOK, taskVars
  <2> QED BY <1>2, <1>6, <2>1 DEF Publish, UpdateTaskState, SaveState, taskVars
<1>7. ASSUME NEW j \in Ids, TriggerTask(j) PROVE Goal
  <2>1. Busy(o) => Busy(o)'
    BY <1>7 DEF TriggerTask, At, Busy, TypeOK, RunOK, taskVars
  <2> QED BY <1>2, <1>7, <2>1 DEF TriggerTask, taskVars
<1>8. ASSUME NEW j \in Ids, NEW c \in Config, AddTask(j, c) PROVE Goal
  <2>1. PICK x \in Fresh : /\ tasks' = [tasks EXCEPT ![j] = x]
                           /\ nextRun' = [nextRun EXCEPT ![x] = NextTime(c.cron, now)]
                           /\ lastRun' = [lastRun EXCEPT ![x] = 0]
                           /\ running' = [running EXCEPT ![x] = FALSE]
                           /\ runs' = runs
    BY <1>8 DEF AddTask
  <2>2. x \in Objs /\ x # o
    BY DEF Fresh
  <2>3. CASE j = i
    <3>1. tasks'[i] = x /\ nextRun'[x] = NextTime(c.cron, now) /\ lastRun'[x] = 0
      BY <2>1, <2>2, <2>3 DEF TypeOK, TasksOK
    <3> QED BY <1>1, <1>3, <3>1
  <2>4. CASE j # i
    <3>1. tasks'[i] = o /\ o \in Objs
      BY <1>1, <2>1, <2>4 DEF TypeOK, TasksOK
    <3>2. /\ nextRun'[o] = nextRun[o] /\ lastRun'[o] = lastRun[o]
          /\ Busy(o) => Busy(o)'
      BY <2>1, <2>2, <3>1 DEF TypeOK, TasksOK, Busy
    <3> QED BY <1>2, <3>1, <3>2
  <2> QED BY <2>3, <2>4
<1>9. ASSUME NEW j \in Ids, RemoveTask(j) PROVE Goal
  <2>1. tasks'[i] = o
    BY <1>9 DEF RemoveTask, TypeOK, TasksOK
  <2>2. Busy(o) => Busy(o)'
    BY <1>9 DEF RemoveTask, Busy
  <2> QED BY <1>2, <1>9, <2>1, <2>2 DEF RemoveTask
<1>10. CASE UpdateTask
  <2> DEFINE x == tasks[editing.id]  c == config[editing.obj]
  <2>1. /\ editing.id \in Ids /\ x \in Objs \cup {Nobody} /\ c \in Config
        /\ UNCHANGED <<tasks, lastRun, running, runs>>
    BY <1>10 DEF UpdateTask, TypeOK, RunOK, TasksOK
  <2>2. Busy(o) => Busy(o)'
    BY <2>1 DEF Busy
  <2>3. CASE x = Nobody \/ x # o
    <3>1. o \in Objs
      BY <1>1, <2>1
    <3>2. nextRun'[o] = nextRun[o]
      BY <1>10, <2>3, <3>1 DEF UpdateTask, TypeOK, TasksOK
    <3> QED BY <1>2, <2>1, <2>2, <3>2
  <2>4. CASE x # Nobody /\ x = o
    <3>1. nextRun'[o] = NextTime(c.cron, Base(lastRun[o]))
      BY <1>10, <2>1, <2>4 DEF UpdateTask, TypeOK, TasksOK
    <3>2. lastRun[o] \in Nat /\ Base(lastRun[o]) \in Nat
      BY <1>1, <2>1, <2>4, SchedulerAssumption DEF TypeOK, TasksOK, Times, Base
    <3>3. ~Busy(o)
      BY <2>1 DEF Busy
    <3>4. lastRun[o] # 0 => m <= lastRun[o]
      BY <2>1, <2>4, <3>3 DEF Ahead, Busy
    <3>5. m <= Base(lastRun[o])
      BY <1>1, <3>4 DEF Base
    <3>6. /\ NextTime(c.cron, Base(lastRun[o])) \in Nat
          /\ NextTime(c.cron, Base(lastRun[o])) # 0
               => Base(lastRun[o]) < NextTime(c.cron, Base(lastRun[o]))
      BY <1>3, <2>1, <3>2
    <3> HIDE DEF o, x, c
    <3>7. nextRun'[o] # 0 => m < nextRun'[o]
      BY <1>1, <3>1, <3>2, <3>5, <3>6
    <3> QED BY <2>1, <3>4, <3>7 DEF o
  <2> QED BY <2>3, <2>4
<1>11. CASE Restart
  <2>1. tasks'[i] \in Objs
    BY <1>11, SchedulerAssumption DEF Restart, Booted
  <2>2. /\ lastRun'[tasks'[i]] = 0
        /\ nextRun'[tasks'[i]] = 0 \/ nextRun'[tasks'[i]] = NextTime(First, now)
    BY <1>11, <2>1 DEF Restart, FirstRun
  <2>3. NextTime(First, now) \in Nat /\ (NextTime(First, now) # 0 => now < NextTime(First, now))
    BY <1>1, NextTimeType, SchedulerAssumption DEF Times
  <2> QED BY <1>1, <2>2, <2>3
<1>12. CASE UNCHANGED <<tasks, nextRun, lastRun, running, runs>>
  BY <1>2, <1>12 DEF Busy
<1> HIDE DEF Goal
<1>13. \/ UpdateTask \/ Restart \/ UNCHANGED <<tasks, nextRun, lastRun, running, runs>>
       \/ \E r \in Runs : \/ MarkRunning(r) \/ Publish(r) \/ UpdateTaskState(r)
                          \/ SaveState(r) \/ Finish(r)
       \/ \E j \in Ids : TriggerTask(j) \/ RemoveTask(j)
       \/ \E j \in Ids, c \in Config : AddTask(j, c)
  BY SchedulerSteps DEF Stop, SaveAll, Advance, EditConfig, taskVars, vars
<1>14. Goal
  <2> HIDE DEF o
  <2>1. ASSUME NEW r \in Runs, \/ MarkRunning(r) \/ Publish(r) \/ UpdateTaskState(r)
                               \/ SaveState(r) \/ Finish(r)
        PROVE  Goal
    BY <1>4, <1>5, <1>6, <2>1
  <2>2. ASSUME NEW j \in Ids, TriggerTask(j) \/ RemoveTask(j) PROVE Goal
    BY <1>7, <1>9, <2>2
  <2>3. CASE \E j \in Ids, c \in Config : AddTask(j, c)
    BY <1>8, <2>3
  <2>4. CASE UpdateTask \/ Restart
    BY <1>10, <1>11, <2>4 DEF Goal
  <2>5. CASE UNCHANGED <<tasks, nextRun, lastRun, running, runs>>
    BY <1>12, <2>5 DEF Goal
  <2> QED BY <1>13, <2>1, <2>2, <2>3, <2>4, <2>5
<1> QED BY <1>14 DEF Goal

LEMMA MinuteStep ==
  ASSUME TypeOK, MinuteInv, [Next]_vars
  PROVE  MinuteInv'
<1>1. CASE Tick
  BY <1>1, TickMinute
<1>2. CASE ~Tick
  <2>1. /\ UNCHANGED <<prompt, fired, twice>> /\ now' \in {now, now + 1}
    BY <1>2, SchedulerSteps DEF MarkRunning, Publish, UpdateTaskState, SaveState, Finish,
      TriggerTask, AddTask, RemoveTask, EditConfig, UpdateTask, Stop, SaveAll, Restart,
      Advance, histVars, vars
  <2>2. \A i \in Ids : \A m \in fired[i] : m \in Nat /\ m <= now /\ now \in Nat
    BY SchedulerAssumption DEF TypeOK, ClockOK, MinuteInv, FiredPast, Times
  <2>3. FiredPast'
    BY <2>1, <2>2 DEF FiredPast
  <2>4. OncePerMinute'
    BY <2>1 DEF MinuteInv, OncePerMinute
  <2>5. Ahead'
    <3>1. ASSUME NEW i \in Ids, tasks'[i] # Nobody, ~Busy(tasks[i])', NEW m \in fired[i]
          PROVE  /\ nextRun'[tasks'[i]] # 0 => m < nextRun'[tasks'[i]]
                 /\ lastRun'[tasks'[i]] # 0 => m <= lastRun'[tasks'[i]]
      BY <1>2, <3>1, OtherAhead DEF MinuteInv
    <3> QED BY <2>1, <3>1 DEF Ahead
  <2> QED BY <2>3, <2>4, <2>5 DEF MinuteInv
<1> QED BY <1>1, <1>2

(* No minute of the schedule starts a task twice, as long as its goroutine *)
(* marks it before the next tick: for any manual triggers, updates,        *)
(* removals and restarts (checkAndExecute, executeTask, UpdateTask).       *)
THEOREM AtMostOnce == Spec => []OncePerMinute
<1>1. MinuteInv => OncePerMinute
  BY DEF MinuteInv
<1> QED BY <1>1, InitType, InitMinute, TypeStep, MinuteStep, PTL DEF Spec

-----------------------------------------------------------------------------
(* The WebSocket server.                                                   *)

(* The steps of the hub: of a connection, of a dispatcher, of Stop.        *)
ConnStep(c) ==
  \/ Register(c) \/ Handle(c) \/ Leave(c) \/ Stall(c)
  \/ \E kind \in {"publish", "subscribe", "reply"} : Read(c, kind)
  \/ Published(c) \/ Reply(c) \/ LookUp(c) \/ Update(c) \/ ReadFails(c)
  \/ Take(c) \/ Write(c) \/ WriteFails(c) \/ Remove(c) \/ HangUp(c) \/ StopClose(c)

DispStep(d) ==
  \/ PublishEvent(d) \/ Begin(d) \/ End(d) \/ Exit(d)
  \/ \E c \in Conns : Visit(d, c) \/ SendTo(d, c)

LEMMA HubSteps ==
  [HubNext]_hubVars =>
    \/ \E c \in Conns : ConnStep(c)
    \/ \E d \in Dispatchers : DispStep(d)
    \/ StopServer \/ Sweep \/ StopEnd \/ UNCHANGED hubVars
BY DEF HubNext, Reading, Sending, Dispatching, Stopping, ConnStep, DispStep

-----------------------------------------------------------------------------
LEMMA InitHubType == HubInit => HubTypeOK
BY HubAssumption DEF HubInit, HubTypeOK, ServerOK, ConnOK, LoopOK, DispOK

LEMMA ServerStep == ServerOK /\ [HubNext]_hubVars => ServerOK'
<1> SUFFICES ASSUME ServerOK, [HubNext]_hubVars PROVE ServerOK'
  OBVIOUS
<1> USE DEF ServerOK, mapVars, stopVars
<1>1. ASSUME NEW c \in Conns, ConnStep(c) PROVE ServerOK'
  BY <1>1 DEF ConnStep, Register, Handle, Leave, Stall, Read, Published, Reply, LookUp,
    Update, ReadFails, Take, Write, WriteFails, Remove, Removal, HangUp, StopClose
<1>2. ASSUME NEW d \in Dispatchers, DispStep(d) PROVE ServerOK'
  BY <1>2 DEF DispStep, PublishEvent, Begin, End, Exit, Visit, SendTo
<1>3. CASE StopServer \/ Sweep \/ StopEnd \/ UNCHANGED hubVars
  BY <1>3 DEF StopServer, Sweep, StopEnd, hubVars
<1> QED BY <1>1, <1>2, <1>3, HubSteps

LEMMA ConnOKStep == ConnOK /\ [HubNext]_hubVars => ConnOK'
<1> SUFFICES ASSUME ConnOK, [HubNext]_hubVars PROVE ConnOK'
  OBVIOUS
<1> USE DEF ConnOK, connVars
<1>1. ASSUME NEW c \in Conns, NEW who \in {"reader", "sender", "stop"}, Close(c, who),
             UNCHANGED <<sendOpen, wsUp, reads>>
      PROVE  ConnOK'
  BY <1>1 DEF Close
<1>2. ASSUME NEW c \in Conns, Remove(c) PROVE ConnOK'
  BY <1>2 DEF Remove, Removal
<1>3. ASSUME NEW c \in Conns, HangUp(c) PROVE ConnOK'
  BY <1>3 DEF HangUp
<1>4. ASSUME NEW c \in Conns, Leave(c) \/ Stall(c) PROVE ConnOK'
  BY <1>4 DEF Leave, Stall
<1>5. CASE UNCHANGED <<connVars, reads>>
  BY <1>5
<1>6. ASSUME NEW c \in Conns, ConnStep(c) PROVE ConnOK'
  BY <1>6, <1>1, <1>2, <1>3, <1>4, <1>5 DEF ConnStep, Register, Handle, Read, Published,
    Reply, LookUp, Update, ReadFails, Take, Write, WriteFails, StopClose
<1>7. ASSUME NEW d \in Dispatchers, DispStep(d) PROVE ConnOK'
  BY <1>7, <1>5 DEF DispStep, PublishEvent, Begin, End, Exit, Visit, SendTo
<1>8. CASE StopServer \/ Sweep \/ StopEnd \/ UNCHANGED hubVars
  BY <1>8, <1>5 DEF StopServer, Sweep, StopEnd, hubVars
<1> QED BY <1>6, <1>7, <1>8, HubSteps

LEMMA ComeType ==
  ASSUME inputs \in [InputKinds -> Nat], NEW kind \in {"event", "message", "leave", "stall"}, Come(kind)
  PROVE  inputs' \in [InputKinds -> Nat]
<1>1. inputs[kind] \in Nat /\ inputs[kind] > 0
  BY DEF Come, InputKinds
<1>2. inputs[kind] - 1 \in Nat
  BY <1>1
<1> QED BY <1>2 DEF Come

LEMMA LoopStep == LoopOK /\ [HubNext]_hubVars => LoopOK'
<1> SUFFICES ASSUME LoopOK, [HubNext]_hubVars PROVE LoopOK'
  OBVIOUS
<1> USE HubAssumption DEF LoopOK
<1>1. ASSUME NEW c \in Conns, NEW who \in {"reply", "broadcast"}, Send(c, who)
      PROVE  /\ sendChan' \in [Conns -> 0..SendCap]
             /\ panicked' \in {"no", "reply", "broadcast", "close"}
  BY <1>1 DEF Send
<1>2. ASSUME NEW c \in Conns, Reply(c) PROVE LoopOK'
  BY <1>1, <1>2 DEF Reply
<1>3. ASSUME NEW d \in Dispatchers, NEW c \in Conns, SendTo(d, c) PROVE LoopOK'
  BY <1>1, <1>3 DEF SendTo
<1>4. ASSUME NEW c \in Conns, Take(c) PROVE LoopOK'
  BY <1>4 DEF Take
<1>5. ASSUME NEW c \in Conns, Leave(c) \/ Stall(c) PROVE LoopOK'
  BY <1>5, ComeType DEF Leave, Stall
<1>6. ASSUME NEW c \in Conns, \E kind \in {"publish", "subscribe", "reply"} : Read(c, kind)
      PROVE  LoopOK'
  BY <1>6, ComeType DEF Read
<1>7. ASSUME NEW d \in Dispatchers, PublishEvent(d) PROVE LoopOK'
  BY <1>7, ComeType DEF PublishEvent
<1>8. ASSUME NEW c \in Conns, Remove(c) PROVE LoopOK'
  BY <1>8 DEF Remove, Removal
<1>9. ASSUME UNCHANGED <<sendChan, inputs, panicked>>,
             NEW c \in Conns, NEW r \in {"starting", "read", "subscribe", "update", "reply",
                                          "closing", "done"},
             NEW w \in {"none", "take", "write", "closing", "done"},
             reader' \in {reader, [reader EXCEPT ![c] = r]},
             sender' \in {sender, [sender EXCEPT ![c] = w]}
      PROVE  LoopOK'
  BY <1>9
<1>10. ASSUME NEW c \in Conns,
              \/ Register(c) \/ Handle(c) \/ Published(c) \/ LookUp(c) \/ Update(c)
              \/ ReadFails(c) \/ Write(c) \/ WriteFails(c) \/ HangUp(c) \/ StopClose(c)
       PROVE  LoopOK'
  BY <1>9, <1>10 DEF Register, Handle, Published, LookUp, Update, ReadFails, Write,
    WriteFails, HangUp, StopClose
<1>11. CASE UNCHANGED <<sendChan, reader, sender, inputs, panicked>>
  BY <1>11
<1>12. ASSUME NEW d \in Dispatchers, DispStep(d) PROVE LoopOK'
  BY <1>3, <1>7, <1>11, <1>12 DEF DispStep, Begin, End, Exit, Visit
<1>13. CASE StopServer \/ Sweep \/ StopEnd \/ UNCHANGED hubVars
  BY <1>11, <1>13 DEF StopServer, Sweep, StopEnd, hubVars
<1> QED BY <1>2, <1>4, <1>5, <1>6, <1>8, <1>10, <1>12, <1>13, HubSteps DEF ConnStep

LEMMA DispOKStep == ServerOK /\ DispOK /\ [HubNext]_hubVars => DispOK'
<1> SUFFICES ASSUME ServerOK, DispOK, [HubNext]_hubVars PROVE DispOK'
  OBVIOUS
<1> USE DEF DispOK, dispVars
<1>1. ASSUME NEW c \in Conns, NEW who \in {"reply", "broadcast"}, Send(c, who)
      PROVE  pending' \in [Dispatchers -> Nat]
  BY <1>1 DEF Send
<1>2. ASSUME NEW c \in Conns, ConnStep(c) PROVE DispOK'
  BY <1>1, <1>2 DEF ConnStep, Register, Handle, Leave, Stall, Read, Published, Reply, LookUp,
    Update, ReadFails, Take, Write, WriteFails, Remove, HangUp, StopClose
<1>3. ASSUME NEW d \in Dispatchers, DispStep(d) PROVE DispOK'
  BY <1>1, <1>3 DEF DispStep, PublishEvent, Begin, End, Exit, Visit, SendTo, ServerOK
<1>4. CASE StopServer \/ Sweep \/ StopEnd \/ UNCHANGED hubVars
  BY <1>4 DEF StopServer, Sweep, StopEnd, hubVars
<1> QED BY <1>2, <1>3, <1>4, HubSteps

LEMMA HubTypeStep == HubTypeOK /\ [HubNext]_hubVars => HubTypeOK'
BY ServerStep, ConnOKStep, LoopStep, DispOKStep DEF HubTypeOK

(* The variables keep their shape: a connection's closed flag is set when  *)
(* somebody is in the body of its Close, and never cleared, and the        *)
(* readers of connMu are the dispatchers in a broadcast.                   *)
THEOREM HubTypeCorrect == HubSpec => []HubTypeOK
BY InitHubType, HubTypeStep, PTL DEF HubSpec

-----------------------------------------------------------------------------
(* A connection that is not registered yet is not known to anybody; one in *)
(* the map has not been removed by Close; and its sendChan is open until   *)
(* Close is past both sections of RemoveConnection.                        *)
NotYet     == \A c \in Conns : reader[c] = "none" =>
                /\ closing[c] = "no" /\ sender[c] = "none"
                /\ c \notin connections /\ c \notin toClose
Listed     == \A c \in connections : closing[c] \in {"no", "remove"}
OpenTill   == \A c \in Conns :
                closing[c] \in {"no", "remove", "forget", "shut"} => c \in sendOpen

(* A broadcast reads the map under the lock: what it has still to visit,   *)
(* and what it is sending to, stay in the map until it is done.            *)
TodoListed == \A d \in Dispatchers : disp[d] = "visit" => todo[d] \subseteq connections
HoldListed == \A d \in Dispatchers :
                hold[d] # NoConn => disp[d] = "visit" /\ hold[d] \in connections

HubInv == NotYet /\ Listed /\ OpenTill /\ TodoListed /\ HoldListed /\ BroadcastSafe

LEMMA InitHub == HubInit => HubInv
BY HubAssumption DEF HubInit, HubInv, NotYet, Listed, OpenTill, TodoListed, HoldListed,
  BroadcastSafe

LEMMA NotYetStep == HubTypeOK /\ NotYet /\ [HubNext]_hubVars => NotYet'
<1> SUFFICES ASSUME ConnOK, LoopOK, NotYet, [HubNext]_hubVars,
                    NEW x \in Conns, reader'[x] = "none"
             PROVE  /\ closing'[x] = "no" /\ sender'[x] = "none"
                    /\ x \notin connections' /\ x \notin toClose'
  BY DEF HubTypeOK, NotYet
<1> DEFINE Goal == /\ closing'[x] = "no" /\ sender'[x] = "none"
                   /\ x \notin connections' /\ x \notin toClose'
<1> USE DEF mapVars, connVars, stopVars
<1>1. ASSUME reader[x] = "none"
      PROVE  /\ closing[x] = "no" /\ sender[x] = "none"
             /\ x \notin connections /\ x \notin toClose
  BY <1>1 DEF NotYet
<1>2. ASSUME NEW c \in Conns, ConnStep(c) PROVE Goal
  <2> USE <1>1 DEF LoopOK, ConnOK
  <2>1. CASE Register(c) \/ Handle(c) \/ LookUp(c) \/ Update(c)
    BY <2>1 DEF Register, Handle, LookUp, Update
  <2>2. CASE Leave(c) \/ Stall(c) \/ Published(c) \/ Reply(c)
    BY <2>2 DEF Leave, Stall, Published, Reply
  <2>3. CASE \E kind \in {"publish", "subscribe", "reply"} : Read(c, kind)
    BY <2>3 DEF Read
  <2>4. CASE Take(c) \/ Write(c)
    BY <2>4 DEF Take, Write
  <2>5. CASE ReadFails(c) \/ WriteFails(c)
    BY <2>5 DEF ReadFails, WriteFails, Close
  <2>6. CASE StopClose(c)
    BY <2>6 DEF StopClose, Close
  <2>7. CASE Remove(c)
    BY <2>7 DEF Remove, Removal
  <2>8. CASE HangUp(c)
    BY <2>8 DEF HangUp
  <2> QED BY <1>2, <2>1, <2>2, <2>3, <2>4, <2>5, <2>6, <2>7, <2>8 DEF ConnStep
<1>3. ASSUME NEW d \in Dispatchers, DispStep(d) PROVE Goal
  BY <1>1, <1>3 DEF DispStep, PublishEvent, Begin, End, Exit, Visit, SendTo
<1>4. CASE StopServer \/ Sweep \/ StopEnd \/ UNCHANGED hubVars
  BY <1>1, <1>4 DEF StopServer, Sweep, StopEnd, hubVars
<1> QED BY <1>2, <1>3, <1>4, HubSteps

(* What a step does to the map, to closing and to the channels.            *)
LEMMA MapSteps ==
  ASSUME ServerOK, ConnOK, LoopOK, NotYet, [HubNext]_hubVars
  PROVE  \/ \E c \in Conns : Register(c)
         \/ \E c \in Conns : Remove(c)
         \/ \E c \in Conns : HangUp(c)
         \/ \E c \in Conns, who \in {"reader", "sender", "stop"} :
              /\ reader[c] # "none" /\ Close(c, who)
              /\ UNCHANGED <<connections, sendOpen, dispVars, panicked>>
         \/ Sweep
         \/ UNCHANGED <<connections, closed, closing, sendOpen>>
<1> USE DEF mapVars, connVars
<1>1. ASSUME NEW c \in Conns, ConnStep(c)
      PROVE  \/ Register(c) \/ Remove(c) \/ HangUp(c)
             \/ \E who \in {"reader", "sender", "stop"} :
                  /\ reader[c] # "none" /\ Close(c, who)
                  /\ UNCHANGED <<connections, sendOpen, dispVars, panicked>>
             \/ UNCHANGED <<connections, closed, closing, sendOpen>>
  <2>1. CASE ReadFails(c) \/ WriteFails(c) \/ StopClose(c)
    BY <2>1 DEF ReadFails, WriteFails, StopClose, NotYet
  <2>2. CASE Handle(c) \/ LookUp(c) \/ Update(c) \/ Leave(c) \/ Stall(c)
    BY <2>2 DEF Handle, LookUp, Update, Leave, Stall
  <2>3. CASE Published(c) \/ Reply(c) \/ Take(c) \/ Write(c)
    BY <2>3 DEF Published, Reply, Take, Write
  <2>4. CASE \E kind \in {"publish", "subscribe", "reply"} : Read(c, kind)
    BY <2>4 DEF Read
  <2> QED BY <1>1, <2>1, <2>2, <2>3, <2>4 DEF ConnStep
<1>2. ASSUME NEW d \in Dispatchers, DispStep(d)
      PROVE  UNCHANGED <<connections, closed, closing, sendOpen>>
  BY <1>2 DEF DispStep, PublishEvent, Begin, End, Exit, Visit, SendTo
<1>3. StopServer \/ StopEnd \/ UNCHANGED hubVars =>
        UNCHANGED <<connections, closed, closing, sendOpen>>
  BY DEF StopServer, StopEnd, hubVars
<1> QED BY <1>1, <1>2, <1>3, HubSteps

LEMMA ListedStep ==
  HubTypeOK /\ NotYet /\ Listed /\ OpenTill /\ [HubNext]_hubVars => Listed' /\ OpenTill'
<1> SUFFICES ASSUME ServerOK, ConnOK, LoopOK, NotYet, Listed, OpenTill, [HubNext]_hubVars
             PROVE  Listed' /\ OpenTill'
  BY DEF HubTypeOK
<1> USE DEF Listed, OpenTill, ServerOK, ConnOK
<1>1. ASSUME NEW c \in Conns, Register(c) PROVE Listed' /\ OpenTill'
  BY <1>1 DEF Register, NotYet, connVars
<1>2. ASSUME NEW c \in Conns, Remove(c) PROVE Listed' /\ OpenTill'
  BY <1>2 DEF Remove, Removal
<1>3. ASSUME NEW c \in Conns, HangUp(c) PROVE Listed' /\ OpenTill'
  BY <1>3 DEF HangUp, mapVars
<1>4. ASSUME NEW c \in Conns, NEW who \in {"reader", "sender", "stop"}, Close(c, who),
             UNCHANGED <<connections, sendOpen>>
      PROVE  Listed' /\ OpenTill'
  BY <1>4 DEF Close
<1>5. CASE Sweep
  BY <1>5 DEF Sweep, connVars
<1>6. CASE UNCHANGED <<connections, closed, closing, sendOpen>>
  BY <1>6
<1> QED BY <1>1, <1>2, <1>3, <1>4, <1>5, <1>6, MapSteps

(* A dispatcher in a broadcast keeps everybody else from taking anything   *)
(* out of the map.                                                         *)
LEMMA BroadcastStep ==
  HubTypeOK /\ HubInv /\ [HubNext]_hubVars => TodoListed' /\ HoldListed' /\ BroadcastSafe'
<1> SUFFICES ASSUME ServerOK, ConnOK, LoopOK, DispOK, HubInv, [HubNext]_hubVars
             PROVE  TodoListed' /\ HoldListed' /\ BroadcastSafe'
  BY DEF HubTypeOK
<1> USE DEF HubInv, TodoListed, HoldListed, BroadcastSafe, ServerOK, DispOK
<1>1. ASSUME NEW d \in Dispatchers, Begin(d)
      PROVE  TodoListed' /\ HoldListed' /\ BroadcastSafe'
  BY <1>1 DEF Begin, mapVars
<1>2. ASSUME NEW d \in Dispatchers, NEW c \in Conns, Visit(d, c)
      PROVE  TodoListed' /\ HoldListed' /\ BroadcastSafe'
  BY <1>2 DEF Visit, mapVars
<1>3. ASSUME NEW d \in Dispatchers, NEW c \in Conns, SendTo(d, c)
      PROVE  TodoListed' /\ HoldListed' /\ BroadcastSafe'
  <2>1. c \in connections
    BY <1>3, HubAssumption DEF SendTo
  <2>2. c \in sendOpen
    BY <2>1 DEF Listed, OpenTill
  <2> QED BY <1>3, <2>2 DEF SendTo, Send, mapVars
<1>4. ASSUME NEW d \in Dispatchers, End(d) \/ Exit(d) \/ PublishEvent(d)
      PROVE  TodoListed' /\ HoldListed' /\ BroadcastSafe'
  BY <1>4 DEF End, Exit, PublishEvent, mapVars, dispVars
<1>5. ASSUME NEW c \in Conns, Remove(c) PROVE TodoListed' /\ HoldListed' /\ BroadcastSafe'
  BY <1>5 DEF Remove, Removal, dispVars, OpenTill
<1>6. CASE Sweep
  BY <1>6 DEF Sweep, dispVars
<1>7. ASSUME NEW c \in Conns, Register(c) PROVE TodoListed' /\ HoldListed' /\ BroadcastSafe'
  BY <1>7 DEF Register, dispVars
<1>8. ASSUME NEW c \in Conns, Reply(c) PROVE TodoListed' /\ HoldListed' /\ BroadcastSafe'
  BY <1>8 DEF Reply, Send, mapVars, dispVars
<1>9. CASE UNCHANGED <<connections, dispVars, panicked>>
  BY <1>9 DEF dispVars
<1>10. ASSUME NEW c \in Conns, ConnStep(c)
       PROVE  TodoListed' /\ HoldListed' /\ BroadcastSafe'
  <2>1. \/ Register(c) \/ Remove(c) \/ Reply(c) \/ UNCHANGED <<connections, dispVars, panicked>>
    BY <1>10 DEF ConnStep, Handle, Leave, Stall, Read, Published, LookUp, Update, ReadFails,
      Take, Write, WriteFails, HangUp, StopClose, mapVars
  <2> QED BY <2>1, <1>5, <1>7, <1>8, <1>9
<1>11. CASE StopServer \/ StopEnd \/ UNCHANGED hubVars
  BY <1>11, <1>9 DEF StopServer, StopEnd, hubVars, mapVars
<1> QED BY <1>1, <1>2, <1>3, <1>4, <1>6, <1>10, <1>11, HubSteps DEF DispStep

(* No broadcast sends on a channel that Close has closed, and no Close     *)
(* closes one twice, for any number of connections (connection.go).        *)
THEOREM SafeBroadcast == HubSpec => []BroadcastSafe
<1>1. HubTypeOK /\ HubInv /\ [HubNext]_hubVars => HubTypeOK' /\ HubInv'
  BY HubTypeStep, NotYetStep, ListedStep, BroadcastStep DEF HubInv
<1>2. HubInit => HubTypeOK /\ HubInv
  BY InitHubType, InitHub
<1>3. HubInv => BroadcastSafe
  BY DEF HubInv
<1> QED BY <1>1, <1>2, <1>3, PTL DEF HubSpec

-----------------------------------------------------------------------------
(* A connection that Close has removed from the subscriptions has one only *)
(* if it was made after the removal.                                       *)
Unsubscribed ==
  \A c \in Conns : /\ closing[c] \in {"shut", "hang up", "done"}
                   /\ subscriptions[c] # "none"
                   => c \in late

LEMMA UnsubscribedStep ==
  HubTypeOK /\ NotYet /\ Unsubscribed /\ [HubNext]_hubVars => Unsubscribed'
<1> SUFFICES ASSUME ServerOK, ConnOK, Unsubscribed, [HubNext]_hubVars,
                    NEW x \in Conns, closing'[x] \in {"shut", "hang up", "done"},
                    subscriptions'[x] # "none"
             PROVE  x \in late'
  BY DEF HubTypeOK, Unsubscribed
<1> USE DEF mapVars, connVars
<1>1. ASSUME closing[x] \in {"shut", "hang up", "done"}, subscriptions[x] # "none"
      PROVE  x \in late
  BY <1>1 DEF Unsubscribed
<1>2. ASSUME NEW c \in Conns, ConnStep(c) PROVE x \in late'
  <2> USE <1>1 DEF ServerOK, ConnOK
  <2>1. CASE Handle(c) \/ LookUp(c) \/ Update(c)
    BY <2>1 DEF Handle, LookUp, Update
  <2>2. CASE Remove(c)
    BY <2>2 DEF Remove, Removal
  <2>3. CASE HangUp(c)
    BY <2>3 DEF HangUp
  <2>4. CASE ReadFails(c) \/ WriteFails(c) \/ StopClose(c)
    BY <2>4 DEF ReadFails, WriteFails, StopClose, Close
  <2>5. CASE UNCHANGED <<subscriptions, late, closing>>
    BY <2>5
  <2> HIDE <1>1 DEF ServerOK, ConnOK
  <2> QED BY <1>2, <2>1, <2>2, <2>3, <2>4, <2>5 DEF ConnStep, Register, Leave, Stall, Read,
    Published, Reply, Take, Write
<1>3. ASSUME NEW d \in Dispatchers, DispStep(d) PROVE x \in late'
  BY <1>1, <1>3 DEF DispStep, PublishEvent, Begin, End, Exit, Visit, SendTo
<1>4. CASE StopServer \/ Sweep \/ StopEnd \/ UNCHANGED hubVars
  BY <1>1, <1>4 DEF StopServer, Sweep, StopEnd, hubVars
<1> QED BY <1>2, <1>3, <1>4, HubSteps

(* A connection whose Close is over is in neither map, but for a           *)
(* subscription made too late (RemoveConnection, UpdateSubscription).      *)
THEOREM Forgotten == HubSpec => []ClosedForgotten
<1> DEFINE Inv == HubTypeOK /\ NotYet /\ Listed /\ OpenTill /\ Unsubscribed
<1>1. HubInit => Inv
  BY InitHubType, InitHub DEF HubInit, HubInv, Unsubscribed
<1>2. Inv /\ [HubNext]_hubVars => Inv'
  BY HubTypeStep, NotYetStep, ListedStep, UnsubscribedStep
<1>3. Inv => ClosedForgotten
  BY DEF Unsubscribed, Listed, ClosedForgotten
<1> QED BY <1>1, <1>2, <1>3, PTL DEF HubSpec
=============================================================================
