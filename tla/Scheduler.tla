----------------------------- MODULE Scheduler -----------------------------
(***************************************************************************)
(* The task scheduler (src/scheduler/scheduler.go, task.go, store_json.go) *)
(* with the handlers that edit tasks (src/gateway/ws/server.go).           *)
(*                                                                         *)
(* A ticker looks for due tasks and starts a goroutine for each; so does a *)
(* manual trigger.  The goroutine marks the task running, publishes an     *)
(* inbound message, records the outcome in memory and on disk, and clears  *)
(* the mark, computing the next run from the end of this one.  Tasks are   *)
(* added, removed and updated meanwhile; an update changes the shared      *)
(* configuration first and takes the lock afterwards.                      *)
(*                                                                         *)
(* Time is counted in minutes, a cron expression is the set of minutes it  *)
(* matches.  s.mu is modelled where it is held over more than one step: by *)
(* updateTaskState, from the change in memory to the file.  Of a task's    *)
(* state only the number of its runs is kept.  The tasks of the            *)
(* configuration file are there again after a restart, others are not.     *)
(***************************************************************************)
EXTENDS Naturals, FiniteSetsExt

CONSTANTS
  Ids,         \* task ids
  Configured,  \* the ids in the configuration file
  Objs,        \* Task objects, enough for every pointer held; a configured
               \* task starts out as the object named by its id
  Runs,        \* the goroutines of executeTask, a bound
  Schedules,   \* cron expressions, each the set of minutes it matches
  First,       \* the schedule of the configured tasks
  Prompts,     \* values of prompt
  Nobody, None, Torn,
  MaxTime,     \* bound on the clock
  MaxOps       \* bound: manual triggers, tasks added, removed or updated,
               \* and restarts, together

ASSUME SchedulerAssumption ==
  /\ Configured \subseteq Ids \cap Objs /\ First \in Schedules
  /\ MaxTime \in Nat \ {0} /\ MaxOps \in Nat
  /\ Schedules \subseteq SUBSET (1..MaxTime)
  /\ Prompts \subseteq BOOLEAN
  /\ Nobody \notin Objs \cup Runs /\ Torn # None

VARIABLES
  prompt,   \* a goroutine gets going before the next tick; fixed at the start
  phase,    \* "up", "cancelled" by Stop, or "stopped"
  now,
  tasks,    \* s.tasks: the object of each id, Nobody for none
  config,   \* each object's configuration
  nextRun, lastRun,   \* 0 is the zero time
  running,
  states,   \* s.taskStates: the runs recorded, None for no entry
  disk,     \* the state file: the same, or Torn
  mu,       \* the goroutine in updateTaskState, which holds s.mu
  runs,     \* what each goroutine of executeTask is doing
  editing,  \* the update handler: the id and object it found, or None
  fired,    \* history: the minutes each id was started for by the ticker
  twice,    \* history: the ids started twice for one minute
  used      \* manual triggers, edits and restarts so far

taskVars  == <<tasks, config, nextRun, lastRun, running>>
storeVars == <<states, disk>>
histVars  == <<fired, twice, used>>
vars == <<prompt, phase, now, taskVars, storeVars, mu, runs, editing, histVars>>

Times == 0..MaxTime
Config == [cron : Schedules, enabled : BOOLEAN]
Free == [pc |-> "free", obj |-> Nobody, id |-> None]

(* Mutant: the minute of the last run counts again.                        *)
NextTimeInclusive(cron, base) ==
  LET later == {t \in cron : t >= base} IN IF later = {} THEN 0 ELSE Min(later)

(* parseCron: the first matching minute from base + 1 on; the zero time if *)
(* there is none.                                                          *)
Later(cron, base) == {t \in cron : t >= base + 1}
NextTime(cron, base) == IF Later(cron, base) = {} THEN 0 ELSE Min(Later(cron, base))

(* calculateNextRun: from the last run if there was one, else from now.    *)
Base(last) == IF last # 0 THEN last ELSE now

Fresh == Objs \ ({tasks[i] : i \in Ids} \cup {runs[r].obj : r \in Runs}
                  \cup (IF editing = None THEN {} ELSE {editing.obj}))

(* NewScheduler and Start: the configured tasks anew.                      *)
Booted == [i \in Ids |-> IF i \in Configured THEN i ELSE Nobody]
FirstRun == [o \in Objs |-> IF o \in Configured THEN NextTime(First, now) ELSE 0]

Init ==
  /\ prompt \in Prompts /\ phase = "up" /\ now = 1
  /\ tasks = Booted
  /\ config = [o \in Objs |-> [cron |-> First, enabled |-> TRUE]]
  /\ nextRun = FirstRun /\ lastRun = [o \in Objs |-> 0]
  /\ running = [o \in Objs |-> FALSE]
  /\ states = [i \in Ids |-> None] /\ disk = [i \in Ids |-> None]
  /\ mu = Nobody /\ runs = [r \in Runs |-> Free] /\ editing = None
  /\ fired = [i \in Ids |-> {}] /\ twice = {}
  /\ used = 0

-----------------------------------------------------------------------------
(* checkAndExecute.  A task whose minute is the current one may be a few   *)
(* seconds early.                                                          *)
Due(i, late) ==
  LET o == tasks[i] IN
    /\ o # Nobody /\ config[o].enabled /\ ~running[o] /\ nextRun[o] # 0
    /\ nextRun[o] < now \/ (late /\ nextRun[o] = now)

At(l) == {r \in Runs : runs[r].pc = l}

(* A goroutine for each of the tasks that are due.                         *)
StartAll(due) ==
  /\ due # {}
  /\ \E r \in [due -> At("free")] :
       /\ \A i, j \in due : r[i] = r[j] => i = j
       /\ runs' = [x \in Runs |->
            IF \E i \in due : r[i] = x
            THEN LET i == CHOOSE j \in due : r[j] = x IN
                   [pc |-> "start", obj |-> tasks[i], id |-> i]
            ELSE runs[x]]
  /\ fired' = [i \in Ids |-> IF i \in due THEN fired[i] \cup {nextRun[tasks[i]]} ELSE fired[i]]
  /\ twice' = twice \cup {i \in due : nextRun[tasks[i]] \in fired[i]}

(* The loop looks at the ticker for the last time before Stop waits for    *)
(* it.                                                                     *)
Tick ==
  /\ phase \in {"up", "cancelled"} /\ mu = Nobody
  /\ prompt => At("start") = {}
  /\ \E late \in BOOLEAN : StartAll({i \in Ids : Due(i, late)})
  /\ UNCHANGED <<prompt, phase, now, taskVars, storeVars, mu, editing, used>>

(* TriggerTask does not ask whether the task is running.                   *)
TriggerTask(i) ==
  /\ used < MaxOps /\ tasks[i] # Nobody /\ mu = Nobody
  /\ \E r \in At("free") :
       runs' = [runs EXCEPT ![r] = [pc |-> "start", obj |-> tasks[i], id |-> i]]
  /\ used' = used + 1
  /\ UNCHANGED <<prompt, phase, now, taskVars, storeVars, mu, editing, fired, twice>>

(* executeTask: mark the task, publish, record the outcome, and in the     *)
(* deferred function clear the mark.                                       *)
MarkRunning(r) ==
  /\ runs[r].pc = "start" /\ mu = Nobody
  /\ running' = [running EXCEPT ![runs[r].obj] = TRUE]
  /\ runs' = [runs EXCEPT ![r].pc = "publish"]
  /\ UNCHANGED <<prompt, phase, now, tasks, config, nextRun, lastRun, storeVars,
                 mu, editing, histVars>>

(* PublishInbound returns, in the end with the context's error; a failed   *)
(* run is recorded all the same.                                           *)
Publish(r) ==
  /\ runs[r].pc = "publish"
  /\ runs' = [runs EXCEPT ![r].pc = "record"]
  /\ UNCHANGED <<prompt, phase, now, taskVars, storeVars, mu, editing, histVars>>

(* updateTaskState: the entry, made if there is none, even for a task      *)
(* removed by now.                                                         *)
UpdateTaskState(r) ==
  /\ runs[r].pc = "record" /\ mu = Nobody
  /\ states' = [states EXCEPT ![runs[r].id] = IF @ = None THEN 1 ELSE @ + 1]
  /\ mu' = r
  /\ runs' = [runs EXCEPT ![r].pc = "save"]
  /\ UNCHANGED <<prompt, phase, now, taskVars, disk, editing, histVars>>

(* Mutant: only the one entry is written.                                  *)
MergedAlone(i) == [j \in Ids |-> IF j = i THEN states[i] ELSE None]

(* store.Save: read the file, put the entry in, write the file.  A file    *)
(* that cannot be decoded stays as it is.                                  *)
Merged(i) == [disk EXCEPT ![i] = states[i]]

SaveState(r) ==
  /\ runs[r].pc = "save"
  /\ disk' = IF disk = Torn THEN Torn ELSE Merged(runs[r].id)
  /\ mu' = Nobody
  /\ runs' = [runs EXCEPT ![r].pc = "finish"]
  /\ UNCHANGED <<prompt, phase, now, taskVars, states, editing, histVars>>

(* Mutant: the goroutine ends without clearing the mark.                   *)
FinishKeepsMark(r) ==
  /\ runs[r].pc = "finish" /\ mu = Nobody
  /\ runs' = [runs EXCEPT ![r] = Free]
  /\ UNCHANGED <<prompt, phase, now, taskVars, storeVars, mu, editing, histVars>>

Finish(r) ==
  /\ runs[r].pc = "finish" /\ mu = Nobody
  /\ LET o == runs[r].obj IN
       /\ running' = [running EXCEPT ![o] = FALSE]
       /\ lastRun' = [lastRun EXCEPT ![o] = now]
       /\ nextRun' = [nextRun EXCEPT ![o] = NextTime(config[o].cron, now)]
  /\ runs' = [runs EXCEPT ![r] = Free]
  /\ UNCHANGED <<prompt, phase, now, tasks, config, storeVars, mu, editing, histVars>>

-----------------------------------------------------------------------------
(* The handlers.  Each of them may meet any state of the executions.       *)
AddTask(i, c) ==
  /\ used < MaxOps /\ tasks[i] = Nobody /\ mu = Nobody
  /\ \E o \in Fresh :
       /\ tasks' = [tasks EXCEPT ![i] = o]
       /\ config' = [config EXCEPT ![o] = c]
       /\ nextRun' = [nextRun EXCEPT ![o] = NextTime(c.cron, now)]
       /\ lastRun' = [lastRun EXCEPT ![o] = 0]
       /\ running' = [running EXCEPT ![o] = FALSE]
  /\ used' = used + 1
  /\ UNCHANGED <<prompt, phase, now, storeVars, mu, runs, editing, fired, twice>>

(* RemoveTask leaves the file alone.                                       *)
RemoveTask(i) ==
  /\ used < MaxOps /\ tasks[i] # Nobody /\ mu = Nobody
  /\ tasks' = [tasks EXCEPT ![i] = Nobody]
  /\ states' = [states EXCEPT ![i] = None]
  /\ used' = used + 1
  /\ UNCHANGED <<prompt, phase, now, config, nextRun, lastRun, running, disk, mu,
                 runs, editing, fired, twice>>

(* HandleTaskUpdate writes into the configuration ListTasks gave it, ...   *)
EditConfig(i, cron) ==
  /\ used < MaxOps /\ editing = None /\ tasks[i] # Nobody /\ mu = Nobody
  /\ editing' = [id |-> i, obj |-> tasks[i]]
  /\ config' = [config EXCEPT ![tasks[i]].cron = cron]
  /\ used' = used + 1
  /\ UNCHANGED <<prompt, phase, now, tasks, nextRun, lastRun, running, storeVars,
                 mu, runs, fired, twice>>

(* ... and UpdateTask then gives it to the task that has the id by now.    *)
UpdateTask ==
  /\ editing # None /\ mu = Nobody
  /\ LET o == tasks[editing.id]  c == config[editing.obj] IN
       IF o = Nobody THEN UNCHANGED <<config, nextRun>>
       ELSE /\ config' = [config EXCEPT ![o] = c]
            /\ nextRun' = [nextRun EXCEPT ![o] = NextTime(c.cron, Base(lastRun[o]))]
  /\ editing' = None
  /\ UNCHANGED <<prompt, phase, now, tasks, lastRun, running, storeVars, mu, runs, histVars>>

-----------------------------------------------------------------------------
(* Stop cancels the context, waits for the loop and writes the whole file  *)
(* without s.mu; executions go on meanwhile.                               *)
Stop ==
  /\ phase = "up"
  /\ phase' = "cancelled"
  /\ UNCHANGED <<prompt, now, taskVars, storeVars, mu, runs, editing, histVars>>

SaveAll ==
  /\ phase = "cancelled"
  /\ disk' = states
  /\ phase' = "stopped"
  /\ UNCHANGED <<prompt, now, taskVars, states, mu, runs, editing, histVars>>

(* The process ends, of its own or not, and starts again.  os.WriteFile    *)
(* empties the file before it writes: a crash in it leaves a torn file.    *)
Restart ==
  /\ used < MaxOps
  /\ used' = used + 1
  /\ \E file \in {disk} \cup (IF At("save") # {} \/ phase = "cancelled" THEN {Torn} ELSE {}) :
       /\ disk' = file
       /\ states' = IF file = Torn THEN [i \in Ids |-> None] ELSE file
  /\ phase' = "up"
  /\ tasks' = Booted /\ nextRun' = FirstRun
  /\ config' = [o \in Objs |-> [cron |-> First, enabled |-> TRUE]]
  /\ lastRun' = [o \in Objs |-> 0] /\ running' = [o \in Objs |-> FALSE]
  /\ mu' = Nobody /\ runs' = [r \in Runs |-> Free] /\ editing' = None
  /\ UNCHANGED <<prompt, now, fired, twice>>

Advance ==
  /\ now < MaxTime /\ now' = now + 1
  /\ UNCHANGED <<prompt, phase, taskVars, storeVars, mu, runs, editing, histVars>>

Execute(r) == \/ MarkRunning(r) \/ Publish(r) \/ UpdateTaskState(r)
              \/ SaveState(r) \/ Finish(r)

Next ==
  \/ Tick \/ UpdateTask \/ Stop \/ SaveAll \/ Restart \/ Advance
  \/ \E r \in Runs : Execute(r)
  \/ \E i \in Ids : TriggerTask(i) \/ RemoveTask(i)
  \/ \E i \in Ids, c \in Config : AddTask(i, c)
  \/ \E i \in Ids, cron \in Schedules : EditConfig(i, cron)

Spec == Init /\ [][Next]_vars

(* The ticker keeps ticking and goroutines keep running; publishing ends   *)
(* because the agent manager consumes or the context is cancelled.  Ticks  *)
(* are strongly fair: waiting for a free goroutine is only the bound on    *)
(* Runs.                                                                   *)
Fairness == SF_vars(Tick) /\ \A r \in Runs : SF_vars(Execute(r))
FairSpec == Spec /\ Fairness

-----------------------------------------------------------------------------
TasksOK ==
  /\ tasks \in [Ids -> Objs \cup {Nobody}] /\ config \in [Objs -> Config]
  /\ nextRun \in [Objs -> Times] /\ lastRun \in [Objs -> Times]
  /\ running \in [Objs -> BOOLEAN]
  /\ \A i, j \in Ids : tasks[i] = tasks[j] /\ tasks[i] # Nobody => i = j
StoreOK == /\ states \in [Ids -> Nat \cup {None}]
           /\ disk \in [Ids -> Nat \cup {None}] \cup {Torn}
RunOK ==
  /\ runs \in [Runs -> [pc : {"free", "start", "publish", "record", "save", "finish"},
                        obj : Objs \cup {Nobody}, id : Ids \cup {None}]]
  /\ \A r \in Runs : runs[r].pc # "free" => runs[r].obj \in Objs /\ runs[r].id \in Ids
  /\ editing \in [id : Ids, obj : Objs] \cup {None}
MarksOK ==
  /\ mu \in Runs \cup {Nobody} /\ \A r \in Runs : mu = r <=> runs[r].pc = "save"
  /\ \A o \in Objs : running[o] =>
       \E r \in Runs : runs[r].obj = o /\ runs[r].pc \in {"publish", "record", "save", "finish"}
ClockOK == /\ prompt \in Prompts /\ phase \in {"up", "cancelled", "stopped"} /\ now \in Times
           /\ fired \in [Ids -> SUBSET Times] /\ twice \subseteq Ids

(* Shapes; two ids never share an object, s.mu is held exactly while a     *)
(* state is written, and a task marked running has a goroutine that will   *)
(* clear the mark.                                                         *)
TypeOK == TasksOK /\ StoreOK /\ RunOK /\ MarksOK /\ ClockOK

(* The ticker starts a task at most once for each minute of its schedule:  *)
(* with manual triggers in between, updates while it runs, removal and     *)
(* re-creation under the same id, and after a restart.  All it takes is    *)
(* that the goroutine marks the task before the next tick.                 *)
OncePerMinute == prompt => twice = {}

(* Once the file is written it holds the latest state of every task,       *)
(* whichever executions, removals and restarts came in between, and after  *)
(* Stop, which writes without the lock: a torn file is the only way to     *)
(* lose one.                                                               *)
FileIsCurrent ==
  disk # Torn /\ mu = Nobody =>
    \A i \in Ids : states[i] # None => disk[i] = states[i]

Overdue(i) ==
  /\ tasks[i] # Nobody /\ config[tasks[i]].enabled
  /\ nextRun[tasks[i]] # 0 /\ nextRun[tasks[i]] < now

(* A task whose time has passed is executed in the end (or removed or      *)
(* rescheduled, or the scheduler stops): no run, failed or overtaken by    *)
(* another of the same task, leaves it marked running for ever.            *)
DueRuns == \A i \in Ids : Overdue(i) ~> ~Overdue(i) \/ phase # "up"
=============================================================================
