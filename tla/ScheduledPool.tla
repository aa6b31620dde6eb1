--------------------------- MODULE ScheduledPool ----------------------------
(***************************************************************************)
(* brl.threadpool's TScheduledThreadPoolExecutor: schedule(), the list of  *)
(* TScheduledTasks, the scheduler thread and shutdown()                    *)
(* (threadpool.mod/threadpool.bmx).  The pool underneath is Executor: the  *)
(* scheduler hands it a job for every run of a task.                       *)
(*                                                                         *)
(* taskMutex is held from one action of the scheduler to the next while    *)
(* its position is in Locked; the condvar lets go of it.  The clock may    *)
(* advance between any two actions, also while the mutex is held.          *)
(***************************************************************************)
EXTENDS Integers, Sequences

CONSTANTS
  Tasks,       \* the tasks that schedule() is called with, each once
  Delays,      \* the delays it is called with, in clock ticks
  Period,      \* each task's period; 0 for a one-shot task
  Callers,     \* the threads that call schedule()
  NoTask,      \* no call in progress
  MaxTime      \* bound: the clock stops here

ASSUME SchedulerAssumption ==
  /\ MaxTime \in Nat
  /\ Delays \subseteq Nat
  /\ Period \in [Tasks -> Nat]
  /\ NoTask \notin [task : Tasks, executeAt : Nat]

VARIABLES
  clock,       \* CurrentUnixTime()
  isShutdown,
  tasks,       \* the linked list of scheduled tasks, as a sequence
  spc, now,    \* the scheduler thread's position and its local `now`
  until,       \* when its timed wait gives up
  wakeFor,     \* history: the due time that wait was computed from
  call,        \* each caller's new task between its two steps, or NoTask
  ran,         \* history: the times at which each task was handed to the pool
  pending, running, finished, phase, promised    \* the pool: see Executor

scheduler == <<spc, now, until, wakeFor>>
pool      == <<pending, running, finished, phase, promised>>
vars      == <<clock, isShutdown, tasks, scheduler, call, ran, pool>>

\* The n-th run of a task is a job of its own for the pool.  A recurring task
\* runs at most once per tick, so the clock's bound bounds the runs.
Runs == Tasks \X (1 .. MaxTime + 1)

Pool == INSTANCE Executor WITH Jobs <- Runs

TaskSet == [task : Tasks, executeAt : Nat]
Listed  == {tasks[i].task : i \in DOMAIN tasks}
InCall  == {call[c].task : c \in {d \in Callers : call[d] # NoTask}}

Locked      == {"sleep", "reread", "due", "requeue"}
SchedulerPC == {"lock", "idle", "timed", "relock", "ended"} \cup Locked

-----------------------------------------------------------------------------
Init ==
  /\ clock = 0
  /\ isShutdown = FALSE
  /\ tasks = <<>>
  /\ spc = "lock"
  /\ now = 0
  /\ until = 0
  /\ wakeFor = 0
  /\ call = [c \in Callers |-> NoTask]
  /\ ran = [t \in Tasks |-> <<>>]
  /\ Pool!Init

\* Bounded by MaxTime.
Tick ==
  /\ clock < MaxTime
  /\ clock' = clock + 1
  /\ UNCHANGED <<isShutdown, tasks, scheduler, call, ran, pool>>

-----------------------------------------------------------------------------
(* insertTask                                                              *)

HeadChanges(new, s) == s = <<>> \/ new.executeAt < Head(s).executeAt

\* The place after which the search through a list stops: the first one whose
\* successor is not due earlier.
Place(new, s) ==
  CHOOSE k \in DOMAIN s :
    /\ k = Len(s) \/ s[k + 1].executeAt >= new.executeAt
    /\ \A i \in 1 .. k - 1 : s[i + 1].executeAt < new.executeAt

Inserted(new, s) ==
  IF HeadChanges(new, s)
  THEN <<new>> \o s
  ELSE SubSeq(s, 1, Place(new, s)) \o <<new>> \o SubSeq(s, Place(new, s) + 1, Len(s))

\* taskCond.Signal(): the scheduler is the only thread that ever waits on it.
Signalled == CASE spc = "idle" -> "lock" [] spc = "timed" -> "relock" [] OTHER -> spc

-----------------------------------------------------------------------------
(* schedule()                                                              *)

\* The due time is computed before taskMutex is taken.  isShutdown is not
\* looked at: schedule() takes tasks after shutdown().  Bound: due times within the
\* clock's.
Schedule(c, t) ==
  /\ call[c] = NoTask
  /\ t \notin Listed \cup InCall /\ ran[t] = <<>>
  /\ \E delay \in Delays :
       /\ clock + delay <= MaxTime
       /\ call' = [call EXCEPT ![c] = [task |-> t, executeAt |-> clock + delay]]
  /\ UNCHANGED <<clock, isShutdown, tasks, scheduler, ran, pool>>

\* Slips in the code, each substituted for the definition it is named after to
\* show that a property notices it: no signal for a new first task; a signal
\* only for a list that was empty.
InsertTask_silent(c) ==
  /\ call[c] # NoTask
  /\ spc \notin Locked
  /\ tasks' = Inserted(call[c], tasks)
  /\ call' = [call EXCEPT ![c] = NoTask]
  /\ UNCHANGED <<clock, isShutdown, scheduler, ran, pool>>

InsertTask_empty(c) ==
  /\ call[c] # NoTask
  /\ spc \notin Locked
  /\ tasks' = Inserted(call[c], tasks)
  /\ spc' = IF tasks = <<>> THEN Signalled ELSE spc
  /\ call' = [call EXCEPT ![c] = NoTask]
  /\ UNCHANGED <<clock, isShutdown, now, until, wakeFor, ran, pool>>

\* Under taskMutex.
InsertTask(c) ==
  /\ call[c] # NoTask
  /\ spc \notin Locked
  /\ tasks' = Inserted(call[c], tasks)
  /\ spc' = IF HeadChanges(call[c], tasks) THEN Signalled ELSE spc
  /\ call' = [call EXCEPT ![c] = NoTask]
  /\ UNCHANGED <<clock, isShutdown, now, until, wakeFor, ran, pool>>

-----------------------------------------------------------------------------
(* taskScheduler                                                           *)

\* taskMutex.Lock(), then While Not exec.tasks: isShutdown is read between two
\* waits, and only a thread that finds the list empty ends.
CheckTasks ==
  /\ spc = "lock"
  /\ \/ /\ tasks = <<>>
        /\ spc' = IF isShutdown THEN "ended" ELSE "idle"
        /\ now' = now
     \/ /\ tasks # <<>>
        /\ spc' = IF clock < Head(tasks).executeAt THEN "sleep" ELSE "reread"
        /\ now' = clock
  /\ UNCHANGED <<clock, isShutdown, tasks, until, wakeFor, call, ran, pool>>

\* taskCond.TimedWait(taskMutex, Int(exec.tasks.executeAt - now)); the timeout
\* starts counting here.
SleepUntilDue ==
  /\ spc = "sleep"
  /\ spc' = "timed"
  /\ until' = clock + (Head(tasks).executeAt - now)
  /\ wakeFor' = Head(tasks).executeAt
  /\ UNCHANGED <<clock, isShutdown, tasks, now, call, ran, pool>>

\* Bound: a wait that would outlast the clock ends when the clock stops.
TimeOut ==
  /\ spc = "timed"
  /\ clock >= until \/ clock = MaxTime
  /\ spc' = "relock"
  /\ UNCHANGED <<clock, isShutdown, tasks, now, until, wakeFor, call, ran, pool>>

\* The condvar may wake a waiter without a signal.
SpuriousWakeup ==
  /\ spc \in {"idle", "timed"}
  /\ spc' = Signalled
  /\ UNCHANGED <<clock, isShutdown, tasks, now, until, wakeFor, call, ran, pool>>

\* The second now = CurrentUnixTime(), with taskMutex held again.
ReadClock ==
  /\ spc \in {"relock", "reread"}
  /\ spc' = "due"
  /\ now' = clock
  /\ UNCHANGED <<clock, isShutdown, tasks, until, wakeFor, call, ran, pool>>

FirstIsDue == tasks # <<>> /\ Head(tasks).executeAt <= now

\* exec.doExecute(task.command) for the first task, if it is due.
Dispatch ==
  /\ spc = "due"
  /\ FirstIsDue
  /\ spc' = "requeue"
  /\ LET t == Head(tasks).task IN
       /\ Pool!Accept(<<t, Len(ran[t]) + 1>>)
       /\ ran' = [ran EXCEPT ![t] = Append(@, now)]
  /\ UNCHANGED <<clock, isShutdown, tasks, now, until, wakeFor, call>>

\* Slips, as above: the next run is counted from when this one was due; a task
\* is put back at the front; a task is put back also while shutting down.
Requeue_drift ==
  /\ spc = "requeue"
  /\ spc' = "due"
  /\ LET task == Head(tasks)
         again == [task EXCEPT !.executeAt = @ + Period[task.task]]
     IN  tasks' = IF Period[task.task] # 0 /\ ~isShutdown
                  THEN Inserted(again, Tail(tasks)) ELSE Tail(tasks)
  /\ UNCHANGED <<clock, isShutdown, now, until, wakeFor, call, ran, pool>>

Requeue_front ==
  /\ spc = "requeue"
  /\ spc' = "due"
  /\ LET task == Head(tasks)
         again == [task EXCEPT !.executeAt = now + Period[task.task]]
     IN  tasks' = IF Period[task.task] # 0 /\ ~isShutdown
                  THEN <<again>> \o Tail(tasks) ELSE Tail(tasks)
  /\ UNCHANGED <<clock, isShutdown, now, until, wakeFor, call, ran, pool>>

Requeue_always ==
  /\ spc = "requeue"
  /\ spc' = "due"
  /\ LET task == Head(tasks)
         again == [task EXCEPT !.executeAt = now + Period[task.task]]
     IN  tasks' = IF Period[task.task] # 0
                  THEN Inserted(again, Tail(tasks)) ELSE Tail(tasks)
  /\ UNCHANGED <<clock, isShutdown, now, until, wakeFor, call, ran, pool>>

\* A recurring task goes back into the list with a new due time, unless the
\* executor is shutting down; any other task leaves it.
Requeue ==
  /\ spc = "requeue"
  /\ spc' = "due"
  /\ LET task == Head(tasks)
         again == [task EXCEPT !.executeAt = now + Period[task.task]]
     IN  tasks' = IF Period[task.task] # 0 /\ ~isShutdown
                  THEN Inserted(again, Tail(tasks)) ELSE Tail(tasks)
  /\ UNCHANGED <<clock, isShutdown, now, until, wakeFor, call, ran, pool>>

\* No task is due: taskMutex.Unlock() and once more round the loop.
NothingDue ==
  /\ spc = "due"
  /\ ~FirstIsDue
  /\ spc' = "lock"
  /\ UNCHANGED <<clock, isShutdown, tasks, now, until, wakeFor, call, ran, pool>>

SchedulerStep ==
  \/ CheckTasks \/ SleepUntilDue \/ TimeOut \/ ReadClock
  \/ Dispatch \/ Requeue \/ NothingDue

-----------------------------------------------------------------------------
(* shutdown() and the pool                                                 *)

\* isShutdown = True; nobody is signalled.
Shutdown ==
  /\ ~isShutdown
  /\ isShutdown' = TRUE
  /\ UNCHANGED <<clock, tasks, scheduler, call, ran, pool>>

\* schedulerThread.Wait() has returned; Super.shutdown() begins.
CloseJoins ==
  /\ isShutdown
  /\ spc = "ended"
  /\ Pool!Close
  /\ UNCHANGED <<clock, isShutdown, tasks, scheduler, call, ran>>

PoolStep ==
  /\ Pool!Start \/ Pool!Return \/ \E r \in running : Pool!Finish(r)
  /\ UNCHANGED <<clock, isShutdown, tasks, scheduler, call, ran>>

-----------------------------------------------------------------------------
\* Nothing is left that could happen within MaxTime.
Quiet ==
  /\ clock = MaxTime
  /\ spc \in {"idle", "ended"}
  /\ UNCHANGED vars

Next ==
  \/ Tick
  \/ \E c \in Callers : InsertTask(c) \/ \E t \in Tasks : Schedule(c, t)
  \/ SchedulerStep \/ SpuriousWakeup
  \/ Shutdown \/ CloseJoins \/ PoolStep
  \/ Quiet

\* Time passes, the threads are scheduled, calls in progress are completed, and
\* the pool keeps the promise of Executor; nobody is obliged to call anything.
Fairness ==
  /\ WF_vars(Tick)
  /\ WF_vars(SchedulerStep)
  /\ \A c \in Callers : WF_vars(InsertTask(c))
  /\ WF_vars(CloseJoins)
  /\ Pool!Fairness

SafeSpec == Init /\ [][Next]_vars
Spec     == SafeSpec /\ Fairness

-----------------------------------------------------------------------------
(* Properties                                                              *)

\* The variables have their types, and the scheduler is past its wait only with
\* a task in the list.
TypeOK ==
  /\ clock \in 0 .. MaxTime /\ isShutdown \in BOOLEAN
  /\ tasks \in Seq(TaskSet)
  /\ spc \in SchedulerPC
  /\ now \in Nat /\ until \in Nat /\ wakeFor \in Nat
  /\ call \in [Callers -> TaskSet \cup {NoTask}]
  /\ ran \in [Tasks -> Seq(Nat)]
  /\ spc \in {"sleep", "reread", "requeue"} => tasks # <<>>
  /\ Pool!TypeOK

\* The list is in the order of the due times, whatever is inserted and put
\* back; the scheduler looks at its first task only.
TasksSorted ==
  \A i, k \in DOMAIN tasks : i < k => tasks[i].executeAt <= tasks[k].executeAt

\* The scheduler never sleeps through a task: without a timeout it sleeps only
\* while the list is empty, and otherwise its timeout was computed from the task
\* that is first now.  A task that becomes the first has to wake it.
NeverOversleeps ==
  /\ spc = "idle" => tasks = <<>>
  /\ spc = "timed" => tasks # <<>> /\ wakeFor = Head(tasks).executeAt

\* A one-shot task runs at most once, and two runs of a recurring task are at
\* least its period apart, however late the scheduler is.
RunsSpaced ==
  \A t \in Tasks : \A n \in 2 .. Len(ran[t]) :
    Period[t] # 0 /\ ran[t][n] - ran[t][n - 1] >= Period[t]

\* Every task that gets into the list while the scheduler lives is run, also
\* when shutdown() is called.
TasksRun == \A t \in Tasks : t \in Listed /\ spc # "ended" ~> <<t, 1>> \in finished

\* shutdown() returns if the scheduler is awake or has a task to wake up for
\* (that is due while the clock runs).
ShutdownReturns ==
  isShutdown /\ spc # "idle" /\ (\A i \in DOMAIN tasks : tasks[i].executeAt <= MaxTime)
    ~> phase = "closed"

\* "Initiates an orderly shutdown": shutdown() gets as far as shutting the pool
\* down, when all tasks are due while the clock runs.
ShutdownProceeds ==
  isShutdown /\ (\A i \in DOMAIN tasks : tasks[i].executeAt <= MaxTime) ~> phase # "open"
=============================================================================
