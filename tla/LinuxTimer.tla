------------------------------ MODULE LinuxTimer ------------------------------
(***************************************************************************)
(* Timers and asynchronous operations on Linux:                            *)
(*   timerdefault.mod/timer.linux.c      the thread of a timer, timerSyncOp *)
(*   timerdefault.mod/timerdefault.bmx   TDefaultTimer                     *)
(*   systemdefault.mod/system.linux.c    the list of operations and a pipe *)
(* A timer's thread posts an operation for each tick and one more when it  *)
(* ends; the main thread runs them when it polls.  An operation makes the  *)
(* timer fire, which runs hook functions of the program, which may stop    *)
(* timers and poll again: the operations posted since are then run before  *)
(* those that the interrupted poll has still in hand.                      *)
(*                                                                         *)
(* An operation is named after its timer or, for bbSystemStartAsyncOp,     *)
(* after the job that its thread has done.                                 *)
(***************************************************************************)
EXTENDS Naturals, Sequences, FiniteSets, Functions

CONSTANTS
  Timers,
  Jobs,        \* calls of bbSystemStartAsyncOp, each on an object of its own
  None,        \* the owner of a free mutex; no timer
  PipeSize,    \* the bytes that fit into async_pipe
  MaxTicks,    \* bound: so many ticks of each timer, a function
  MaxDepth     \* bound: so many polls inside each other

Posters == Timers \union Jobs

ASSUME TimerAssumption ==
  /\ Timers \intersect Jobs = {}
  /\ None \notin Posters
  /\ PipeSize \in Nat \ {0} /\ MaxTicks \in [Timers -> Nat] /\ MaxDepth \in Nat \ {0}

VARIABLES
  status,      \* timer->status: 1 runs, 2 stopped; 0 before bbTimerStart
  puts,        \* timer->puts
  gets,        \* timer->gets
  freed,       \* the timers freed
  handle,      \* the TDefaultTimers whose _handle is set
  ticks,       \* TDefaultTimer._ticks
  retained,    \* the objects the runtime holds on to (BBRETAIN, BBRELEASE)
  pc,          \* each posting thread
  asyncOps,    \* the list of operations
  pipe,        \* the bytes in async_pipe
  asyncMutex,  \* its owner
  polls,       \* the polls the main thread is in, innermost first: what each has in hand
  main,        \* the main thread: "program", "poll", "lock" or "ops"
  waiting,     \* the timer for which the main thread is in TDefaultTimer.Wait
  wticks,      \* TDefaultTimer._wticks
  ended        \* history: the jobs whose operation has run

timer == <<status, puts, gets, freed, handle, ticks>>
async == <<asyncOps, pipe, asyncMutex>>
wait == <<waiting, wticks>>
timerVars == <<timer, retained, pc, async, polls, main, wait, ended>>

Goto(t, l) == pc' = [pc EXCEPT ![t] = l]

TimerInit ==
  /\ status = [t \in Timers |-> 0]
  /\ puts = [t \in Timers |-> 0]
  /\ gets = [t \in Timers |-> 0]
  /\ freed = {}
  /\ handle = {}
  /\ ticks = [t \in Timers |-> 0]
  /\ retained = {}
  /\ pc = [t \in Posters |-> "none"]
  /\ asyncOps = <<>>
  /\ pipe = 0
  /\ asyncMutex = None
  /\ polls = <<>>
  /\ main = "program"
  /\ waiting = None
  /\ wticks = [t \in Timers |-> 0]
  /\ ended = {}

-----------------------------------------------------------------------------
(* The program, on the main thread: outside of any poll, or in a hook      *)
(* function that a tick has called.                                        *)

\* In TDefaultTimer.Wait the program itself does not run, its hook functions do.
Running == main = "program" /\ (waiting = None \/ polls # <<>>)

\* Slip: no post is set aside for the end of the thread.
CreateTimer_zero(t) ==
  /\ Running
  /\ status[t] = 0
  /\ status' = [status EXCEPT ![t] = 1]
  /\ puts' = [puts EXCEPT ![t] = 0]
  /\ handle' = handle \union {t}
  /\ retained' = retained \union {t}
  /\ Goto(t, "test")
  /\ UNCHANGED <<gets, freed, ticks, async, polls, main, wait, ended>>

\* bbTimerStart; puts starts with the post for the end of the thread.
CreateTimer(t) ==
  /\ Running
  /\ status[t] = 0
  /\ status' = [status EXCEPT ![t] = 1]
  /\ puts' = [puts EXCEPT ![t] = 1]
  /\ handle' = handle \union {t}
  /\ retained' = retained \union {t}
  /\ Goto(t, "test")
  /\ UNCHANGED <<gets, freed, ticks, async, polls, main, wait, ended>>

\* Slip: the object is let go of at once.
Stop_releases(t) ==
  /\ Running
  /\ t \in handle
  /\ status' = [status EXCEPT ![t] = 2]
  /\ handle' = handle \ {t}
  /\ retained' = retained \ {t}
  /\ UNCHANGED <<puts, gets, freed, ticks, pc, async, polls, main, wait, ended>>

Stop(t) ==
  /\ Running
  /\ t \in handle
  /\ status' = [status EXCEPT ![t] = 2]
  /\ handle' = handle \ {t}
  /\ UNCHANGED <<puts, gets, freed, ticks, retained, pc, async, polls, main, wait, ended>>

StartAsyncOp(j) ==
  /\ Running
  /\ pc[j] = "none"
  /\ retained' = retained \union {j}
  /\ Goto(j, "post")
  /\ UNCHANGED <<timer, async, polls, main, wait, ended>>

\* PollSystem or WaitSystem; the loop of Wait polls again only if there was no tick.
Poll ==
  /\ main = "program"
  /\ waiting # None /\ polls = <<>> => ticks[waiting] = wticks[waiting]
  /\ Len(polls) < MaxDepth
  /\ main' = "poll"
  /\ UNCHANGED <<timer, retained, pc, async, polls, wait, ended>>

\* Slip: Wait does not look at whether it has counted ticks already.
WaitEnds_late ==
  /\ waiting # None
  /\ main = "program" /\ polls = <<>>
  /\ ticks[waiting] > wticks[waiting] + 1
  /\ wticks' = [wticks EXCEPT ![waiting] = ticks[waiting]]
  /\ waiting' = None
  /\ UNCHANGED <<timer, retained, pc, async, polls, main, ended>>

\* TDefaultTimer.Wait, called outside of hook functions.  It polls at least once.
\* Bound: the timer has a tick left that has not been posted.
Wait(t) ==
  /\ Running /\ polls = <<>>
  /\ t \in handle
  /\ puts[t] <= MaxTicks[t]
  /\ waiting' = t
  /\ main' = "poll"
  /\ UNCHANGED <<timer, retained, pc, async, polls, wticks, ended>>

WaitEnds ==
  /\ waiting # None
  /\ main = "program" /\ polls = <<>>
  /\ ticks[waiting] # wticks[waiting]
  /\ wticks' = [wticks EXCEPT ![waiting] = ticks[waiting]]
  /\ waiting' = None
  /\ UNCHANGED <<timer, retained, pc, async, polls, main, ended>>

-----------------------------------------------------------------------------
(* timerProc. *)

\* Bounded by MaxTicks: after so many, the timer waits here to be stopped.
TestStatus(t) ==
  /\ pc[t] = "test"
  /\ status[t] = 1 => puts[t] <= MaxTicks[t]
  /\ Goto(t, IF status[t] = 1 THEN "delay" ELSE "last")
  /\ UNCHANGED <<timer, retained, async, polls, main, wait, ended>>

DelayOver(t) ==
  /\ pc[t] = "delay"
  /\ puts' = [puts EXCEPT ![t] = @ + 1]
  /\ Goto(t, "post")
  /\ UNCHANGED <<status, gets, freed, handle, ticks, retained, async, polls, main, wait, ended>>

(* postAsyncOp, by the thread of a timer or of a job. *)

\* Slip: the operation replaces the list.
AppendOp_alone(t) ==
  /\ pc[t] \in {"post", "last"}
  /\ asyncMutex = None
  /\ asyncMutex' = t
  /\ asyncOps' = <<t>>
  /\ Goto(t, IF pc[t] = "post" /\ t \in Timers THEN "write" ELSE "writeLast")
  /\ UNCHANGED <<timer, retained, pipe, polls, main, wait, ended>>

AppendOp(t) ==
  /\ pc[t] \in {"post", "last"}
  /\ asyncMutex = None
  /\ asyncMutex' = t
  /\ asyncOps' = Append(asyncOps, t)
  /\ Goto(t, IF pc[t] = "post" /\ t \in Timers THEN "write" ELSE "writeLast")
  /\ UNCHANGED <<timer, retained, pipe, polls, main, wait, ended>>

\* Blocks, with the mutex, while the pipe is full.
WritePipe(t) ==
  /\ pc[t] \in {"write", "writeLast"}
  /\ pipe < PipeSize
  /\ pipe' = pipe + 1
  /\ asyncMutex' = None
  /\ Goto(t, IF pc[t] = "write" THEN "test" ELSE "ended")
  /\ UNCHANGED <<timer, retained, asyncOps, polls, main, wait, ended>>

-----------------------------------------------------------------------------
(* bbSystemFlushAsyncOps. *)

\* if( !asyncOps ) return, without the mutex: back to the program.
TestOps ==
  /\ main = "poll"
  /\ main' = IF asyncOps = <<>> THEN "program" ELSE "lock"
  /\ UNCHANGED <<timer, retained, pc, async, polls, wait, ended>>

\* Slip: the bytes of the operations stay in the pipe.
TakeOps_unread ==
  /\ main = "lock"
  /\ asyncMutex = None
  /\ polls' = <<asyncOps>> \o polls
  /\ asyncOps' = <<>>
  /\ main' = "ops"
  /\ UNCHANGED <<timer, retained, pc, asyncMutex, pipe, wait, ended>>

TakeOps ==
  /\ main = "lock"
  /\ asyncMutex = None
  /\ polls' = <<asyncOps>> \o polls
  /\ asyncOps' = <<>>
  /\ pipe' = 0
  /\ main' = "ops"
  /\ UNCHANGED <<timer, retained, pc, asyncMutex, wait, ended>>

InHand == Head(polls)
DropFirst == polls' = <<Tail(InHand)>> \o Tail(polls)

\* Slip: the timer is freed by the first operation that finds it stopped.
SyncOp_eager(t) ==
  /\ gets' = [gets EXCEPT ![t] = @ + 1]
  /\ IF status[t] = 2
     THEN freed' = freed \union {t} /\ retained' = retained \ {t}
     ELSE UNCHANGED <<freed, retained>>
  /\ IF status[t] = 1 /\ t \in handle
     THEN ticks' = [ticks EXCEPT ![t] = @ + 1] /\ main' = "program" /\ UNCHANGED polls
     ELSE DropFirst /\ UNCHANGED <<ticks, main>>

\* timerSyncOp, and TDefaultTimer.Fire, which calls the hook functions.
SyncOp(t) ==
  /\ gets' = [gets EXCEPT ![t] = @ + 1]
  /\ IF status[t] = 2 /\ puts[t] = gets[t] + 1
     THEN freed' = freed \union {t} /\ retained' = retained \ {t}
     ELSE UNCHANGED <<freed, retained>>
  /\ IF status[t] = 1 /\ t \in handle
     THEN ticks' = [ticks EXCEPT ![t] = @ + 1] /\ main' = "program" /\ UNCHANGED polls
     ELSE DropFirst /\ UNCHANGED <<ticks, main>>

RunTimerOp ==
  /\ main = "ops"
  /\ InHand # <<>>
  /\ Head(InHand) \in Timers
  /\ SyncOp(Head(InHand))
  /\ UNCHANGED <<status, puts, handle, pc, async, wait, ended>>

\* The syncOp of a job is a function of the program.
RunJobOp ==
  /\ main = "ops"
  /\ InHand # <<>>
  /\ Head(InHand) \in Jobs
  /\ main' = "program"
  /\ ended' = ended \union {Head(InHand)}
  /\ UNCHANGED <<timer, retained, pc, async, polls, wait>>

\* The operation, and the hook functions it called, are done: the next one.
OpReturns ==
  /\ main = "program"
  /\ polls # <<>>
  /\ retained' = IF Head(InHand) \in Jobs THEN retained \ {Head(InHand)} ELSE retained
  /\ DropFirst
  /\ main' = "ops"
  /\ UNCHANGED <<timer, pc, async, wait, ended>>

PollReturns ==
  /\ main = "ops"
  /\ InHand = <<>>
  /\ polls' = Tail(polls)
  /\ main' = "program"
  /\ UNCHANGED <<timer, retained, pc, async, wait, ended>>

-----------------------------------------------------------------------------
Program ==
  \/ \E t \in Timers : CreateTimer(t) \/ Stop(t) \/ Wait(t)
  \/ \E j \in Jobs : StartAsyncOp(j)
  \/ Poll \/ WaitEnds
Flush == TestOps \/ TakeOps \/ RunTimerOp \/ RunJobOp \/ PollReturns
Thread(t) ==
  \/ t \in Timers /\ (TestStatus(t) \/ DelayOver(t))
  \/ AppendOp(t) \/ WritePipe(t)

TimerNext == Program \/ OpReturns \/ Flush \/ \E t \in Posters : Thread(t)

\* The program comes back to polling outside of its hook functions, the hook
\* functions return, and the threads run; nothing says that a timer is ever stopped.
TimerFairness ==
  /\ WF_timerVars(Poll /\ polls = <<>>) /\ WF_timerVars(WaitEnds)
  /\ SF_timerVars(OpReturns) /\ WF_timerVars(Flush)
  /\ \A t \in Posters : WF_timerVars(Thread(t))

TimerSafeSpec == TimerInit /\ [][TimerNext]_timerVars
TimerSpec == TimerSafeSpec /\ TimerFairness

-----------------------------------------------------------------------------
\* The first operation in hand is being run, but for a poll that is about to run it.
ToRun(i) == IF i = 1 /\ main = "ops" THEN polls[i] ELSE Tail(polls[i])
InHands == UNION {Range(ToRun(i)) : i \in DOMAIN polls}
BeingRun == {Head(polls[i]) : i \in {k \in DOMAIN polls : ToRun(k) # polls[k]}}

Types ==
  /\ status \in [Timers -> 0 .. 2]
  /\ puts \in [Timers -> Nat]
  /\ gets \in [Timers -> Nat]
  /\ freed \subseteq Timers
  /\ handle \subseteq Timers
  /\ ticks \in [Timers -> Nat]
  /\ retained \subseteq Posters
  /\ pc \in [Posters -> {"none", "test", "delay", "post", "write", "last", "writeLast", "ended"}]
  /\ asyncOps \in Seq(Posters)
  /\ pipe \in 0 .. PipeSize
  /\ asyncMutex \in Posters \union {None}
  /\ polls \in Seq(Seq(Posters))
  /\ main \in {"program", "poll", "lock", "ops"}
  /\ waiting \in Timers \union {None}
  /\ wticks \in [Timers -> Nat]
  /\ ended \subseteq Jobs

(***************************************************************************)
(* The variables have their types; no operation is run more often than it  *)
(* is posted, no tick is waited for twice; and a poll that is interrupted  *)
(* is at an operation.                                                     *)
(***************************************************************************)
TimerTypeOK ==
  /\ Types
  /\ \A t \in Timers : gets[t] <= puts[t] /\ wticks[t] <= ticks[t]
  /\ \A i \in DOMAIN polls : ToRun(i) # polls[i] => polls[i] # <<>>

(***************************************************************************)
(* A timer is freed only when its thread has done with it and no operation *)
(* is left that would look at it, in whatever order nested polls run them. *)
(* One that a hook function of the timer interrupts may be: after Fire()   *)
(* timerSyncOp does not touch the timer again.                             *)
(***************************************************************************)
FreedLast ==
  \A t \in freed : pc[t] = "ended" /\ t \notin Range(asyncOps) \union InHands

(***************************************************************************)
(* The runtime holds on to a TTimer until the timer is freed, and to the   *)
(* object of an asynchronous operation until that has run.                 *)
(***************************************************************************)
HeldWhileNeeded ==
  /\ \A t \in Timers : (t \in retained) = (status[t] # 0 /\ t \notin freed)
  /\ \A j \in Jobs : pc[j] # "none" /\ j \notin ended => j \in retained
  /\ \A j \in Jobs \intersect retained : j \notin ended \/ j \in BeingRun

(***************************************************************************)
(* There is a byte in the pipe for every operation in the list: select in  *)
(* bbSystemWait wakes the main thread exactly when it has operations to    *)
(* run.                                                                    *)
(***************************************************************************)
PipeMatches == asyncMutex = None => pipe = Len(asyncOps)

(***************************************************************************)
(* A poster that finds the pipe full keeps the mutex, and the poll that    *)
(* would empty the pipe waits for the mutex: from there on nothing moves.  *)
(***************************************************************************)
Clogged == asyncMutex # None /\ pipe = PipeSize

(***************************************************************************)
(* As long as the program polls, and unless the pipe gets full: a timer    *)
(* that has been stopped is freed, however many ticks are still to be run; *)
(***************************************************************************)
StoppedFreed == \A t \in Timers : status[t] = 2 ~> (t \in freed \/ Clogged)

(***************************************************************************)
(* and TDefaultTimer.Wait returns after the next tick, also one that is    *)
(* run by a poll inside of a hook function, unless the timer is stopped.   *)
(***************************************************************************)
WaitReturns == \A t \in Timers : waiting = t ~> (waiting # t \/ t \notin handle \/ Clogged)
=============================================================================
