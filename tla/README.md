# brl.mod in TLA+

A verification development for the BRL modules of BlitzMax NG: TLA+ models of the
concurrent parts of the library, TLC configurations that check them on small
instances, and theorems that TLAPS proves for every instance.  Paths below are
relative to the repository.

* [The system](#the-system): inventory of components, their state and hazards
* [The models](#the-models): modules, and how they correspond to the code
* [The runs](#the-runs): what each checks, bounds, fairness
* [Findings](#findings): what the code does that its documentation does not say
* [The proofs](#the-proofs)
* [What is not modelled](#what-is-not-modelled)
* [Plan](#plan)

Run a model with `tlc -config <run>.cfg <module>`, check proofs with
`tlapm <module>.tla`.

## The system

brl.mod is the core library of the language: some hundred modules in BlitzMax with
the runtime in C (`blitz.mod`).  Most of it is sequential: strings, streams, file
formats, containers, drivers for graphics and audio.  What is hard to get right,
and what no test of the repository reaches, is the part where several threads, or
a callback and the code it interrupts, meet.

| Component | State | Operations | Interacts with | What is hard | Correct when |
|---|---|---|---|---|---|
| Thread pool executor, `threadpool.mod/threadpool.bmx` 1-290, 470-600 | flags `isShutdown`, `keepThreadsAlive`; counters `threadsAlive`, `threadsWorking`; the list of threads; the queue of jobs; a binary semaphore (flag and condvar) | `execute`, `shutdown`, the loop of the pooled threads, the counts | threads, mutexes, condvars; callers on any thread | a flag stands for any number of queued jobs; flags and the queue are read without locks; timeouts race posts; threads start late | counters exact; no wake-up lost; every accepted job run once; `shutdown()` returns, and only after the jobs submitted before it |
| Scheduled executor, same file 300-470 | list of tasks by due time, a condvar for the first of them, the scheduler thread | `schedule`, `shutdown`, the scheduler's loop | the pool underneath; the clock | a new first task must cut a sleep short; a recurring task goes back into the list that is being walked; shutdown against a sleeping scheduler | list in order; never sleeps through a task; runs at least a period apart; shutdown ends it |
| `TFuture`, `threads.mod/threads.bmx` 370-415 | value, ready, mutex, condvar | `GetResult`, `SetResult` | any threads | spurious wake-ups, several getters | only given results returned; everyone served |
| `TThreadEvent`, `threads.mod/threads.bmx` 415-500 | flag, mutex, condvar | `Set`, `Clear`, `Wait`, `Wait(timeout)` | any threads; the clock | broadcast, clear after set, a timeout that does not fit its type | nobody sleeps on a set event; `False` only after the timeout; a timed wait returns |
| Mutexes, semaphores, condvars, `threads.mod/threads.c` | the operating system's objects; on Windows a count of waiters and a semaphore | lock, wait, timed wait, signal, broadcast | everything above | the hand-made condvar on Windows: a count changed by compare-and-swap while waiters come and time out | wake-ups are neither lost nor made up; who is granted one gets it |
| Thread registry, `blitz.mod/blitz_thread.c` | lists of live and of ended threads, linked through the same field; `detached` flags; the lock that is taken only once a thread has been created | create, register, wait, detach, end | collector, every thread | end of a thread against wait and detach; start of the locking | lists exact; a block is freed once, after its thread has left the list and nobody needs it |
| Timers, `timerdefault.mod`, asynchronous operations of `systemdefault.mod` | a thread per timer; puts, gets and status; list of operations and a pipe | start, stop, fire, wait; post and flush | event queue, hooks | closing a timer whose thread is posting; a list read before it is locked; polls inside of polls | freed once, after the last use; what is posted is run; `Wait` returns |
| Event queue and hooks, `event.mod`, `eventqueue.mod`, `hook.mod` | a ring of 256 events with two counters; lists of hook functions by priority | emit, post, peek, poll, wait; add, remove, run hooks | timers, system drivers, user hooks | the full ring; merging into a queued event; hooks that change the list that runs them, or poll | first in first out; nothing lost but by overflow or merging; hooks that stay are called |
| GameNet, `gnet.mod/gnet.bmx` | objects with states and slots, peers, identifier maps per peer | create, write, close, message, sync, connect, close the host | ENet | identifiers used again; hosts that connect, break off or close while objects change; a server that hands on | maps exact; copies agree with what is under way; nobody keeps what is gone |
| Containers, `linkedlist.mod`, `map.mod` | doubly linked list; red-black tree | insert, remove, iterate | used by all of the above | rebalancing; use by several threads | a list or a sorted map |
| Runtime: handles, exceptions, retained objects, `blitz.mod` | trees and tables without locks; a stack of frames per thread | make, look up, release; throw, catch | generated code, collector | use by several threads | handles and objects are in bijection |
| Streams, files, text, graphics, images, fonts, audio, reflection, Lua | buffers, positions, driver state | | operating system, vendored libraries | input and output | see below |

`PROJECT.json` lists these components with their status, and the hazards of each
with the line at which they bite and the property that would notice.

## The models

| Module | Contents |
|---|---|
| `Executor` | what any executor promises its callers: abstract |
| `ThreadPool`, `MCThreadPool` | `TThreadPoolExecutor`, its threads, `TJobQueue` and `TBinarySemaphore`; implements `Executor` |
| `ScheduledPool`, `MCScheduledPool` | `TScheduledThreadPoolExecutor` on top of `Executor` |
| `Future` | `TFuture` |
| `ThreadEvent` | `TThreadEvent` |
| `CondVar` | what a condition variable of `brl.threads` promises: abstract |
| `WinCond` | the condition variable for Windows of `threads.c`; implements `CondVar` |
| `MCWaiting` | one run for the three things threads wait on: `ThreadEvent`, `Future`, `WinCond` |
| `ThreadRegistry`, `MCThreadRegistry` | the lists of threads of `blitz_thread.c`, link by link, and the lock that starts late |
| `LinuxTimer`, `MCLinuxTimer` | timers and asynchronous operations on Linux |
| `MCTimed` | one run for the two things that act at times of their own: `ScheduledPool`, `LinuxTimer` |
| `EventFifo` | what `brl.eventqueue` promises: abstract |
| `HookList` | a list of hook functions and the `RunHooks` that are under way |
| `EventQueue` | the ring of events |
| `EventSystem`, `MCEventSystem` | composes the two into emitting, posting and polling; implements `EventFifo` |
| `GameNet`, `MCGameNet` | the hosts of `brl.gnet` and the network between them |
| `ThreadPoolProofs`, `ScheduledPoolProofs`, `ThreadRegistryProofs`, `LinuxTimerProofs`, `EventSystemProofs`, `GameNetProofs` | theorems about the modules they are named after |
| `GameNetCopies` | theorems about what the hosts of `GameNet` know of each other, and about what has gone; builds on `GameNetProofs` |
| `WaitingProofs` | theorems about `ThreadEvent`, `Future` and `WinCond`, which `MCWaiting` puts side by side |

The MC modules hold what a configuration cannot say: functions as values of
constants, symmetry, bounds that are conditions on a state, and in `MCWaiting` and `MCTimed` the choice
between the three, or two, things that they put side by side.

Definitions whose name has an underscore (`Post_silent`, `Requeue_drift`, ...) are
plausible slips in the code: substituted for the definition before the underscore,
each makes TLC violate a property, which shows that the property depends on what
the code does there.  No specification uses them.

### Executor

Jobs are accepted, started in the order in which they were accepted, and finish.
Closing records what has been accepted so far as *promised*; the call of
`shutdown()` returns only when all of that has finished and nothing runs.  A job
accepted after the close may be run or left behind: `execute()` and `shutdown()`
are not synchronised, and this is as much as the code can promise.

### ThreadPool

One action is what a thread does between two points at which another thread can
see the difference: a critical section, a read of a shared variable without a
lock, a wait.

| Code | Model |
|---|---|
| `isShutdown`, `keepThreadsAlive`, `threadsAlive`, `threadsWorking` | the same names |
| `threads`, `thread.pool` | `threads`, `hasPool` (the threads whose field is not `Null`) |
| `jobQueue.jobs`; `TBinarySemaphore.value` | `jobs`; `value` |
| position of a pooled thread in `_processThread` and below | `wpc`, with the job it holds in `job` |
| position of a caller in `execute` | `cpc`, with the command in `call` |
| position in `shutdown` | `sdpc` |

The position `asleep` of a thread is inside `pthread_cond_wait`, `wait` is before
the test of `value`: a signal moves one sleeper from the first to the second, a
broadcast all, and a spurious wake-up any one at any time.  The idle timeout is an
action that is possible whenever a thread of a pool with idle timeouts sleeps; how
long it takes is left open, so every race with `Post` is there.  `jobQueue`'s mutex
is held over two actions (add or remove, then post) and the guard `~QueueLocked`
keeps others out meanwhile.  `promised` and `finished` are history variables.

A cached pool creates a thread when `threadsWorking = threadsAlive`; the model has
the positions `count`, `spawn` and `add`, because the code lets go of `countLock`
and of `threadsLock` in between.  The constructor of a fixed pool starts its
threads one after the other; the model starts with all of them created and none
running, from which the same behaviours follow since a created thread takes part in
nothing.

### ScheduledPool

The scheduler thread's loop is cut where it gives up `taskMutex`, reads the clock,
or calls the pool; `schedule()` computes its due time in one action and inserts in
another, with the clock running in between.  `insertTask` is a function on
sequences.  The pool is `Executor`, instantiated with a job for every run of a
task: this is the composition that the refinement of `ThreadPool` justifies.

Two things follow for reading its results.  Progress of the pool is `Executor`'s
fairness, which `ThreadPool` has only without idle timeouts (see Findings).  And
`doExecute` is one action, although for a cached pool it is several; nothing the
scheduler does in between is visible to others, because it holds `taskMutex`.

### Future and ThreadEvent

What a call does while it holds the lock is one action, up to the wait or the
return.  In `ThreadEvent` the clock stands still in these actions.  `Int(endTime -
now)` is cut down to `Width` bits, with the sign; a negative result is a wait that
is over at once, which is what both a `pthread_cond_timedwait` with a past time and
one that fails with `EINVAL` amount to.

### WinCond and CondVar

Every access to shared memory is an action: the interlocked increment of
`cond->waiters`, the release of the mutex, the wait on the semaphore, and on the side
of the signaller the read of the count, the compare-and-swap, and each post.  `pc` is the
position of a thread, `seen` its local copy of the count, `left` the posts it has
still to make.  Signal and Broadcast may be called with or without the mutex, by
any number of threads at once.

`CondVar` says what this amounts to.  A waiter is asleep from before it lets go of
the mutex; a call takes effect once between its beginning and its return, and grants
one wake-up or one for each sleeper; any sleeper may take a wake-up.  A wait that
times out stays counted, so it leaves a wake-up `spare`, which a later call may
grant to somebody who was not yet asleep then.

### ThreadRegistry

| Code | Model |
|---|---|
| `threads`, `deadThreads`, and `succ` of the blocks | `succ`, one function on these cells: a block's one link serves both lists |
| `detached`, `GC_FREE` | `detached`, `freed` (`twice` remembers a second free of a block) |
| `_bbNeedsLock`, `_bbLock` | `needsLock`, `lock` |
| position in `threadProc`, `addThread`, `removeThread` | `pc`; the locals `p` and `t` of the walks are `p` and `cur`, and `got` is a link that has been read and will be written elsewhere |
| `bbThreadCreate`, by the main thread or any other | `making`: what each caller has in hand; any number of callers at once |
| `bbThreadWait`, `bbThreadDetach` | `close` of each block: set `detached`, use the handle, join |

Every access to a link is a step of its own: `*p=t->succ`, for example, is `Unlink`,
which reads, and `Cut`, which writes.  So two threads inside at once interfere as in the
code, and one may write into a block that has moved to the other list meanwhile.  A
link or a mark read from a block that has been freed is anything.  `BB_LOCK` and
`BB_UNLOCK` each test the flag for themselves.  `overlapped` remembers that two threads
have been at the lists at once, and `first` the first thread that each caller has
created.  What a list holds is what its links lead to (`Leads`): the blocks that are in
every set that has the list's first block and the successor of each member.

### LinuxTimer

The timer's thread (`timerProc`) counts a post in `puts` and appends an operation to
`asyncOps` under `asyncMutex`, which it keeps while it writes a byte into the pipe.  The
main thread polls: it tests the list without the lock, takes it with the lock, empties
the pipe, and runs the operations one by one.  An operation makes the timer fire, and
then the program runs (`main = "program"` with `polls` not empty): it may start and stop
timers and poll again, so `polls` is a stack of what each poll has still in hand.
`retained` is what the runtime keeps from the collector.  How long a delay takes
is left open.

### HookList, EventQueue, EventSystem

`succ` holds the links of hooks, which a removed hook keeps.  `runs` is the stack of the
`RunHooks` under way, each with the hook it is at; `due` is history.  `EventQueue` has the
slots, the objects in them and both counters, which wrap at `2^Width`; an object that
the collector could have is put back to its initial value.  `EventSystem` has one main
thread: `calls` is the stack of `RunHooks` and `PollSystem` it is in, and the
program acts outside of all of them and in its hook functions.  While the system is
polled it may emit.  The queue's own hook posts what reaches it.

### GameNet

One action is a call by a host's program, the sending half of `GNetSync`, or the
handling of one event in it; hosts run concurrently.  Clients connect to one server,
which hands on what it learns.  Objects have a name in the model that the program does not
know; `objects`, `idMap` and the pairs in `mapped` are what the code keeps (`_objects`,
`_idMap`, `_localToRemote` with `_remoteToLocal`).  `net` holds what is under way on
each link, in order; when a connection ends, what is under way arrives or is lost, and
the event of the end comes behind it.  Assertions and exceptions of `GNetSync` put the
host's `phase` to the reason and end the behaviour.

## The runs

| Run | Instance | Checks |
|---|---|---|
| `PoolFixed` | fixed pool, 2 threads, 1 caller, 3 jobs, under fairness | `CountersExact`, `SleepersNotified`, `NoStrandedJob`, `JobsOnce`, `PromiseKept`, `ImplementsExecutor` |
| `PoolCached` | cached pool with idle timeouts, at most 3 threads, 2 callers, 3 jobs | `PromiseKept`, `ImplementsExecutorSafe` |
| `Timed` | a one-shot and a recurring task, 2 callers, 3 clock values; or 2 timers, a job, a pipe of 2 bytes, polls 3 deep; under fairness | `TasksSorted`, `NeverOversleeps`, `RunsSpaced`, `TasksRun`, `ShutdownReturns`; `TimerTypeOK`, `FreedLast`, `HeldWhileNeeded`, `PipeMatches`, `StoppedFreed`, `WaitReturns` |
| `Waiting` | an event with 2 waiters and timeouts 0, 2, 5; or a future with 3 getters and 2 results; or a Windows condvar with 3 threads and 2 time-outs; under fairness | `SetWakesAll`, `FalseIsLate`, `TimedWaitReturns`; `AloneIsServed`; `Conservation`, `ImplementsCondVar`, `SleepersWake` |
| `ThreadRegistry` | 2 created threads and one that registers itself, up to an overlap, under fairness | `OnlyFirstsUnlocked`, `ListsExact`, `FreedLate`, `GetsToRun` |
| `Events` | 3 hooks of two priorities, 3 events of two kinds, a ring of 2 with counters modulo 4, calls 2 deep | `Ordered`, `StayersCalled`, `RingExact`, `ImplementsFifo` |
| `GameNet` | a server and 2 clients, 2 objects, 2 identifiers, one connection that ends | `TypeOK`, `TablesExact`, `CopiesAgree`, `FailsForReason`, `NoOrphans`, `NotMisheard` |
| `PoolCachedStrands` | cached pool, 1 caller, 2 jobs | violates `ExecuteRuns` |
| `SchedIdleShutdown` | one task | violates `ShutdownProceeds` |
| `FutureTwoGetters` | 2 getters, 1 result | violates `AllAreServed` |
| `GameNetMessage` | as `GameNet` | violates `MessageObject` |
| `RegistryOverlap` | 3 created threads and one that registers itself, in one course of events | violates `RunningKeepsBlock` |

`ImplementsExecutor` includes `Executor`'s fairness, so `PoolFixed` shows that the jobs
submitted before `shutdown()` are run and that `shutdown()` returns.  The types of the
pool, the scheduler, the registry and the condvar are not checked by a run: they are
theorems, as are those of the event and the future as far as the other theorems need
them.

**Bounds.**

* Threads, callers and jobs of the pool: more jobs than threads, so that one set
  flag stands for several jobs and a thread finds the queue empty after it was
  posted; in the cached pool two callers, so that both can see the counters before
  either has queued its job, and a thread for every job, so that `Workers` never holds
  a caller up (with fewer, `SpawnThread` would have to wait, which the code does
  not).  The theorems below remove the bound from every safety property.
* Each job is submitted once, each task scheduled once: submitting the same
  command object again is submitting another job.
* `MaxTime` stops the clock of `ScheduledPool` and `ThreadEvent`.  Due times lie
  within it when scheduled; a recurring task's may pass it, and the scheduler's wait
  may then end when the clock has stopped (`TimeOut`), which adds no new step, since
  the condvar may wake it for no reason anyway, but lets every run of the model come
  to rest.  Three clock values are enough for a recurring task to be due before,
  together with and after a one-shot one, and for the scheduler to be late.
* `Runs` numbers the runs of a task; one a tick at most, so the clock bounds it.
* `ThreadEvent`: of the timeouts, 2 fits three signed bits, 5 becomes negative, 0 is
  over at once.
* `WinCond`: with three threads two signallers can read the same count and a third
  wait in between, or one broadcast for two.  `MaxTimeouts` bounds the time-outs, which
  may leave two spurious wake-ups.  The theorems have no bound on either but
  that there is one.
* `ThreadRegistry`: a thread that is created, one that it or the main thread creates
  while it is at the lists, and a foreign one that may be there before the flag is set.
  The run stops where two threads are at the lists at once (`NoOverlap`): there
  `ListsExact`, `FreedLate` and `GetsToRun` say nothing any more, and the links may lead
  anywhere.  `OnlyFirstsUnlocked`, which is about such states as well, is proved without this
  bound.  What an overlap can do is shown by `RegistryOverlap`, where `Scenario` keeps TLC to
  one course of events with the four threads that it takes.  Each thread is created
  or registers itself once, and is waited for or detached once, as `TThread` clears its
  `_handle` then.
* `LinuxTimer`: two ticks of one timer, so that one may be run inside of the other
  (`MaxTicks`, `MaxDepth`); a second timer, which a hook function stops; a pipe that is full
  after two posts (`PipeSize`; 64 KB in the system).
* `EventSystem`: the ring can be full and the counters wrap twice in every way; three
  hooks are needed for a run to stand at one that is removed together with its
  successor.  `Objects` has one `TEvent` for each slot, one for `CurrentEvent` and a new one.
* `GameNet`: two clients, so that the server hands on; two objects and two
  identifiers, so that one is used again while messages about it are under way
  (`MaxId`; 4095 in the code); only one object is written, closed and sent messages
  (`Busy`), the other one takes identifiers; one write (`MaxWrites`), one message,
  one connection that ends (`MaxBroken`), on either side and by either cause.
* `CHECK_DEADLOCK FALSE`: cached pools with idle timeouts can come to a stop
  before they are finished (Findings, 1); threads may all wait for each other at a
  condvar or an event that nobody sets; the registry and the hosts come to
  rest when all their threads and objects are used up; `EventSystem` stops at the depth of calls.  `PoolFixed` and
  `Timed` check deadlock; there a pool that is shut down and a scheduler without
  tasks come to rest by a step of their own (`Terminated`, `Quiet`), and so may timers, whose
  ticks are used up, or which a full pipe really stops.

**Fairness.**  Weak fairness of every thread's steps: the operating system
schedules a thread that can run, `run()` of a job returns, and a call of
`execute()`, `schedule()` or `shutdown()` that has begun is carried on.  Mutexes are
only held over steps of threads that are fair, so weak fairness of the thread that
wants one is what a lock that is not unfair for ever gives.  Nothing obliges anyone
to call `execute`, `shutdown`, `Set` or `SetResult`, a condvar to wake up spuriously, or
an idle timeout to occur.  `ScheduledPool` and `ThreadEvent` assume that the clock
runs and that a timed wait returns some time after its timeout.  In `WinCond` a
thread inside of a call goes on, and a thread that holds the mutex need never let go of it
(`Relock` and `TimedOut` are not fair).  In `ThreadRegistry` threads inside the runtime
go on; a thread's own function need not return.  In `LinuxTimer` the threads run, the
program comes back to polling outside of its hook functions, and these return: that is
strong fairness of `OpReturns`, because a hook function may poll any number of
times first.  `EventSystem` and `GameNet` have no progress properties: nothing
obliges a program to poll or to synchronise.

## Findings

1. **An idle timeout can take a permit back** (`PoolCachedStrands`,
   `threadpool.bmx:502`).  A thread's timed wait times out; before it has the mutex
   back, `Post` sets `value` for the job just queued; the thread then clears `value`
   and leaves.  `doExecute` had counted it as idle, so it created no other.  The job
   waits until another one is submitted, and `shutdown()`, which waits for an empty
   queue, does not return.
2. **`shutdown()` of an idle scheduler** (`SchedIdleShutdown`, line 359).  It sets
   `isShutdown` and waits for a scheduler thread that sleeps without a timeout on a
   condvar nobody signals.  `ShutdownReturns` in `Timed` shows that this is the
   only such case.
3. **One result, several getters** (`FutureTwoGetters`, `threads.bmx:408`).
   `SetResult` signals one waiting thread where the documentation says "any waiting
   threads"; the others sleep on.
4. **A message to an object that is gone** (`GameNetMessage`, `gnet.bmx:926`).  Messages
   carry an identifier, which is given to a new object as soon as the old one is closed;
   a message under way then reaches the new one.  `NotMisheard` shows that this is
   the only case: a message to an object that is still open is never given to another.

5. **A running thread's block is freed** (`RegistryOverlap`, `blitz_thread.c:51`).  A thread that
   has registered itself is in `removeThread` without the lock, at the link of the
   block before its own.  The flag is set; that block's thread ends under the lock, and the
   block goes to `deadThreads`.  The first thread then writes its successor into that
   link: `deadThreads` now leads to live threads, and one that has been detached is freed
   by the next thread that starts.  It takes a library's thread that ends while the program
   creates its first threads.

The models also have these behaviours, which properties leave room for and
`PROJECT.json` lists with the hazards:

* `execute()` tests `isShutdown` without a lock (line 192); its job may be queued after the
  last thread has left, and is then accepted and not run.
* `shutdown()` waits for `threadsAlive = 0`, which is also the case before threads
  have started; it then clears the `pool` field that `_processThread` goes on to use
  (line 276).  In the model such a thread ends as `crashed`.
* `schedule()` after `shutdown()` accepts tasks (line 349).
* The first thread that a caller of `bbThreadCreate` has created may be at the lists of
  threads without the lock, together with others (`blitz_thread.c:371`): the caller sets the
  flag only afterwards, and the new thread may be a caller itself by then.
* `bbThreadWait` and `bbThreadDetach` set `detached` before they read the handle from the
  block (`blitz_thread.c:440`); the block may be freed in between.
* A thread that finds the pipe full blocks with `asyncMutex`, for which the poll that
  would empty the pipe waits (`system.linux.c:56`): `Clogged`.
* A hook that is removed while `RunHooks` is at it may lead to a successor that has been
  removed as well, which is called once more (`hook.bmx:115`).
* In GameNet an object that is `CLOSED` here when a host connects, or that arrived from
  another host in the same `GNetSync`, is not announced to it, and a message about it
  then ends that host's program (`RecvMsg`); so do a broadcast to a peer whose
  end has not been handled yet, and the end of a connection right after the closing of
  an object.  `FailsForReason` says that there are no other reasons.

## The proofs

Everything is proved for arbitrary sets of threads, callers, jobs, tasks, delays,
periods, timeouts and bounds of the clock, from the assumptions that the modules name:
`PoolAssumption` (finitely many threads, the initial ones among them, and a null value
that is no job), `SchedulerAssumption` and `EventAssumption` (times are natural numbers,
and the null values are none of the values they stand beside), `RegistryAssumption` (no
thread is both created and foreign, none is the main one, and neither the null value nor
the names of the two variables are threads) and
`TimerAssumption` (timers are no jobs, the null value is neither, the pipe holds at
least one byte) and `SystemAssumption` (finitely many hooks with integers for priorities,
a null value that is neither hook nor object, one object more than there are slots, and a
number of slots that divides the range `2 ^ Width` of the counters, of which the backends
have to be told that it is a natural number) and `GameNetAssumption` (the server is no
client, the null value is neither object nor host, there is at least one identifier; the
bounds may be any).  The theorems about
`WinCond` assume `NoThread \notin Threads` where they are stated.

| Theorem | Module | Statement |
|---|---|---|
| `TypeCorrect` | `ThreadPoolProofs` | `SafeSpec => []TypeOK` |
| `CountersCorrect` | | `SafeSpec => []CountersExact` |
| `NoLostWakeup` | | `SafeSpec => []SleepersNotified` |
| `NothingStranded` | | `SafeSpec => []NoStrandedJob`, for pools without idle timeouts |
| `JobsOnceCorrect` | | `SafeSpec => []JobsOnce` |
| `ShutdownKeepsPromise` | | `SafeSpec => []PromiseKept` |
| `PoolImplementsExecutor` | | `SafeSpec => ImplementsExecutorSafe` |
| `SchedulerTypes` | `ScheduledPoolProofs` | `SafeSpec => []TypeOK` |
| `ListInOrder` | | `SafeSpec => []TasksSorted` |
| `RunsApart` | | `SafeSpec => []RunsSpaced` |
| `WakesInTime` | | `SafeSpec => []NeverOversleeps` |
| `SetReachesAll` | `WaitingProofs` | `SafeSpec => []SetWakesAll` |
| `NeverEarly` | | `SafeSpec => []FalseIsLate` |
| `TrueIsTrue` | | `SafeSpec => TrueWasSet` |
| `OnlyGivenResults` | | `Fut!SafeSpec => []Fut!ResultWasGiven` |
| `CondTypeCorrect` | | `CondSpec => []CondTypeOK` |
| `WakeUpsConserved` | | `CondSpec => []Conservation` |
| `Refinement` | | `CondSpec => ImplementsCondVar` |
| `TypeCorrect` | `ThreadRegistryProofs` | `Spec => []TypeOK` |
| `FirstsUnlocked` | | `Spec => []OnlyFirstsUnlocked` |
| `ExactLists` | | `Spec => []ListsExact` |
| `LateFrees` | | `Spec => []FreedLate` |
| `TypesCorrect` | `LinuxTimerProofs` | `TimerSafeSpec => []TimerTypeOK` |
| `PipeCounts` | | `TimerSafeSpec => []PipeMatches` |
| `FreedAfterUse` | | `TimerSafeSpec => []FreedLast` |
| `HeldThroughout` | | `TimerSafeSpec => []HeldWhileNeeded` |
| `HooksInOrder` | `EventSystemProofs` | `Spec => []Ordered` |
| `NobodyPassedOver` | | `Spec => []StayersCalled` |
| `SlotsExact` | | `Spec => []RingExact` |
| `RingIsFifo` | | `Spec => ImplementsFifo` |
| `TypeCorrect` | `GameNetProofs` | `Spec => []TypeOK` |
| `TablesCorrect` | | `Spec => []TablesExact` |
| `MapsHold` | | the assertions of `MapLocalId` and `SendMsg` never fail |
| `CopiesCorrect` | `GameNetCopies` | `Spec => []CopiesAgree` |
| `FailuresExplained` | | `Spec => []FailsForReason` |
| `MessagesArrive` | | `Spec => NotMisheard` |
| `OrphansCorrect` | | `Spec => []NoOrphans` |

*The pool.*  `TypeOK` is inductive; it contains that a thread or a call at a
position with a job in hand has one.  `CountersExact` is inductive relative to it;
what is needed about cardinalities (a thread enters or leaves one of the counted
sets) is stated once as a lemma about `At`.  `SleepersNotified` is inductive because
whoever sets the flag wakes a sleeper if there is one, and a thread that tests the
flag while it is set takes it.  `NoStrandedJob` names every
position from taking the flag to the `Post` after the `Remove`, and is inductive once
no thread can be about to give up on a timeout (`Patient`): that is where
`~IdleWait` enters.

For the promise of `shutdown()`, the steps of the pool are first classified by what they
do to the jobs: `StepKinds` says that every step appends a new job, moves the first
one to a thread, finishes one, or touches none.  `JobsOnce` and the fact that jobs
only move forward (`JobsMoveOn`) follow from the kinds alone.  The inductive invariant is

    PoolInv == TypeOK /\ CountersExact /\ JobsOnce /\ ShutdownStages

`PromiseKept` speaks of the last two stages of `shutdown()` only, where it would have to
follow from `threadsAlive = 0`.  `ShutdownStages` supplies what is known at each stage
before: while the queue drains, what was promised is queued, held or finished; once it
has been seen empty, held or finished; and when no thread is alive, none can hold a
job.  The last step uses that the counter is exact, and `LoopStaysEmpty`: a thread
that starts after `keepThreadsAlive` has been cleared finds nothing to do.

The refinement maps `pending` to `jobs`, `running` to the jobs in threads' hands, and
`phase` to the position of `shutdown()`.  Each kind of step is a step of `Executor` or
leaves its variables alone; `Return` needs `ShutdownStages`.

*The scheduler.*  `insertTask` walks the list to a place it finds with `CHOOSE`;
`PlaceFound` shows that the place exists, `InsertedShape` that the result is the old list
with the new task put in after some number of the old ones, and `InsertedSorted` and
`InsertedEffect` follow from this shape.  The types are not inductive by themselves: that
the number of a run is in bounds needs that a task has run at most once in every tick
before it is due, and that in turn that a task is in one place at a time and goes back
into the list a full period after it has run.  The inductive invariant is

    SchedInv == TypeOK /\ InTime /\ TaskOnce /\ DueLater /\ JustRun

`DueLater` speaks of the tasks in the list but exempts the one just handed to the pool,
which is still at the head; `JustRun` says what holds of that one instead, until
`Requeue` takes it out or puts it back.  `RunsSpaced` follows from `DueLater` at the
moment a task is handed over, since that happens only when it is due.  `TasksSorted` and
`NeverOversleeps` are inductive relative to `SchedInv`; the second is where it matters
that `schedule()` signals the condvar whenever the first task changes.

*The event and the future.*  `EventInv` is `SetWakesAll` and `FalseIsLate` with the
types of what they mention.  It says nothing of the condvar's own timeouts: `FalseIsLate`
holds whatever `Int(endTime - now)` is, because the loop looks at `endTime` itself.
`TrueWasSet` follows from the actions and these types.  `FutureInv` is the types and
`ResultWasGiven`.

*The registry.*  The inductive invariant is

    IInv == TypeOK /\ UntilFlag /\ OnlyFirstsUnlocked /\ (~overlapped => Tidy)
    Tidy == Alone /\ Lists /\ OnePlace /\ Frees /\ \A t \in AtLists : Knows(t)

with a lemma for each action.  `UntilFlag` is why only the first thread of each caller can
be inside without the lock: until some `bbThreadCreate` is about to return, every
created thread is still in the hands of the one that created it.  `Tidy` is about the links
as long as threads have been inside one at a time.  `ListsExact` is its part `Lists`; it
needs `OnePlace`, that no two links lead to the same block, and `Knows`, what
the thread at the lists has found out on its way: where its `p` may point, that
what it has read is still there, and that its own block is still ahead of it.  What links
lead to when one of them changes is proved once, for any links: `LeadsPush` (a block is put
in front), `LeadsCut` (a block is taken out), `LeadsSame` (a link elsewhere changes) and
`LeadsAhead` (a walk goes on).  No induction along the list is needed, because `Leads` is
stated with closed sets.

*The Windows condition variable.*  The invariant is

    IInv == CondTypeOK /\ Finite /\ Conservation

where `Finite` says that the sleepers and the posts to come are finite sets, so that
their cardinalities add up; `Threads` itself may be infinite.  Each action adds to or takes from one of the
two sets a number that a lemma states (`QuietCounts`, `WaitsCounts`, `SwapCounts`, ...),
and `Conservation` is arithmetic from there.  For the refinement, `sleeping` is the threads
counted and not yet past the semaphore, `granted` the permits and the posts to
come, and `phase` is read off `pc` and `call`.  `Swap` is where a call takes effect:
a compare-and-swap that succeeds is `Grant`, one that fails stutters; reading a
count of zero is `Nothing`, and that this is right (all sleepers have a wake-up coming)
is `Conservation`, as is the bound on what `Grant` may grant.

*The timers.*  The inductive invariant is

    Inv == Types /\ Posting /\ AtOperation /\ Started
           /\ Account /\ FreedDone /\ Holding /\ Waited

`PipeMatches` is part of `Posting`: the mutex is held from the change of the list to the
write of the byte, and by the thread whose operation is the last in the list.  `FreedLast` is
about counting.  `Account` says of each timer where every operation counted by
`puts` is: run (`gets`), in the list, in hand, or due from the timer's thread.  The
operations in hand are a set of cells, named by the number of the poll, from the outermost
one, and by how many operations come after; such a name does not change when a poll
begins inside, or when operations before it are dropped, so each step of the main thread
adds the cells of the list, takes one cell away, or changes nothing (`CellsTaken`,
`CellRun`, `CellsReturn`, `CellsPopped`).  An operation that finds `puts` one ahead of `gets` is
itself the only one left; that the thread has ended is then `LastOfAll`, which
needs `Posting` for a thread that still has the mutex.  In `Holding`, a job
may be retained although it has ended only while a poll is at its operation.

*The hooks.*  `ChainFrom` is a recursive function; what it computes is proved without
an induction theorem, by the least number for which it would go wrong
(`LeastNatural`, from the well-foundedness of the natural numbers): `ChainsExist` that there is
such a function, `ChainWithFuel` that it lists what the links lead to.  The inductive
invariant `HooksOrdered` says that there is an order of all hooks that have ever been
added, and a set of those still in the list, such that every link leads forward in this order and
passes over nobody who is still in the list, *also the links of hooks that have been removed*; in the
list, the order is that of priorities; and what a `RunHooks` has still to call comes behind
the hook it is at.  The order is what makes it inductive: the links alone do
not say where a removed hook stood, and a `RunHooks` may be at it.  `AddHook` puts the new
hook into the order right behind the one `Before` finds (`InsertionOrder`), so also
before removed hooks whose links lead on; `RemoveHook` changes the set, not the order.

*The ring.*  `RingInv` is `RingExact` in terms of the first counter and the distance to
the second, with the types of the variables.  That the slots follow each other when the
counters wrap is arithmetic (`Congruent`, `SlotOf`, `SlotsApart`), and is where
the range of the counters has to be a multiple of the number of slots; `Distance`, `PutOne` and `GetOne` say
what one step of a counter does.  `ObjectLeft` is why `PostEvent` finds an object that is
not in use.  For the refinement, the queue is the objects' events in the order of
the slots: `AddIsAppend`, `UpdateIsReplace`, `TakeIsPoll` and `TakeNothingIsPollNothing`
say what each operation does to this sequence and to the current event, which an event
posted later cannot change because its object is in no slot.

*GameNet.*  The inductive invariant is

    Inv == WiresTyped /\ HistoryTyped /\ StoreTyped /\ NetTyped /\ AllTables

`AllTables` says of every host, whether it runs or not, what `TablesExact` says, but of
objects where that speaks of sets of ids: each object that has not been unmapped is
alone at its id, `_idMap` has it there (`Row`), and the arrays of a peer pair the ids of just its open
objects with different ids of the peer's (`Arrays`).  One lemma for each way in which the tables
change (`TablesCreate`, `TablesChange`, `TablesReceive`, `TablesClose`, `TablesLose`,
`TablesSync`) is about any list of objects and any tables, and one lemma for each action
shows that it is that change on one host and none on the others (`StoreStep`).  `MapsHold` is part of the
invariant: an id that is free is in no array, since what is in an array is open and in
`_idMap`.  `Only`, a recursive function, is shown to filter a sequence along the same way as the
chains of hooks (`Recursion`, `Induct`).

*GameNet between hosts.*  `CopiesAgree` speaks of what a host will know once it has handled what is
under way, which the model computes with a recursive function along the messages.  The proof states
it as a path: `Stream(r, gone, k, msgs, e)` says that the messages `msgs` lead from the fact `k` about
the id `r` (nothing, or a name with contents) to the fact `e`, each message as `Leads` has it;
`StreamFold` shows by induction that the path's end is what the function computes.
With it, the invariant is

    Inv /\ Rest /\ Flows

`Flows` says for each link and each id that what the receiver `Knows` is led, through all that
is under way, to what the sender `Tells`.  Adding messages at the end of a link and taking the
first one away are lemmas about `Stream`, so every action has one lemma that says what it does to `Knows`,
to `Stream` and to `Tells` (`CreateFlow` to `HandleConnectFlow`).  `Rest` is what those need:
`Singles` (no two objects of a host have an id in common that is in use), `Wired` (a connection
has two ends that run, a `connect` is the first and a `disconnect` the last message under way,
and who has not joined is in no table of the server's) and `Named` (a name belongs to the host that
created it, its creation is announced once to the server, which does not know it and has not
missed it until then: this is why an id that is used again is not taken for the old object).
`FailsForReason` needs one more invariant, `Reasons`: which cause the phase of a host implies.
It holds because what was missed stays missed and a connection that has ended is
not made again (`Persists`).

*What has gone.*  `NotMisheard` and `NoOrphans` are about objects that are `Lost`: closed by their
owner, or of an owner that is cut off from the server.  They follow from

    Inv /\ Rest /\ Flows /\ Lasts
    Lasts == Carried /\ Foreign /\ Ending /\ Shut /\ Current

`Carried` says of what is under way that an object in a `closed` message is lost, and that a message to
an object is on its way to a host that has the object under that id, unless the object is lost.
It is inductive because an object that is lost remains so (`LostLasts`), for which `Foreign` is
needed: a host has no copies of its own objects, which could otherwise come back to it.
`Ending` says that the end of a connection is about to be noticed, or that what came over it has been closed.
Each action has one lemma that shows it to be an `Effect`, which says only what `Lasts` depends on;
`EffectKeeps` derives the invariant from that alone.  Two arguments are about what messages stand
for: `Traced`, that a message handed on is addressed to an object that the host has from, or shows to, a
peer; and `Upstream`, that once nothing is under way a host that has a copy has it from a host that
is connected and has the object.  `OrphansNone` follows it from the copy to the server and from
there to the owner.

*Only model-checked:* everything about progress (`TasksRun`, `ShutdownReturns`,
`TimedWaitReturns`, `AloneIsServed`, `SleepersWake`, `GetsToRun`, `StoppedFreed`,
`WaitReturns`, the fairness part of `ImplementsExecutor`): liveness under fairness and
`ENABLED` are beyond the prover. 
`ThreadEvent`'s full `TypeOK` is not proved either, because the backends know nothing of
`2 ^ Width`; the types its theorems need are in `EventInv`.

## What is not modelled

* Pool: `getActiveCount`, `threadsIdle` (a condvar that is signalled and that nobody
  waits on), an exception thrown by `run()`, which ends the thread in the
  language's own way, a second call of `shutdown()`, and the links of the list of
  threads, which `shutdown()` walks without a lock: the list is a set (hazard at
  `threadpool.bmx:275`).
* `TimeUnitToMillis` and the width of due times in `ScheduledPool`; that a
  `pthread_cond_timedwait` that fails does not let go of the mutex; that on Windows a negative
  timeout is a very long one and -1 an endless one, where `ThreadEvent` has it over at once,
  as on the other systems.
* Condition variables: the POSIX ones are the operating system's and appear as wait
  sets with spurious wake-ups; so are mutexes and semaphores.  Destroying an object in
  use, and the timed semaphore for macOS, are left out.
* Registry: a `pthread_create` that fails, thread-local data, and the Windows
  part.  `TThread.Delete` is left out because the block keeps its `TThread` alive
  until `Wait` or `Detach` have cleared the handle that `Delete` tests, and `Wait` and
  `Detach` of foreign threads because nobody has a `TThread` for them.
* Timers: those of Windows and macOS, whose threads and queues are the
  system's; the duration of a tick.
* Events: `PeekEvent` only reads (after it has polled as `PollEvent` does);
  `WaitEvent` ends as `PollEvent` does; use of the queue by several threads at once,
  for which it has no lock.
* GameNet: writes to remote objects, a `GNetConnect` that times out, events that
  arrive during it, the packing of slots into bytes, and `GNetHost`s connected
  in other ways than to one server.
* Handles, exception frames and retained objects: their callers are generated code that
  is not in the repository, and what two threads without a lock do to a tree of
  pointers is any shape of tree.
* Containers, strings, arrays, numbers, streams, files, text utilities: sequential
  code on data, with tests of their own or none needed beyond them; system drivers,
  graphics, images, fonts, audio: calls into operating system and vendored libraries.
  `PROJECT.json` has a line for each.

By lines of C and C++, nearly all of the repository is vendored: the collector
(`blitz.mod/bdwgc`), hashing, number formatting and parsing, and headers.  None of
that is the library's own logic, and a model of part of it would say nothing about
`brl.mod`.  The logic that is modelled is in BlitzMax, and in the C files `threads.c`,
`blitz_thread.c`, `timer.linux.c` and `system.linux.c`.

## Plan

Done: executors, futures and events, condition variables, the registry, timers on Linux,
events and hooks, GameNet; theorems about every safety property that a run shows to hold.
Left, most important first:

1. **`GameNet`** with `GNetConnect` that times out and writes to remote objects.
2. **Handles and containers**: the trees against a sorted map over short sequences
   of operations.
