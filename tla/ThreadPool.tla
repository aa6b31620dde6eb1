----------------------------- MODULE ThreadPool -----------------------------
(***************************************************************************)
(* brl.threadpool's TThreadPoolExecutor with its TJobQueue,                *)
(* TBinarySemaphore and TPooledThread (threadpool.mod/threadpool.bmx).     *)
(*                                                                         *)
(* One action per step between two accesses to shared state.  What the     *)
(* code does under countLock, under threadsLock or under the semaphore's   *)
(* own mutex is a single action: no other thread can look in between.  The *)
(* job queue's mutex is held across two actions (AddJob..AddPost and       *)
(* RemoveJob..RemovePost) because shutdown() reads the list without it.    *)
(***************************************************************************)
EXTENDS Integers, Sequences, FiniteSets

CONSTANTS
  Workers,     \* the TPooledThread objects that can ever exist
  Initial,     \* those the constructor creates: {} for a cached pool
  Clients,     \* the threads that call execute()
  Jobs,        \* the TRunnables they submit, each once
  NoJob,       \* Null
  Cached,      \* maxThreads < 0: execute() creates threads
  IdleWait     \* maxIdleWait # 0: an idle thread gives up after a while

ASSUME PoolAssumption ==
  /\ IsFiniteSet(Workers)
  /\ Initial \subseteq Workers
  /\ Cached \in BOOLEAN
  /\ IdleWait \in BOOLEAN
  /\ NoJob \notin Jobs

VARIABLES
  isShutdown, keepThreadsAlive,
  threadsAlive, threadsWorking,
  threads,     \* the TList of pooled threads
  hasPool,     \* the pooled threads whose `pool` field is not Null
  jobs,        \* jobQueue.jobs
  value,       \* jobQueue.hasJobs.value, the binary semaphore
  wpc, job,    \* each pooled thread's position, and its local `job`
  cpc, call,   \* each client's position, and the command it is submitting
  sdpc,        \* the position of the thread that calls shutdown()
  promised,    \* history: what had been submitted when shutdown() was called
  finished     \* history: the jobs whose run() has returned

flags   == <<isShutdown, keepThreadsAlive>>
counts  == <<threadsAlive, threadsWorking>>
listing == <<threads, hasPool>>
queue   == <<jobs, value>>
worker  == <<wpc, job>>
client  == <<cpc, call>>
closing == <<sdpc, promised>>
vars    == <<flags, counts, listing, queue, worker, client, closing, finished>>

-----------------------------------------------------------------------------
\* Positions of a pooled thread.
Idle    == {"loop", "wait", "asleep", "timedout", "permit", "begin"}
Busy    == {"remove", "post", "run", "finish"}
Alive   == Idle \cup Busy \cup {"leaving"}   \* counted in threadsAlive
WorkerPC == {"none", "created", "entered", "unlist", "gone", "crashed"} \cup Alive
ClientPC == {"idle", "count", "spawn", "add", "post"}
ShutdownPC == {"off", "drain", "stop", "reap", "wake", "clear", "done"}

At(pcs)    == {w \in Workers : wpc[w] \in pcs}
Holding    == At({"post", "run"})            \* threads with a job in hand
Queued     == {jobs[i] : i \in DOMAIN jobs}
Held       == {job[w] : w \in Holding}
Submitted  == Queued \cup Held \cup finished
InCall     == {call[c] : c \in {d \in Clients : cpc[d] # "idle"}}

\* jobQueue.mutex is held between AddLast or RemoveFirst and the Post() after it.
QueueLocked ==
  \/ \E w \in Workers : wpc[w] = "post"
  \/ \E c \in Clients : cpc[c] = "post"

\* cond.Signal() wakes one of the threads waiting on the semaphore, if any;
\* cond.Broadcast() wakes them all.  They test `value` again: position "wait".
Woken(pcs, W) == [w \in Workers |-> IF w \in W THEN "wait" ELSE pcs[w]]
Sleepers      == At({"asleep"})
Signalled     == IF Sleepers = {} THEN {{}} ELSE {{w} : w \in Sleepers}

-----------------------------------------------------------------------------
(* Plausible slips in the code, each substituted for the definition named   *)
(* before the underscore to show that a property notices it.  They are no   *)
(* part of the specification.                                               *)

\* Post forgets cond.Signal().
Post_silent(pcs) == value' = 1 /\ wpc' = pcs

-----------------------------------------------------------------------------
\* TBinarySemaphore.Post by a thread after whose own move the positions are pcs.
Post(pcs) ==
  /\ value' = 1
  /\ \E W \in Signalled : wpc' = Woken(pcs, W)

PostAll ==
  /\ value' = 1
  /\ wpc' = Woken(wpc, Sleepers)

-----------------------------------------------------------------------------
\* The constructor: a fixed pool starts all its threads, a cached pool none.
Init ==
  /\ isShutdown = FALSE
  /\ keepThreadsAlive = TRUE
  /\ threadsAlive = 0
  /\ threadsWorking = 0
  /\ threads = Initial
  /\ hasPool = Initial
  /\ jobs = <<>>
  /\ value = 0
  /\ wpc = [w \in Workers |-> IF w \in Initial THEN "created" ELSE "none"]
  /\ job = [w \in Workers |-> NoJob]
  /\ cpc = [c \in Clients |-> "idle"]
  /\ call = [c \in Clients |-> NoJob]
  /\ sdpc = "off"
  /\ promised = {}
  /\ finished = {}

-----------------------------------------------------------------------------
(* A pooled thread: _processThread and processThread                       *)

Go(w, from, to) == wpc[w] = from /\ wpc' = [wpc EXCEPT ![w] = to]

\* _processThread reads thread.pool, which shutdown() may have set to Null.
EnterThread(w) ==
  /\ Go(w, "created", IF w \in hasPool THEN "entered" ELSE "crashed")
  /\ UNCHANGED <<flags, counts, listing, queue, job, client, closing, finished>>

CountAlive(w) ==
  /\ Go(w, "entered", "loop")
  /\ threadsAlive' = threadsAlive + 1
  /\ UNCHANGED <<flags, threadsWorking, listing, queue, job, client, closing, finished>>

\* While keepThreadsAlive
LoopTest(w) ==
  /\ Go(w, "loop", IF keepThreadsAlive THEN "wait" ELSE "leaving")
  /\ UNCHANGED <<flags, counts, listing, queue, job, client, closing, finished>>

\* TBinarySemaphore.Wait and TimedWait: take the permit, or wait on the condvar.
Wait(w) ==
  /\ Go(w, "wait", IF value = 1 THEN "permit" ELSE "asleep")
  /\ value' = 0
  /\ UNCHANGED <<flags, counts, listing, jobs, job, client, closing, finished>>

\* The condvar may wake a waiter without a signal.
SpuriousWakeup(w) ==
  /\ Go(w, "asleep", "wait")
  /\ UNCHANGED <<flags, counts, listing, queue, job, client, closing, finished>>

\* cond.TimedWait gives up; the thread still has to take the mutex back.
TimeOut(w) ==
  /\ IdleWait
  /\ Go(w, "asleep", "timedout")
  /\ UNCHANGED <<flags, counts, listing, queue, job, client, closing, finished>>

\* res = 1: TimedWait clears `value`, whatever it is by now, and the loop exits.
GiveUp(w) ==
  /\ Go(w, "timedout", "leaving")
  /\ value' = 0
  /\ UNCHANGED <<flags, counts, listing, jobs, job, client, closing, finished>>

\* If keepThreadsAlive, after the wait.
PermitTest(w) ==
  /\ Go(w, "permit", IF keepThreadsAlive THEN "begin" ELSE "loop")
  /\ UNCHANGED <<flags, counts, listing, queue, job, client, closing, finished>>

CountWorking(w) ==
  /\ Go(w, "begin", "remove")
  /\ threadsWorking' = threadsWorking + 1
  /\ UNCHANGED <<flags, threadsAlive, listing, queue, job, client, closing, finished>>

\* Slips, as above: the permit is not passed on; a woken thread that finds no
\* job starts over without counting itself idle; the newest job is taken; the
\* oldest job is taken but left in the queue.
RemovePost_dropped(w) ==
  /\ Go(w, "post", "run")
  /\ UNCHANGED <<flags, counts, listing, queue, job, client, closing, finished>>

RemoveJob_continue(w) ==
  /\ ~QueueLocked
  /\ \/ /\ jobs # <<>>
        /\ Go(w, "remove", "post")
        /\ job' = [job EXCEPT ![w] = Head(jobs)]
        /\ jobs' = Tail(jobs)
     \/ jobs = <<>> /\ Go(w, "remove", "loop") /\ UNCHANGED <<job, jobs>>
  /\ UNCHANGED <<flags, counts, listing, value, client, closing, finished>>

RemoveJob_newest(w) ==
  /\ ~QueueLocked
  /\ \/ /\ jobs # <<>>
        /\ Go(w, "remove", "post")
        /\ job' = [job EXCEPT ![w] = jobs[Len(jobs)]]
        /\ jobs' = SubSeq(jobs, 1, Len(jobs) - 1)
     \/ jobs = <<>> /\ Go(w, "remove", "finish") /\ UNCHANGED <<job, jobs>>
  /\ UNCHANGED <<flags, counts, listing, value, client, closing, finished>>

RemoveJob_peeks(w) ==
  /\ ~QueueLocked
  /\ \/ /\ jobs # <<>>
        /\ Go(w, "remove", "post")
        /\ job' = [job EXCEPT ![w] = Head(jobs)]
     \/ jobs = <<>> /\ Go(w, "remove", "finish") /\ UNCHANGED job
  /\ UNCHANGED <<flags, counts, listing, queue, client, closing, finished>>

\* TJobQueue.Remove, up to RemoveFirst; with no job there is nothing to post.
RemoveJob(w) ==
  /\ ~QueueLocked
  /\ \/ /\ jobs # <<>>
        /\ Go(w, "remove", "post")
        /\ job' = [job EXCEPT ![w] = Head(jobs)]
        /\ jobs' = Tail(jobs)
     \/ /\ jobs = <<>>
        /\ Go(w, "remove", "finish")
        /\ UNCHANGED <<job, jobs>>
  /\ UNCHANGED <<flags, counts, listing, value, client, closing, finished>>

\* hasJobs.Post() passes the permit on to the next thread, then Unlock.
RemovePost(w) ==
  /\ wpc[w] = "post"
  /\ Post([wpc EXCEPT ![w] = "run"])
  /\ UNCHANGED <<flags, counts, listing, jobs, job, client, closing, finished>>

\* job.run() returns.
RunJob(w) ==
  /\ Go(w, "run", "finish")
  /\ finished' = finished \cup {job[w]}
  /\ job' = [job EXCEPT ![w] = NoJob]
  /\ UNCHANGED <<flags, counts, listing, queue, client, closing>>

\* Nothing ever waits on threadsIdle, so its Signal() wakes nobody.
CountIdle(w) ==
  /\ Go(w, "finish", "loop")
  /\ threadsWorking' = threadsWorking - 1
  /\ UNCHANGED <<flags, threadsAlive, listing, queue, job, client, closing, finished>>

CountDead(w) ==
  /\ Go(w, "leaving", "unlist")
  /\ threadsAlive' = threadsAlive - 1
  /\ UNCHANGED <<flags, threadsWorking, listing, queue, job, client, closing, finished>>

Unlist(w) ==
  /\ Go(w, "unlist", "gone")
  /\ threads' = threads \ {w}
  /\ UNCHANGED <<flags, counts, hasPool, queue, job, client, closing, finished>>

WorkerStep(w) ==
  \/ EnterThread(w) \/ CountAlive(w) \/ LoopTest(w)
  \/ Wait(w) \/ GiveUp(w) \/ PermitTest(w) \/ CountWorking(w)
  \/ RemoveJob(w) \/ RemovePost(w) \/ RunJob(w) \/ CountIdle(w)
  \/ CountDead(w) \/ Unlist(w)

-----------------------------------------------------------------------------
(* A caller of execute() and doExecute()                                   *)

Goto(c, from, to) == cpc[c] = from /\ cpc' = [cpc EXCEPT ![c] = to]

\* If Not isShutdown; otherwise execute() returns and nothing has changed.
Execute(c, j) ==
  /\ j \notin Submitted \cup InCall
  /\ ~isShutdown
  /\ Goto(c, "idle", IF Cached THEN "count" ELSE "add")
  /\ call' = [call EXCEPT ![c] = j]
  /\ UNCHANGED <<flags, counts, listing, queue, worker, closing, finished>>

\* A new thread is wanted when every live one is working.
SpawnTest(c) ==
  /\ Goto(c, "count", IF threadsWorking = threadsAlive THEN "spawn" ELSE "add")
  /\ UNCHANGED <<flags, counts, listing, queue, worker, call, closing, finished>>

\* threads.AddLast(New TPooledThread(...)) under threadsLock.
SpawnThread(c) ==
  /\ Goto(c, "spawn", "add")
  /\ \E w \in At({"none"}) :
       /\ wpc' = [wpc EXCEPT ![w] = "created"]
       /\ threads' = threads \cup {w}
       /\ hasPool' = hasPool \cup {w}
  /\ UNCHANGED <<flags, counts, queue, job, call, closing, finished>>

\* jobQueue.Lock(), then TJobQueue.Add up to AddLast.
AddJob(c) ==
  /\ ~QueueLocked
  /\ Goto(c, "add", "post")
  /\ jobs' = Append(jobs, call[c])
  /\ UNCHANGED <<flags, counts, listing, value, worker, call, closing, finished>>

AddPost(c) ==
  /\ Goto(c, "post", "idle")
  /\ Post(wpc)
  /\ call' = [call EXCEPT ![c] = NoJob]
  /\ UNCHANGED <<flags, counts, listing, jobs, job, closing, finished>>

ClientStep(c) == SpawnTest(c) \/ SpawnThread(c) \/ AddJob(c) \/ AddPost(c)

-----------------------------------------------------------------------------
(* The caller of shutdown()                                                *)

Shutdown ==
  /\ sdpc = "off"
  /\ sdpc' = "drain"
  /\ isShutdown' = TRUE
  /\ promised' = Submitted
  /\ UNCHANGED <<keepThreadsAlive, counts, listing, queue, worker, client, finished>>

\* Slips, as above: shutdown() does not wait for the queue to empty; it only sleeps
\* between two looks at threadsAlive.
DrainTest_impatient ==
  /\ sdpc = "drain"
  /\ sdpc' = "stop"
  /\ UNCHANGED <<flags, counts, listing, queue, worker, client, promised, finished>>

ReapPost_delay ==
  /\ sdpc = "wake"
  /\ sdpc' = "reap"
  /\ UNCHANGED <<flags, counts, listing, queue, worker, client, promised, finished>>

\* While Not jobQueue.jobs.IsEmpty(), read without the queue's mutex.
DrainTest ==
  /\ sdpc = "drain"
  /\ jobs = <<>>
  /\ sdpc' = "stop"
  /\ UNCHANGED <<flags, counts, listing, queue, worker, client, promised, finished>>

StopThreads ==
  /\ sdpc = "stop"
  /\ sdpc' = "reap"
  /\ keepThreadsAlive' = FALSE
  /\ UNCHANGED <<isShutdown, counts, listing, queue, worker, client, promised, finished>>

\* Both polling loops: While threadsAlive, read without countLock.
ReapTest ==
  /\ sdpc = "reap"
  /\ sdpc' = IF threadsAlive = 0 THEN "clear" ELSE "wake"
  /\ UNCHANGED <<flags, counts, listing, queue, worker, client, promised, finished>>

ReapPost ==
  /\ sdpc = "wake"
  /\ sdpc' = "reap"
  /\ PostAll
  /\ UNCHANGED <<flags, counts, listing, jobs, job, client, promised, finished>>

\* thread.pool = Null for each listed thread, then threads.Clear().
ClearThreads ==
  /\ sdpc = "clear"
  /\ sdpc' = "done"
  /\ hasPool' = hasPool \ threads
  /\ threads' = {}
  /\ UNCHANGED <<flags, counts, queue, worker, client, promised, finished>>

ShutdownStep == DrainTest \/ StopThreads \/ ReapTest \/ ReapPost \/ ClearThreads

-----------------------------------------------------------------------------
\* Everything has come to rest: the one state in which the pool may stop.
Terminated ==
  /\ sdpc = "done"
  /\ At({"none", "gone", "crashed"}) = Workers
  /\ \A c \in Clients : cpc[c] = "idle"
  /\ UNCHANGED vars

Next ==
  \/ \E w \in Workers : WorkerStep(w) \/ SpuriousWakeup(w) \/ TimeOut(w)
  \/ \E c \in Clients : ClientStep(c) \/ \E j \in Jobs : Execute(c, j)
  \/ Shutdown \/ ShutdownStep
  \/ Terminated

\* Threads are scheduled, run() returns and calls in progress are completed;
\* nobody is obliged to submit a job, to shut the pool down or to time out.
Fairness ==
  /\ \A w \in Workers : WF_vars(WorkerStep(w))
  /\ \A c \in Clients : WF_vars(ClientStep(c))
  /\ WF_vars(ShutdownStep)

SafeSpec == Init /\ [][Next]_vars
Spec     == SafeSpec /\ Fairness

-----------------------------------------------------------------------------
(* Properties                                                              *)

\* The variables have their types, and a call or a thread that has a job in
\* hand knows which one.
TypeOK ==
  /\ isShutdown \in BOOLEAN /\ keepThreadsAlive \in BOOLEAN
  /\ threadsAlive \in Int /\ threadsWorking \in Int
  /\ threads \subseteq Workers /\ hasPool \subseteq Workers
  /\ jobs \in Seq(Jobs)
  /\ value \in {0, 1}
  /\ wpc \in [Workers -> WorkerPC] /\ job \in [Workers -> Jobs \cup {NoJob}]
  /\ cpc \in [Clients -> ClientPC] /\ call \in [Clients -> Jobs \cup {NoJob}]
  /\ \A w \in Holding : job[w] \in Jobs
  /\ \A c \in Clients : cpc[c] # "idle" => call[c] \in Jobs
  /\ sdpc \in ShutdownPC
  /\ promised \subseteq Jobs /\ finished \subseteq Jobs

\* threadsAlive and threadsWorking, which doExecute, getActiveCount and
\* shutdown() base their decisions on, count exactly the threads between the
\* increment and the decrement, whichever way a thread leaves the loop.
CountersExact ==
  /\ threadsAlive = Cardinality(At(Alive))
  /\ threadsWorking = Cardinality(At(Busy))

\* No wake-up is lost on the condvar: while the permit is there and some thread
\* sleeps, another one has been woken and is about to test `value`.
SleepersNotified ==
  value = 1 /\ Sleepers # {} => At({"wait"}) # {}

\* No job is forgotten: while the queue holds jobs and the pool is running, the
\* permit is there, or a thread that took it has yet to look into the queue, or
\* the one that holds the queue's mutex is about to post.  Several Add()s set
\* `value` only once; it is Remove's own Post() that reaches the later jobs.
\* Pools with an idle timeout do not have this property: see GiveUp.
NoStrandedJob ==
  jobs # <<>> /\ keepThreadsAlive =>
    value = 1 \/ QueueLocked \/ At({"permit", "begin", "remove"}) # {}

\* A job is in one place at a time: once in the queue, in the hands of one
\* thread, or done; and a call of execute() that has yet to queue its job is the
\* only one that has it.  A queue shared by several threads could lose this.
JobsOnce ==
  /\ \A i, k \in DOMAIN jobs : jobs[i] = jobs[k] => i = k
  /\ \A v, w \in Holding : job[v] = job[w] => v = w
  /\ Queued \cap Held = {}
  /\ (Queued \cup Held) \cap finished = {}
  /\ \A c, d \in Clients :
       cpc[c] # "idle" /\ cpc[d] # "idle" /\ call[c] = call[d] => c = d
  /\ \A c \in Clients : cpc[c] \in {"count", "spawn", "add"} => call[c] \notin Submitted

\* What shutdown() can rely on at each of its steps: nothing promised is lost
\* while the queue drains, nothing promised is still queued once it has, and
\* when threadsAlive has been seen 0 no thread is past the loop's test, nor
\* will one that starts late ever be.
ShutdownStages ==
  /\ sdpc = "off" => promised = {}
  /\ sdpc = "drain" => promised \subseteq Submitted
  /\ sdpc \in {"stop", "reap", "wake"} => promised \subseteq Held \cup finished
  /\ sdpc \in {"reap", "wake", "clear", "done"} => ~keepThreadsAlive
  /\ sdpc \in {"clear", "done"} =>
       promised \subseteq finished /\ At(Alive \ {"loop", "leaving"}) = {}

\* Shutdown runs what was submitted before it: when the last live thread has
\* been seen leaving, every job that execute() had queued before shutdown() was
\* called has been run to its end.
PromiseKept ==
  sdpc \in {"clear", "done"} => promised \subseteq finished

\* "Executes the given command at some time in the future": whatever execute()
\* has put in the queue is run, if nobody shuts the pool down.
ExecuteRuns ==
  [](~isShutdown) => \A j \in Jobs : j \in Submitted ~> j \in finished

\* The pool does what Executor promises.
Contract == INSTANCE Executor WITH
  pending  <- jobs,
  running  <- Held,
  phase    <- CASE sdpc = "off" -> "open" [] sdpc = "done" -> "closed" [] OTHER -> "closing"

ImplementsExecutor     == Contract!Spec
ImplementsExecutorSafe == Contract!SafeSpec
=============================================================================
