-------------------------- MODULE ThreadPoolProofs --------------------------
(* Theorems about ThreadPool, for every choice of its constants.           *)
EXTENDS ThreadPool, FiniteSetTheorems, TLAPS

-----------------------------------------------------------------------------
(* What the semaphore's Post and PostAll do to the threads' positions.     *)

\* Post sets the flag; apart from what the caller does to its own position, it
\* moves at most sleeping threads, and those to "wait".
LEMMA PostEffect ==
  ASSUME NEW pcs \in [Workers -> WorkerPC], Post(pcs)
  PROVE  /\ value' = 1
         /\ wpc' \in [Workers -> WorkerPC]
         /\ \A w \in Workers : \/ wpc'[w] = pcs[w]
                               \/ wpc[w] = "asleep" /\ wpc'[w] = "wait"
<1>1. PICK W \in Signalled : wpc' = Woken(pcs, W)
  BY DEF Post
<1>2. \A w \in W : w \in Workers /\ wpc[w] = "asleep"
  BY DEF Signalled, Sleepers, At
<1>3. value' = 1
  BY DEF Post
<1>4. QED
  BY <1>1, <1>2, <1>3 DEF Woken, WorkerPC, Alive, Idle

\* PostAll moves every sleeping thread to "wait" and no other thread.
LEMMA PostAllEffect ==
  ASSUME wpc \in [Workers -> WorkerPC], PostAll
  PROVE  /\ value' = 1
         /\ wpc' \in [Workers -> WorkerPC]
         /\ \A w \in Workers : \/ wpc'[w] = wpc[w] /\ wpc[w] # "asleep"
                               \/ wpc[w] = "asleep" /\ wpc'[w] = "wait"
BY DEF PostAll, Woken, Sleepers, At, WorkerPC, Alive, Idle

-----------------------------------------------------------------------------
(* Type correctness                                                        *)

\* The constructor's state has the types.
LEMMA TypeInit == Init => TypeOK
<1> SUFFICES ASSUME Init PROVE TypeOK
  OBVIOUS
<1> USE PoolAssumption DEF Init
<1>1. jobs \in Seq(Jobs)
  OBVIOUS
<1>2. wpc \in [Workers -> WorkerPC] /\ Holding = {}
  BY DEF WorkerPC, Holding, At
<1>3. cpc \in [Clients -> ClientPC] /\ sdpc \in ShutdownPC
  BY DEF ClientPC, ShutdownPC
<1>4. job \in [Workers -> Jobs \cup {NoJob}] /\ call \in [Clients -> Jobs \cup {NoJob}]
  OBVIOUS
<1>5. \A c \in Clients : cpc[c] # "idle" => call[c] \in Jobs
  OBVIOUS
<1>6. isShutdown \in BOOLEAN /\ keepThreadsAlive \in BOOLEAN
  OBVIOUS
<1>7. threadsAlive \in Int /\ threadsWorking \in Int /\ value \in {0, 1}
  OBVIOUS
<1>8. threads \subseteq Workers /\ hasPool \subseteq Workers
  BY DEF PoolAssumption
<1>9. promised \subseteq Jobs /\ finished \subseteq Jobs
  OBVIOUS
<1> HIDE DEF Init
<1>10. QED
  BY <1>1, <1>2, <1>3, <1>4, <1>5, <1>6, <1>7, <1>8, <1>9 DEF TypeOK

\* Every step keeps the types, one case per action.
LEMMA TypeStep == TypeOK /\ [Next]_vars => TypeOK'
<1> SUFFICES ASSUME TypeOK, [Next]_vars PROVE TypeOK'
  OBVIOUS
<1> USE DEF TypeOK, Holding, At
<1> USE DEF flags, counts, listing, queue, worker, client, closing
<1>1. ASSUME NEW w \in Workers, WorkerStep(w) \/ SpuriousWakeup(w) \/ TimeOut(w)
      PROVE  TypeOK'
  <2> USE DEF Go, WorkerPC, Alive, Idle, Busy
  <2>1. CASE EnterThread(w)
    BY <2>1 DEF EnterThread
  <2>2. CASE CountAlive(w)
    BY <2>2 DEF CountAlive
  <2>3. CASE LoopTest(w)
    BY <2>3 DEF LoopTest
  <2>4. CASE Wait(w)
    BY <2>4 DEF Wait
  <2>5. CASE GiveUp(w)
    BY <2>5 DEF GiveUp
  <2>6. CASE PermitTest(w)
    BY <2>6 DEF PermitTest
  <2>7. CASE CountWorking(w)
    BY <2>7 DEF CountWorking
  <2>8. CASE RemoveJob(w)
    BY <2>8 DEF RemoveJob
  <2>9. CASE RemovePost(w)
    <3> DEFINE pcs == [wpc EXCEPT ![w] = "run"]
    <3>1. pcs \in [Workers -> WorkerPC]
      OBVIOUS
    <3>2. wpc[w] = "post" /\ Post(pcs)
      BY <2>9 DEF RemovePost
    <3> HIDE DEF pcs
    <3>3. /\ value' = 1
          /\ wpc' \in [Workers -> WorkerPC]
          /\ \A v \in Workers : \/ wpc'[v] = pcs[v]
                                \/ wpc[v] = "asleep" /\ wpc'[v] = "wait"
      BY <3>1, <3>2, PostEffect
    <3>4. \A v \in Workers : wpc'[v] \in {"post", "run"} => wpc[v] \in {"post", "run"}
      BY <3>2, <3>3 DEF pcs
    <3>5. QED
      BY <2>9, <3>3, <3>4 DEF RemovePost
  <2>10. CASE RunJob(w)
    BY <2>10 DEF RunJob
  <2>11. CASE CountIdle(w)
    BY <2>11 DEF CountIdle
  <2>12. CASE CountDead(w)
    BY <2>12 DEF CountDead
  <2>13. CASE Unlist(w)
    BY <2>13 DEF Unlist
  <2>14. CASE SpuriousWakeup(w)
    BY <2>14 DEF SpuriousWakeup
  <2>15. CASE TimeOut(w)
    BY <2>15 DEF TimeOut
  <2>16. QED
    BY <1>1, <2>1, <2>2, <2>3, <2>4, <2>5, <2>6, <2>7, <2>8, <2>9, <2>10, <2>11,
       <2>12, <2>13, <2>14, <2>15 DEF WorkerStep
<1>2. ASSUME NEW c \in Clients, ClientStep(c) \/ \E j \in Jobs : Execute(c, j)
      PROVE  TypeOK'
  <2> USE DEF Goto, ClientPC
  <2>1. ASSUME NEW j \in Jobs, Execute(c, j) PROVE TypeOK'
    BY <2>1 DEF Execute
  <2>2. CASE SpawnTest(c)
    BY <2>2 DEF SpawnTest
  <2>3. CASE SpawnThread(c)
    BY <2>3 DEF SpawnThread, WorkerPC
  <2>4. CASE AddJob(c)
    BY <2>4 DEF AddJob
  <2>5. CASE AddPost(c)
    <3>1. /\ value' = 1
          /\ wpc' \in [Workers -> WorkerPC]
          /\ \A v \in Workers : \/ wpc'[v] = wpc[v]
                                \/ wpc[v] = "asleep" /\ wpc'[v] = "wait"
      BY <2>5, PostEffect DEF AddPost
    <3>2. \A v \in Workers : wpc'[v] \in {"post", "run"} => wpc[v] \in {"post", "run"}
      BY <3>1
    <3>3. QED
      BY <2>5, <3>1, <3>2 DEF AddPost
  <2>6. QED
    BY <1>2, <2>1, <2>2, <2>3, <2>4, <2>5 DEF ClientStep
<1>3. ASSUME Shutdown \/ ShutdownStep
      PROVE  TypeOK'
  <2> USE DEF ShutdownPC
  <2>1. CASE Shutdown
    <3>1. Submitted \subseteq Jobs
      BY DEF Submitted, Queued, Held
    <3>2. QED
      BY <2>1, <3>1 DEF Shutdown
  <2>2. CASE DrainTest
    BY <2>2 DEF DrainTest
  <2>3. CASE StopThreads
    BY <2>3 DEF StopThreads
  <2>4. CASE ReapTest
    BY <2>4 DEF ReapTest
  <2>5. CASE ReapPost
    <3>1. /\ value' = 1
          /\ wpc' \in [Workers -> WorkerPC]
          /\ \A v \in Workers : \/ wpc'[v] = wpc[v] /\ wpc[v] # "asleep"
                                \/ wpc[v] = "asleep" /\ wpc'[v] = "wait"
      BY <2>5, PostAllEffect DEF ReapPost
    <3>2. \A v \in Workers : wpc'[v] \in {"post", "run"} => wpc[v] \in {"post", "run"}
      BY <3>1
    <3>3. QED
      BY <2>5, <3>1, <3>2 DEF ReapPost
  <2>6. CASE ClearThreads
    BY <2>6 DEF ClearThreads
  <2>7. QED
    BY <1>3, <2>1, <2>2, <2>3, <2>4, <2>5, <2>6 DEF ShutdownStep
<1>4. CASE UNCHANGED vars
  BY <1>4 DEF vars
<1>5. QED
  BY <1>1, <1>2, <1>3, <1>4 DEF Next, Terminated

\* The variables of the pool keep their types, and a thread or a call between
\* taking a job and being done with it always has one.
THEOREM TypeCorrect == SafeSpec => []TypeOK
BY TypeInit, TypeStep, PTL DEF SafeSpec

-----------------------------------------------------------------------------
(* The counters.                                                           *)

\* If at most w crosses the border of S, the number of threads in S changes by
\* what w does.
LEMMA CountMove ==
  ASSUME NEW S, NEW w \in Workers,
         \A v \in Workers \ {w} : wpc'[v] \in S <=> wpc[v] \in S
  PROVE  /\ Cardinality(At(S)) \in Nat
         /\ (wpc[w] \in S <=> wpc'[w] \in S) => At(S)' = At(S)
         /\ wpc[w] \notin S /\ wpc'[w] \in S =>
              Cardinality(At(S)') = Cardinality(At(S)) + 1
         /\ wpc[w] \in S /\ wpc'[w] \notin S =>
              Cardinality(At(S)') = Cardinality(At(S)) - 1
<1>1. IsFiniteSet(At(S)) /\ IsFiniteSet(At(S)')
  <2>1. At(S) \subseteq Workers /\ At(S)' \subseteq Workers
    BY DEF At
  <2>2. QED
    BY <2>1, PoolAssumption, FS_Subset DEF PoolAssumption
<1>2. Cardinality(At(S)) \in Nat
  BY <1>1, FS_CardinalityType
<1>3. ASSUME wpc[w] \in S <=> wpc'[w] \in S
      PROVE  At(S)' = At(S)
  BY <1>3 DEF At
<1>4. ASSUME wpc[w] \notin S, wpc'[w] \in S
      PROVE  Cardinality(At(S)') = Cardinality(At(S)) + 1
  <2>1. At(S)' = At(S) \cup {w} /\ w \notin At(S)
    BY <1>4 DEF At
  <2>2. QED
    BY <2>1, <1>1, FS_AddElement
<1>5. ASSUME wpc[w] \in S, wpc'[w] \notin S
      PROVE  Cardinality(At(S)') = Cardinality(At(S)) - 1
  <2>1. At(S)' = At(S) \ {w} /\ w \in At(S)
    BY <1>5 DEF At
  <2>2. QED
    BY <2>1, <1>1, FS_RemoveElement
<1>6. QED
  BY <1>2, <1>3, <1>4, <1>5

\* The same for steps that move no thread across the border.
LEMMA CountStays ==
  ASSUME NEW S, \A v \in Workers : wpc'[v] \in S <=> wpc[v] \in S
  PROVE  At(S)' = At(S)
BY DEF At

\* No thread is counted before it runs.
LEMMA CountersInit == Init => CountersExact
<1> SUFFICES ASSUME Init PROVE CountersExact
  OBVIOUS
<1>1. At(Alive) = {} /\ At(Busy) = {}
  BY DEF Init, At, Alive, Idle, Busy
<1>2. QED
  BY <1>1, FS_EmptySet DEF Init, CountersExact

\* A step that takes a thread over the border of Alive or Busy moves the counter
\* with it.
LEMMA CountersStep == TypeOK /\ CountersExact /\ [Next]_vars => CountersExact'
<1> SUFFICES ASSUME TypeOK, CountersExact, [Next]_vars PROVE CountersExact'
  OBVIOUS
<1> USE DEF CountersExact
<1>0. wpc \in [Workers -> WorkerPC] /\ threadsAlive \in Int /\ threadsWorking \in Int
  BY DEF TypeOK
<1>1. \* a step that crosses neither border and leaves the counters alone
      ASSUME UNCHANGED <<threadsAlive, threadsWorking>>,
             \A v \in Workers : /\ wpc'[v] \in Alive <=> wpc[v] \in Alive
                                /\ wpc'[v] \in Busy <=> wpc[v] \in Busy
      PROVE  CountersExact'
  BY <1>1, CountStays
<1>2. ASSUME NEW w \in Workers, WorkerStep(w) \/ SpuriousWakeup(w) \/ TimeOut(w)
      PROVE  CountersExact'
  <2> USE DEF Go, Alive, Idle, Busy
  <2>1. CASE \/ EnterThread(w) \/ LoopTest(w) \/ Wait(w) \/ GiveUp(w)
             \/ PermitTest(w) \/ RemoveJob(w) \/ RunJob(w) \/ Unlist(w)
             \/ SpuriousWakeup(w) \/ TimeOut(w)
    <3>1. UNCHANGED <<threadsAlive, threadsWorking>>
      BY <2>1 DEF EnterThread, LoopTest, Wait, GiveUp, PermitTest, RemoveJob, RunJob,
                  Unlist, SpuriousWakeup, TimeOut, counts
    <3>2. \A v \in Workers : /\ wpc'[v] \in Alive <=> wpc[v] \in Alive
                             /\ wpc'[v] \in Busy <=> wpc[v] \in Busy
      BY <1>0, <2>1 DEF EnterThread, LoopTest, Wait, GiveUp, PermitTest, RemoveJob,
                  RunJob, Unlist, SpuriousWakeup, TimeOut
    <3>3. QED
      BY <1>1, <3>1, <3>2
  <2>2. CASE RemovePost(w)
    <3> DEFINE pcs == [wpc EXCEPT ![w] = "run"]
    <3>1. wpc[w] = "post" /\ Post(pcs) /\ UNCHANGED <<threadsAlive, threadsWorking>>
      BY <2>2 DEF RemovePost, counts
    <3>2. pcs \in [Workers -> WorkerPC]
      BY <1>0 DEF WorkerPC
    <3>3. \A v \in Workers : pcs[v] = IF v = w THEN "run" ELSE wpc[v]
      BY <1>0
    <3> HIDE DEF pcs
    <3>4. \A v \in Workers : \/ wpc'[v] = pcs[v]
                             \/ wpc[v] = "asleep" /\ wpc'[v] = "wait"
      BY <3>1, <3>2, PostEffect
    <3>5. \A v \in Workers : /\ wpc'[v] \in Alive <=> wpc[v] \in Alive
                             /\ wpc'[v] \in Busy <=> wpc[v] \in Busy
      BY <3>1, <3>3, <3>4
    <3>6. QED
      BY <1>1, <3>1, <3>5
  <2>3. CASE CountAlive(w)
    <3>1. /\ wpc[w] = "entered" /\ wpc' = [wpc EXCEPT ![w] = "loop"]
          /\ threadsAlive' = threadsAlive + 1 /\ UNCHANGED threadsWorking
      BY <2>3 DEF CountAlive
    <3>2. QED
      BY <1>0, <3>1, CountMove
  <2>4. CASE CountDead(w)
    <3>1. /\ wpc[w] = "leaving" /\ wpc' = [wpc EXCEPT ![w] = "unlist"]
          /\ threadsAlive' = threadsAlive - 1 /\ UNCHANGED threadsWorking
      BY <2>4 DEF CountDead
    <3>2. QED
      BY <1>0, <3>1, CountMove
  <2>5. CASE CountWorking(w)
    <3>1. /\ wpc[w] = "begin" /\ wpc' = [wpc EXCEPT ![w] = "remove"]
          /\ threadsWorking' = threadsWorking + 1 /\ UNCHANGED threadsAlive
      BY <2>5 DEF CountWorking
    <3>2. QED
      BY <1>0, <3>1, CountMove
  <2>6. CASE CountIdle(w)
    <3>1. /\ wpc[w] = "finish" /\ wpc' = [wpc EXCEPT ![w] = "loop"]
          /\ threadsWorking' = threadsWorking - 1 /\ UNCHANGED threadsAlive
      BY <2>6 DEF CountIdle
    <3>2. QED
      BY <1>0, <3>1, CountMove
  <2>7. QED
    BY <1>2, <2>1, <2>2, <2>3, <2>4, <2>5, <2>6 DEF WorkerStep
<1>3. ASSUME NEW c \in Clients, ClientStep(c) \/ \E j \in Jobs : Execute(c, j)
      PROVE  CountersExact'
  <2>1. UNCHANGED <<threadsAlive, threadsWorking>>
    BY <1>3 DEF ClientStep, Execute, SpawnTest, SpawnThread, AddJob, AddPost, counts
  <2>2. \A v \in Workers : /\ wpc'[v] \in Alive <=> wpc[v] \in Alive
                           /\ wpc'[v] \in Busy <=> wpc[v] \in Busy
    <3>1. CASE SpawnThread(c)
      <4>1. PICK w \in At({"none"}) : wpc' = [wpc EXCEPT ![w] = "created"]
        BY <3>1 DEF SpawnThread
      <4>2. QED
        BY <1>0, <4>1 DEF At, Alive, Idle, Busy
    <3>2. CASE AddPost(c)
      <4>1. \A v \in Workers : \/ wpc'[v] = wpc[v]
                               \/ wpc[v] = "asleep" /\ wpc'[v] = "wait"
        BY <1>0, <3>2, PostEffect DEF AddPost
      <4>2. QED
        BY <4>1 DEF Alive, Idle, Busy
    <3>3. CASE SpawnTest(c) \/ AddJob(c) \/ \E j \in Jobs : Execute(c, j)
      <4>1. wpc' = wpc
        BY <3>3 DEF SpawnTest, AddJob, Execute, worker
      <4>2. QED
        BY <4>1
    <3>4. QED
      BY <1>3, <3>1, <3>2, <3>3 DEF ClientStep
  <2>3. QED
    BY <1>1, <2>1, <2>2
<1>4. ASSUME Shutdown \/ ShutdownStep
      PROVE  CountersExact'
  <2>1. UNCHANGED <<threadsAlive, threadsWorking>>
    BY <1>4 DEF Shutdown, ShutdownStep, DrainTest, StopThreads, ReapTest, ReapPost,
                ClearThreads, counts
  <2>2. \A v \in Workers : /\ wpc'[v] \in Alive <=> wpc[v] \in Alive
                           /\ wpc'[v] \in Busy <=> wpc[v] \in Busy
    <3>1. CASE ReapPost
      <4>1. \A v \in Workers : \/ wpc'[v] = wpc[v] /\ wpc[v] # "asleep"
                               \/ wpc[v] = "asleep" /\ wpc'[v] = "wait"
        BY <1>0, <3>1, PostAllEffect DEF ReapPost
      <4>2. QED
        BY <4>1 DEF Alive, Idle, Busy
    <3>2. CASE Shutdown \/ DrainTest \/ StopThreads \/ ReapTest \/ ClearThreads
      <4>1. wpc' = wpc
        BY <3>2 DEF Shutdown, DrainTest, StopThreads, ReapTest, ClearThreads, worker
      <4>2. QED
        BY <4>1
    <3>3. QED
      BY <1>4, <3>1, <3>2 DEF ShutdownStep
  <2>3. QED
    BY <1>1, <2>1, <2>2
<1>5. CASE UNCHANGED vars
  BY <1>5, <1>1 DEF vars, counts, worker
<1>6. QED
  BY <1>2, <1>3, <1>4, <1>5 DEF Next, Terminated

\* threadsAlive and threadsWorking are exact in every reachable state, for every
\* number of threads and whichever way they leave the loop.
THEOREM CountersCorrect == SafeSpec => []CountersExact
<1>1. Init => TypeOK /\ CountersExact
  BY TypeInit, CountersInit
<1>2. TypeOK /\ CountersExact /\ [Next]_vars => (TypeOK /\ CountersExact)'
  BY TypeStep, CountersStep
<1>3. QED
  BY <1>1, <1>2, PTL DEF SafeSpec

-----------------------------------------------------------------------------
(* The semaphore: no lost wake-up, no stranded job.                        *)

\* Whoever gives the permit wakes a sleeper; whoever falls asleep saw no permit.
LEMMA NotifiedStep == TypeOK /\ SleepersNotified /\ [Next]_vars => SleepersNotified'
<1> SUFFICES ASSUME TypeOK, SleepersNotified, [Next]_vars PROVE SleepersNotified'
  OBVIOUS
<1> USE DEF SleepersNotified, Sleepers, At
<1>0. wpc \in [Workers -> WorkerPC]
  BY DEF TypeOK
<1>1. \* the thread that posts wakes a sleeper, if there is one
      ASSUME NEW pcs \in [Workers -> WorkerPC], Post(pcs),
             \A v \in Workers : wpc[v] = "asleep" => pcs[v] = "asleep",
             \A v \in Workers : pcs[v] = "asleep" => wpc[v] = "asleep"
      PROVE  SleepersNotified'
  <2>1. PICK W \in Signalled : wpc' = Woken(pcs, W)
    BY <1>1 DEF Post
  <2>2. CASE Sleepers = {}
    <3>1. W = {}
      BY <2>1, <2>2 DEF Signalled
    <3>2. QED
      BY <1>1, <2>1, <2>2, <3>1 DEF Woken
  <2>3. CASE Sleepers # {}
    <3>1. PICK v \in Sleepers : W = {v}
      BY <2>1, <2>3 DEF Signalled
    <3>2. wpc'[v] = "wait" /\ v \in Workers
      BY <2>1, <3>1 DEF Woken
    <3>3. QED
      BY <3>2
  <2>4. QED
    BY <2>2, <2>3
<1>2. \* a step that leaves the permit, the sleepers and the woken threads alone
      ASSUME value' = value \/ value' = 0,
             \A v \in Workers : wpc'[v] = "asleep" => wpc[v] = "asleep",
             \A v \in Workers : wpc[v] = "wait" => wpc'[v] = "wait"
      PROVE  SleepersNotified'
  BY <1>2
<1>3. ASSUME NEW w \in Workers, WorkerStep(w) \/ SpuriousWakeup(w) \/ TimeOut(w)
      PROVE  SleepersNotified'
  <2> USE DEF Go
  <2>1. CASE Wait(w) \/ GiveUp(w)
    BY <2>1 DEF Wait, GiveUp
  <2>2. CASE RemovePost(w)
    <3>1. wpc[w] = "post" /\ Post([wpc EXCEPT ![w] = "run"])
      BY <2>2 DEF RemovePost
    <3>2. [wpc EXCEPT ![w] = "run"] \in [Workers -> WorkerPC]
      BY <1>0 DEF WorkerPC, Alive, Busy
    <3>3. QED
      BY <1>0, <1>1, <3>1, <3>2
  <2>3. CASE \/ EnterThread(w) \/ CountAlive(w) \/ LoopTest(w) \/ PermitTest(w)
             \/ CountWorking(w) \/ RemoveJob(w) \/ RunJob(w) \/ CountIdle(w)
             \/ CountDead(w) \/ Unlist(w) \/ SpuriousWakeup(w) \/ TimeOut(w)
    <3>1. value' = value
      BY <2>3 DEF EnterThread, CountAlive, LoopTest, PermitTest, CountWorking, RemoveJob,
        RunJob, CountIdle, CountDead, Unlist, SpuriousWakeup, TimeOut, queue
    <3>2. \A v \in Workers : /\ wpc'[v] = "asleep" => wpc[v] = "asleep"
                             /\ wpc[v] = "wait" => wpc'[v] = "wait"
      BY <1>0, <2>3 DEF EnterThread, CountAlive, LoopTest, PermitTest, CountWorking,
        RemoveJob, RunJob, CountIdle, CountDead, Unlist, SpuriousWakeup, TimeOut
    <3>3. QED
      BY <1>2, <3>1, <3>2
  <2>4. QED
    BY <1>3, <2>1, <2>2, <2>3 DEF WorkerStep
<1>4. ASSUME NEW c \in Clients, ClientStep(c) \/ \E j \in Jobs : Execute(c, j)
      PROVE  SleepersNotified'
  <2>1. CASE AddPost(c)
    BY <1>0, <1>1, <2>1 DEF AddPost
  <2>2. CASE SpawnThread(c)
    BY <1>0, <1>2, <2>2 DEF SpawnThread, queue
  <2>3. CASE SpawnTest(c) \/ AddJob(c) \/ \E j \in Jobs : Execute(c, j)
    BY <2>3 DEF SpawnTest, AddJob, Execute, worker, queue
  <2>4. QED
    BY <1>4, <2>1, <2>2, <2>3 DEF ClientStep
<1>5. ASSUME Shutdown \/ ShutdownStep
      PROVE  SleepersNotified'
  <2>1. CASE ReapPost
    BY <1>0, <2>1, PostAllEffect DEF ReapPost
  <2>2. CASE Shutdown \/ DrainTest \/ StopThreads \/ ReapTest \/ ClearThreads
    BY <2>2 DEF Shutdown, DrainTest, StopThreads, ReapTest, ClearThreads, worker, queue
  <2>3. QED
    BY <1>5, <2>1, <2>2 DEF ShutdownStep
<1>6. CASE UNCHANGED vars
  BY <1>6 DEF vars, worker, queue
<1>7. QED
  BY <1>3, <1>4, <1>5, <1>6 DEF Next, Terminated

\* The binary semaphore never loses a wake-up: the permit and a sleeper are
\* together only while another thread has been woken to take it.
THEOREM NoLostWakeup == SafeSpec => []SleepersNotified
<1>1. Init => TypeOK /\ SleepersNotified
  BY TypeInit DEF Init, SleepersNotified
<1>2. TypeOK /\ SleepersNotified /\ [Next]_vars => (TypeOK /\ SleepersNotified)'
  BY TypeStep, NotifiedStep
<1>3. QED
  BY <1>1, <1>2, PTL DEF SafeSpec

\* Threads that never time out are never about to give up.
Patient == At({"timedout"}) = {}

\* Without timeouts, whoever takes the permit goes on to the queue.
LEMMA StrandedStep ==
  ASSUME ~IdleWait
  PROVE  TypeOK /\ Patient /\ NoStrandedJob /\ [Next]_vars => (Patient /\ NoStrandedJob)'
<1> SUFFICES ASSUME TypeOK, Patient, NoStrandedJob, [Next]_vars
             PROVE  (Patient /\ NoStrandedJob)'
  OBVIOUS
<1> USE DEF Patient, NoStrandedJob, QueueLocked, At
<1>0. wpc \in [Workers -> WorkerPC] /\ cpc \in [Clients -> ClientPC]
  BY DEF TypeOK
<1>1. ASSUME NEW w \in Workers, WorkerStep(w) \/ SpuriousWakeup(w) \/ TimeOut(w)
      PROVE  (Patient /\ NoStrandedJob)'
  <2> USE DEF Go
  <2>1. CASE Wait(w)
    <3>1. jobs' = jobs /\ keepThreadsAlive' = keepThreadsAlive /\ cpc' = cpc
      BY <2>1 DEF Wait, flags, client
    <3>2. QED
      BY <1>0, <2>1, <3>1 DEF Wait, TypeOK
  <2>2. CASE GiveUp(w) \/ TimeOut(w)
    BY <2>2 DEF GiveUp, TimeOut
  <2>3. CASE RemovePost(w)
    <3> DEFINE pcs == [wpc EXCEPT ![w] = "run"]
    <3>1. pcs \in [Workers -> WorkerPC] /\ \A v \in Workers : pcs[v] = IF v = w THEN "run" ELSE wpc[v]
      BY <1>0 DEF WorkerPC, Alive, Busy
    <3>2. Post(pcs)
      BY <2>3 DEF RemovePost
    <3> HIDE DEF pcs
    <3>3. value' = 1 /\ \A v \in Workers : \/ wpc'[v] = pcs[v] \/ wpc'[v] = "wait"
      BY <3>1, <3>2, PostEffect
    <3>4. QED
      BY <3>1, <3>3
  <2>4. CASE RemoveJob(w)
    BY <1>0, <2>4 DEF RemoveJob, flags
  <2>5. CASE PermitTest(w)
    <3>1. UNCHANGED <<jobs, keepThreadsAlive, value, cpc>>
      BY <2>5 DEF PermitTest, flags, queue, client
    <3>2. QED
      BY <1>0, <2>5, <3>1 DEF PermitTest
  <2>6. CASE \/ EnterThread(w) \/ CountAlive(w) \/ LoopTest(w)
             \/ CountWorking(w) \/ RunJob(w) \/ CountIdle(w)
             \/ CountDead(w) \/ Unlist(w) \/ SpuriousWakeup(w)
    <3>1. UNCHANGED <<jobs, keepThreadsAlive, value, cpc>>
      BY <2>6 DEF EnterThread, CountAlive, LoopTest, CountWorking, RunJob, CountIdle,
        CountDead, Unlist, SpuriousWakeup, flags, queue, client
    <3>2. \A v \in Workers :
            /\ wpc[v] = "post" => wpc'[v] = "post"
            /\ wpc[v] \in {"permit", "begin", "remove"} => wpc'[v] \in {"permit", "begin", "remove"}
            /\ wpc'[v] = "timedout" => wpc[v] = "timedout"
      BY <1>0, <2>6 DEF EnterThread, CountAlive, LoopTest, CountWorking, RunJob, CountIdle,
        CountDead, Unlist, SpuriousWakeup
    <3>3. QED
      BY <3>1, <3>2
  <2>7. QED
    BY <1>1, <2>1, <2>2, <2>3, <2>4, <2>5, <2>6 DEF WorkerStep
<1>2. ASSUME NEW c \in Clients, ClientStep(c) \/ \E j \in Jobs : Execute(c, j)
      PROVE  (Patient /\ NoStrandedJob)'
  <2> USE DEF Goto
  <2>1. CASE AddPost(c)
    <3>1. value' = 1 /\ \A v \in Workers : \/ wpc'[v] = wpc[v] \/ wpc'[v] = "wait"
      BY <1>0, <2>1, PostEffect DEF AddPost
    <3>2. QED
      BY <3>1
  <2>2. CASE AddJob(c)
    BY <1>0, <2>2 DEF AddJob, worker
  <2>3. CASE SpawnThread(c)
    <3>1. UNCHANGED <<jobs, keepThreadsAlive, value>>
      BY <2>3 DEF SpawnThread, flags, queue
    <3>2. QED
      BY <1>0, <2>3, <3>1 DEF SpawnThread
  <2>4. CASE SpawnTest(c) \/ \E j \in Jobs : Execute(c, j)
    <3>1. UNCHANGED <<jobs, keepThreadsAlive, value, wpc>>
      BY <2>4 DEF SpawnTest, Execute, flags, queue, worker
    <3>2. \A d \in Clients : cpc[d] = "post" => cpc'[d] = "post"
      BY <1>0, <2>4 DEF SpawnTest, Execute
    <3>3. QED
      BY <3>1, <3>2
  <2>5. QED
    BY <1>2, <2>1, <2>2, <2>3, <2>4 DEF ClientStep
<1>3. ASSUME Shutdown \/ ShutdownStep
      PROVE  (Patient /\ NoStrandedJob)'
  <2>1. CASE ReapPost
    BY <1>0, <2>1, PostAllEffect DEF ReapPost
  <2>2. CASE StopThreads
    BY <2>2 DEF StopThreads, worker
  <2>3. CASE Shutdown \/ DrainTest \/ ReapTest \/ ClearThreads
    BY <2>3 DEF Shutdown, DrainTest, ReapTest, ClearThreads, worker, queue, client, flags
  <2>4. QED
    BY <1>3, <2>1, <2>2, <2>3 DEF ShutdownStep
<1>4. CASE UNCHANGED vars
  BY <1>4 DEF vars, worker, queue, client, flags
<1>5. QED
  BY <1>1, <1>2, <1>3, <1>4 DEF Next, Terminated

\* In a pool without an idle timeout a queued job always has somebody coming
\* for it: one permit is enough for any number of jobs, because every Remove
\* that finds one passes the permit on.
THEOREM NothingStranded ==
  ASSUME ~IdleWait
  PROVE  SafeSpec => []NoStrandedJob
<1>1. Init => TypeOK /\ Patient /\ NoStrandedJob
  BY TypeInit DEF Init, Patient, NoStrandedJob, At
<1>2. TypeOK /\ Patient /\ NoStrandedJob /\ [Next]_vars => (TypeOK /\ Patient /\ NoStrandedJob)'
  BY TypeStep, StrandedStep
<1>3. QED
  BY <1>1, <1>2, PTL DEF SafeSpec

-----------------------------------------------------------------------------
(***************************************************************************)
(* ThreadPool implements Executor: what each step does to the jobs, the    *)
(* invariants that follow, the refinement.                                 *)
(***************************************************************************)

(* Every step is one of five kinds, seen from the jobs.                    *)

\* Thread w takes the oldest job out of the queue.
Takes(w) ==
  /\ jobs # <<>>
  /\ wpc[w] = "remove"
  /\ Holding' = Holding \cup {w}
  /\ job' = [job EXCEPT ![w] = Head(jobs)]
  /\ jobs' = Tail(jobs)
  /\ UNCHANGED <<finished, client, closing>>

\* The job of thread w returns.
Completes(w) ==
  /\ w \in Holding
  /\ Holding' = Holding \ {w}
  /\ job' = [job EXCEPT ![w] = NoJob]
  /\ finished' = finished \cup {job[w]}
  /\ UNCHANGED <<jobs, client, closing>>

\* Client c appends its job to the queue.
Queues(c) ==
  /\ cpc[c] = "add"
  /\ cpc' = [cpc EXCEPT ![c] = "post"]
  /\ jobs' = Append(jobs, call[c])
  /\ UNCHANGED <<Holding, job, finished, call, closing>>

\* Client c begins a call with a job of its own.
Begins(c, j) ==
  /\ j \notin Submitted \cup InCall
  /\ cpc[c] = "idle"
  /\ cpc' = [cpc EXCEPT ![c] = IF Cached THEN "count" ELSE "add"]
  /\ call' = [call EXCEPT ![c] = j]
  /\ UNCHANGED <<Holding, job, jobs, finished, closing>>

\* The jobs stay where they are; a call in progress stays itself or ends.
Rests ==
  /\ UNCHANGED <<Holding, job, jobs, finished>>
  /\ \A c \in Clients : cpc'[c] # "idle" => cpc[c] # "idle" /\ call'[c] = call[c]
  /\ \A c \in Clients :
       cpc'[c] \in {"count", "spawn", "add"} => cpc[c] \in {"count", "spawn", "add"}

\* The steps of shutdown(), seen from the jobs; all other steps leave it alone.
Closes ==
  \/ Shutdown \/ DrainTest \/ StopThreads \/ ReapTest \/ ReapPost \/ ClearThreads

\* Every step of the pool is of one of these kinds.
LEMMA StepKinds ==
  ASSUME TypeOK, [Next]_vars
  PROVE  \/ \E w \in Workers : Takes(w) \/ Completes(w)
         \/ \E c \in Clients : Queues(c) \/ \E j \in Jobs : Begins(c, j)
         \/ Rests /\ (Closes \/ UNCHANGED closing)
<1>0. wpc \in [Workers -> WorkerPC] /\ cpc \in [Clients -> ClientPC]
  BY DEF TypeOK
<1>1. ASSUME NEW w \in Workers, WorkerStep(w) \/ SpuriousWakeup(w) \/ TimeOut(w)
      PROVE  Takes(w) \/ Completes(w) \/ (Rests /\ UNCHANGED closing)
  <2> USE DEF Go
  <2>1. CASE RemoveJob(w) /\ jobs # <<>>
    <3>1. Holding' = Holding \cup {w}
      BY <1>0, <2>1 DEF RemoveJob, Holding, At
    <3>2. Takes(w)
      BY <2>1, <3>1 DEF RemoveJob, Takes
    <3>3. QED
      BY <3>2
  <2>2. CASE RunJob(w)
    <3>1. Holding' = Holding \ {w} /\ w \in Holding
      BY <1>0, <2>2 DEF RunJob, Holding, At
    <3>2. Completes(w)
      BY <2>2, <3>1 DEF RunJob, Completes, queue
    <3>3. QED
      BY <3>2
  <2>3. CASE RemovePost(w)
    <3> DEFINE pcs == [wpc EXCEPT ![w] = "run"]
    <3>1. /\ pcs \in [Workers -> WorkerPC]
          /\ \A v \in Workers : pcs[v] = IF v = w THEN "run" ELSE wpc[v]
      BY <1>0 DEF WorkerPC, Alive, Busy
    <3>2. wpc[w] = "post" /\ Post(pcs) /\ UNCHANGED <<job, jobs, finished, client, closing>>
      BY <2>3 DEF RemovePost
    <3> HIDE DEF pcs
    <3>3. \A v \in Workers : \/ wpc'[v] = pcs[v]
                             \/ wpc[v] = "asleep" /\ wpc'[v] = "wait"
      BY <3>1, <3>2, PostEffect
    <3>4. Holding' = Holding
      BY <3>1, <3>2, <3>3 DEF Holding, At
    <3>5. QED
      BY <3>2, <3>4 DEF Rests, client
  <2>4. CASE \/ EnterThread(w) \/ CountAlive(w) \/ LoopTest(w) \/ Wait(w) \/ GiveUp(w)
             \/ PermitTest(w) \/ CountWorking(w) \/ (RemoveJob(w) /\ jobs = <<>>)
             \/ CountIdle(w) \/ CountDead(w) \/ Unlist(w) \/ SpuriousWakeup(w) \/ TimeOut(w)
    <3>1. UNCHANGED <<jobs, job, finished, client, closing>>
      BY <2>4 DEF EnterThread, CountAlive, LoopTest, Wait, GiveUp, PermitTest, CountWorking,
        RemoveJob, CountIdle, CountDead, Unlist, SpuriousWakeup, TimeOut, queue
    <3>2. Holding' = Holding
      BY <1>0, <2>4 DEF EnterThread, CountAlive, LoopTest, Wait, GiveUp, PermitTest,
        CountWorking, RemoveJob, CountIdle, CountDead, Unlist, SpuriousWakeup, TimeOut,
        Holding, At
    <3>3. QED
      BY <3>1, <3>2 DEF Rests, client
  <2>5. QED
    BY <1>1, <2>1, <2>2, <2>3, <2>4 DEF WorkerStep
<1>2. ASSUME NEW c \in Clients, NEW j \in Jobs, Execute(c, j)
      PROVE  Begins(c, j)
  BY <1>2 DEF Execute, Begins, Goto, worker, queue, Holding, At
<1>3. ASSUME NEW c \in Clients, ClientStep(c)
      PROVE  Queues(c) \/ (Rests /\ UNCHANGED closing)
  <2>1. CASE AddJob(c)
    BY <2>1 DEF AddJob, Queues, Goto, worker, Holding, At
  <2>2. CASE SpawnTest(c)
    <3>1. UNCHANGED <<Holding, job, jobs, finished, call, closing>>
      BY <2>2 DEF SpawnTest, worker, queue, Holding, At
    <3>2. QED
      BY <1>0, <2>2, <3>1 DEF SpawnTest, Goto, Rests
  <2>3. CASE SpawnThread(c)
    <3>1. UNCHANGED <<job, jobs, finished, call, closing>>
      BY <2>3 DEF SpawnThread, queue
    <3>2. Holding' = Holding
      BY <1>0, <2>3 DEF SpawnThread, Holding, At
    <3>3. QED
      BY <1>0, <2>3, <3>1, <3>2 DEF SpawnThread, Goto, Rests
  <2>4. CASE AddPost(c)
    <3>1. \A v \in Workers : \/ wpc'[v] = wpc[v]
                             \/ wpc[v] = "asleep" /\ wpc'[v] = "wait"
      BY <1>0, <2>4, PostEffect DEF AddPost
    <3>2. Holding' = Holding
      BY <3>1 DEF Holding, At
    <3>3. \A d \in Clients : cpc'[d] # "idle" => cpc'[d] = cpc[d] /\ call'[d] = call[d]
      BY <1>0, <2>4 DEF AddPost, Goto, TypeOK
    <3>4. QED
      BY <2>4, <3>2, <3>3 DEF AddPost, Rests
  <2>5. QED
    BY <1>3, <2>1, <2>2, <2>3, <2>4 DEF ClientStep
<1>4. ASSUME Shutdown \/ ShutdownStep
      PROVE  Rests /\ Closes
  <2>1. Closes
    BY <1>4 DEF ShutdownStep, Closes
  <2>2. UNCHANGED <<job, jobs, finished, client>>
    BY <1>4 DEF ShutdownStep, Shutdown, DrainTest, StopThreads, ReapTest, ReapPost,
      ClearThreads, queue, worker
  <2>3. Holding' = Holding
    <3>1. CASE ReapPost
      <4>1. \A v \in Workers : \/ wpc'[v] = wpc[v] /\ wpc[v] # "asleep"
                               \/ wpc[v] = "asleep" /\ wpc'[v] = "wait"
        BY <1>0, <3>1, PostAllEffect DEF ReapPost
      <4>2. QED
        BY <4>1 DEF Holding, At
    <3>2. CASE ~ReapPost
      BY <1>4, <3>2 DEF ShutdownStep, Shutdown, DrainTest, StopThreads, ReapTest,
        ClearThreads, worker, Holding, At
    <3>3. QED
      BY <3>1, <3>2
  <2>4. QED
    BY <2>1, <2>2, <2>3 DEF Rests, client
<1>5. CASE UNCHANGED vars
  BY <1>5 DEF vars, worker, queue, client, closing, Rests, Holding, At
<1>6. QED
  BY <1>1, <1>2, <1>3, <1>4, <1>5 DEF Next, Terminated

-----------------------------------------------------------------------------
(* A job is in one place at a time.                                        *)

\* Taking the oldest job moves it from the queue to the threads' hands.
LEMMA TakesEffect ==
  ASSUME TypeOK, JobsOnce, NEW w \in Workers, Takes(w)
  PROVE  /\ Head(jobs) \in Queued
         /\ Queued' = Queued \ {Head(jobs)}
         /\ Held' = Held \cup {Head(jobs)}
         /\ w \notin Holding
         /\ \A v \in Holding' : job'[v] = IF v = w THEN Head(jobs) ELSE job[v]
<1> USE DEF Takes
<1>1. jobs \in Seq(Jobs) /\ jobs # <<>> /\ \A i, k \in DOMAIN jobs : jobs[i] = jobs[k] => i = k
  BY DEF TypeOK, JobsOnce
<1>2. Head(jobs) = jobs[1] /\ 1 \in DOMAIN jobs
  BY <1>1
<1>3. \A i \in DOMAIN jobs' : jobs'[i] = jobs[i + 1] /\ i + 1 \in DOMAIN jobs /\ i + 1 # 1
  BY <1>1
<1>4. \A i \in DOMAIN jobs : i # 1 => i - 1 \in DOMAIN jobs' /\ jobs[i] = jobs'[i - 1]
  BY <1>1
<1>5. Queued' = Queued \ {Head(jobs)}
  <2>1. Queued' = {jobs'[i] : i \in DOMAIN jobs'} /\ Queued = {jobs[i] : i \in DOMAIN jobs}
    BY DEF Queued
  <2> HIDE DEF Takes
  <2>2. Queued' \subseteq Queued \ {Head(jobs)}
    <3>1. ASSUME NEW i \in DOMAIN jobs' PROVE jobs'[i] \in Queued /\ jobs'[i] # Head(jobs)
      BY <1>1, <1>2, <1>3, <2>1
    <3>2. QED
      BY <3>1, <2>1
  <2>3. Queued \ {Head(jobs)} \subseteq Queued'
    <3>1. ASSUME NEW i \in DOMAIN jobs, jobs[i] # Head(jobs) PROVE jobs[i] \in Queued'
      BY <3>1, <1>2, <1>4, <2>1
    <3>2. QED
      BY <3>1, <2>1
  <2>4. QED
    BY <2>2, <2>3
<1>6. w \notin Holding
  BY DEF Holding, At
<1>7. \A v \in Holding' : job'[v] = IF v = w THEN Head(jobs) ELSE job[v]
  <2>1. Holding' \subseteq Workers /\ job \in [Workers -> Jobs \cup {NoJob}]
    BY DEF Holding, At, TypeOK
  <2>2. QED
    BY <2>1
<1>8. Held' = Held \cup {Head(jobs)}
  BY <1>6, <1>7 DEF Held
<1>9. QED
  BY <1>2, <1>5, <1>6, <1>7, <1>8 DEF Queued

\* A job that returns moves from the threads' hands to the finished ones.
LEMMA CompletesEffect ==
  ASSUME TypeOK, JobsOnce, NEW w \in Workers, Completes(w)
  PROVE  /\ job[w] \in Held
         /\ Queued' = Queued
         /\ Held' = Held \ {job[w]}
         /\ \A v \in Holding' : v \in Holding /\ v # w /\ job'[v] = job[v]
<1> USE DEF Completes
<1>1. \A v \in Holding' : v \in Holding /\ v # w /\ job'[v] = job[v]
  <2>1. Holding' \subseteq Workers /\ job \in [Workers -> Jobs \cup {NoJob}]
    BY DEF Holding, At, TypeOK
  <2>2. QED
    BY <2>1
<1>2. \A v \in Holding : v # w => v \in Holding' /\ job[v] # job[w]
  BY DEF JobsOnce
<1>3. Held' = Held \ {job[w]}
  BY <1>1, <1>2 DEF Held
<1>4. QED
  BY <1>1, <1>3 DEF Held, Queued

\* Appending a job adds it to the queue.
LEMMA QueuesEffect ==
  ASSUME TypeOK, NEW c \in Clients, Queues(c)
  PROVE  /\ call[c] \in Jobs
         /\ Queued' = Queued \cup {call[c]}
         /\ Held' = Held
         /\ \A i, k \in DOMAIN jobs' :
              jobs'[i] = jobs'[k] => i = k \/ call[c] \in Queued
                \/ (i \in DOMAIN jobs /\ k \in DOMAIN jobs /\ jobs[i] = jobs[k])
<1> USE DEF Queues
<1>1. jobs \in Seq(Jobs) /\ call[c] \in Jobs
  BY DEF TypeOK
<1>2. \A i \in DOMAIN jobs' : \/ i \in DOMAIN jobs /\ jobs'[i] = jobs[i]
                              \/ i = Len(jobs) + 1 /\ jobs'[i] = call[c]
  BY <1>1
<1>3. /\ \A i \in DOMAIN jobs : i \in DOMAIN jobs' /\ jobs'[i] = jobs[i]
      /\ Len(jobs) + 1 \in DOMAIN jobs' /\ jobs'[Len(jobs) + 1] = call[c]
  BY <1>1
<1>4. Queued' = Queued \cup {call[c]}
  BY <1>2, <1>3 DEF Queued
<1>5. Held' = Held
  BY DEF Held
<1>6. QED
  BY <1>1, <1>2, <1>4, <1>5 DEF Queued

\* A step that rests moves no job.
LEMMA RestsEffect ==
  ASSUME Rests
  PROVE  Queued' = Queued /\ Held' = Held /\ Submitted' = Submitted
BY DEF Rests, Queued, Held, Submitted

\* There are no jobs at first.
LEMMA OnceInit == Init => JobsOnce
BY DEF Init, JobsOnce, Holding, At, Queued, Held

\* Each kind of step moves a job from one place to the next.
LEMMA OnceStep == TypeOK /\ JobsOnce /\ [Next]_vars => JobsOnce'
<1> SUFFICES ASSUME TypeOK, JobsOnce, [Next]_vars PROVE JobsOnce'
  OBVIOUS
<1>1. ASSUME NEW w \in Workers, Takes(w) PROVE JobsOnce'
  <2> USE TakesEffect, <1>1
  <2>1. \A i, k \in DOMAIN jobs' : jobs'[i] = jobs'[k] => i = k
    <3>1. jobs \in Seq(Jobs) /\ jobs # <<>> /\ jobs' = Tail(jobs)
      BY DEF TypeOK, Takes
    <3>2. QED
      BY <3>1 DEF JobsOnce
  <2>2. \A u, v \in Holding' : job'[u] = job'[v] => u = v
    <3>1. \A v \in Holding : job[v] # Head(jobs)
      BY DEF JobsOnce, Held
    <3>2. Holding' = Holding \cup {w}
      BY DEF Takes
    <3>3. QED
      BY <3>1, <3>2 DEF JobsOnce
  <2>3. Submitted' = Submitted /\ cpc' = cpc /\ call' = call /\ finished' = finished
    BY DEF Submitted, Takes, client
  <2>4. QED
    BY <2>1, <2>2, <2>3 DEF JobsOnce
<1>2. ASSUME NEW w \in Workers, Completes(w) PROVE JobsOnce'
  <2> USE CompletesEffect, <1>2
  <2>1. /\ jobs' = jobs /\ cpc' = cpc /\ call' = call
        /\ finished' = finished \cup {job[w]}
    BY DEF Completes, client
  <2>2. Submitted' = Submitted
    BY <2>1 DEF Submitted
  <2>3. QED
    BY <2>1, <2>2 DEF JobsOnce
<1>3. ASSUME NEW c \in Clients, Queues(c) PROVE JobsOnce'
  <2> USE QueuesEffect, <1>3
  <2>1. /\ cpc[c] = "add" /\ cpc' = [cpc EXCEPT ![c] = "post"] /\ call' = call
        /\ finished' = finished /\ Holding' = Holding /\ job' = job
    BY DEF Queues
  <2>2. call[c] \notin Queued \cup Held \cup finished
    BY <2>1 DEF JobsOnce, Submitted
  <2>3. cpc \in [Clients -> ClientPC]
    BY DEF TypeOK
  <2>4. \A i, k \in DOMAIN jobs' : jobs'[i] = jobs'[k] => i = k
    BY <2>2 DEF JobsOnce
  <2>5. \A d, e \in Clients :
          cpc'[d] # "idle" /\ cpc'[e] # "idle" /\ call'[d] = call'[e] => d = e
    BY <2>1, <2>3 DEF JobsOnce
  <2>6. \A d \in Clients : cpc'[d] \in {"count", "spawn", "add"} => call'[d] \notin Submitted'
    <3>1. Submitted' = Submitted \cup {call[c]}
      BY <2>1 DEF Submitted
    <3>2. QED
      BY <2>1, <2>3, <3>1 DEF JobsOnce
  <2>7. QED
    BY <2>1, <2>2, <2>4, <2>5, <2>6 DEF JobsOnce
<1>4. ASSUME NEW c \in Clients, NEW j \in Jobs, Begins(c, j) PROVE JobsOnce'
  <2> USE <1>4
  <2>1. /\ Holding' = Holding /\ job' = job /\ jobs' = jobs /\ finished' = finished
        /\ j \notin Submitted /\ j \notin InCall /\ cpc[c] = "idle"
        /\ cpc' = [cpc EXCEPT ![c] = IF Cached THEN "count" ELSE "add"]
        /\ call' = [call EXCEPT ![c] = j]
    BY DEF Begins
  <2>2. Queued' = Queued /\ Held' = Held /\ Submitted' = Submitted
    BY <2>1 DEF Queued, Held, Submitted
  <2>3. /\ cpc \in [Clients -> ClientPC]
        /\ call \in [Clients -> Jobs \cup {NoJob}]
    BY DEF TypeOK
  <2>4. \A d \in Clients : cpc[d] # "idle" => call[d] # j
    BY <2>1 DEF InCall
  <2>5. QED
    BY <2>1, <2>2, <2>3, <2>4 DEF JobsOnce
<1>5. ASSUME Rests PROVE JobsOnce'
  BY <1>5, RestsEffect DEF Rests, JobsOnce
<1>6. QED
  BY <1>1, <1>2, <1>3, <1>4, <1>5, StepKinds

\* No job is run twice or by two threads, and none is queued after it has been
\* started, however the threads and the callers interleave.
THEOREM JobsOnceCorrect == SafeSpec => []JobsOnce
<1>1. Init => TypeOK /\ JobsOnce
  BY TypeInit, OnceInit
<1>2. TypeOK /\ JobsOnce /\ [Next]_vars => (TypeOK /\ JobsOnce)'
  BY TypeStep, OnceStep
<1>3. QED
  BY <1>1, <1>2, PTL DEF SafeSpec

-----------------------------------------------------------------------------
(* shutdown(): what it has achieved at each of its steps.                  *)

\* Positions past the loop's test of keepThreadsAlive.
InLoop == Alive \ {"loop", "leaving"}

\* Once the loop has been told to stop, no thread enters it any more.
LEMMA LoopStaysEmpty ==
  ASSUME TypeOK, [Next]_vars, ~keepThreadsAlive
  PROVE  /\ ~keepThreadsAlive'
         /\ At(InLoop) = {} => At(InLoop)' = {}
<1>0. wpc \in [Workers -> WorkerPC]
  BY DEF TypeOK
<1>1. ~keepThreadsAlive'
  <2>1. ASSUME NEW w \in Workers, WorkerStep(w) \/ SpuriousWakeup(w) \/ TimeOut(w)
        PROVE  keepThreadsAlive' = keepThreadsAlive
    BY <2>1 DEF WorkerStep, SpuriousWakeup, TimeOut, EnterThread, CountAlive, LoopTest, Wait,
      GiveUp, PermitTest, CountWorking, RemoveJob, RemovePost, RunJob, CountIdle, CountDead,
      Unlist, flags
  <2>2. ASSUME NEW c \in Clients, ClientStep(c) \/ \E j \in Jobs : Execute(c, j)
        PROVE  keepThreadsAlive' = keepThreadsAlive
    BY <2>2 DEF ClientStep, Execute, SpawnTest, SpawnThread, AddJob, AddPost, flags
  <2>3. ASSUME Shutdown \/ ShutdownStep
        PROVE  keepThreadsAlive' = keepThreadsAlive \/ keepThreadsAlive' = FALSE
    BY <2>3 DEF Shutdown, ShutdownStep, DrainTest, StopThreads, ReapTest, ReapPost,
      ClearThreads, flags
  <2>4. QED
    BY <2>1, <2>2, <2>3 DEF Next, Terminated, vars, flags
<1>2. ASSUME \A v \in Workers : wpc[v] \notin InLoop
      PROVE  \A v \in Workers : wpc'[v] \notin InLoop
  <2> USE <1>2 DEF InLoop, Alive, Idle, Busy
  <2>1. ASSUME NEW w \in Workers, WorkerStep(w) \/ SpuriousWakeup(w) \/ TimeOut(w)
        PROVE  \A v \in Workers : wpc'[v] \notin InLoop
    <3> USE DEF Go
    <3>1. CASE EnterThread(w) \/ CountAlive(w) \/ LoopTest(w) \/ CountDead(w) \/ Unlist(w)
      BY <1>0, <3>1 DEF EnterThread, CountAlive, LoopTest, CountDead, Unlist
    <3>2. CASE \/ Wait(w) \/ GiveUp(w) \/ PermitTest(w) \/ CountWorking(w) \/ RemoveJob(w)
               \/ RemovePost(w) \/ RunJob(w) \/ CountIdle(w) \/ SpuriousWakeup(w) \/ TimeOut(w)
      BY <3>2 DEF Wait, GiveUp, PermitTest, CountWorking, RemoveJob, RemovePost, RunJob,
        CountIdle, SpuriousWakeup, TimeOut
    <3>3. QED
      BY <2>1, <3>1, <3>2 DEF WorkerStep
  <2>2. ASSUME NEW c \in Clients, ClientStep(c) \/ \E j \in Jobs : Execute(c, j)
        PROVE  \A v \in Workers : wpc'[v] \notin InLoop
    <3>1. CASE AddPost(c)
      BY <1>0, <3>1, PostEffect DEF AddPost
    <3>2. CASE SpawnThread(c)
      BY <1>0, <3>2 DEF SpawnThread
    <3>3. CASE SpawnTest(c) \/ AddJob(c) \/ \E j \in Jobs : Execute(c, j)
      <4>1. wpc' = wpc
        BY <3>3 DEF SpawnTest, AddJob, Execute, worker
      <4>2. QED
        BY <4>1
    <3>4. QED
      BY <2>2, <3>1, <3>2, <3>3 DEF ClientStep
  <2>3. ASSUME Shutdown \/ ShutdownStep
        PROVE  \A v \in Workers : wpc'[v] \notin InLoop
    <3>1. CASE ReapPost
      BY <1>0, <3>1, PostAllEffect DEF ReapPost
    <3>2. CASE Shutdown \/ DrainTest \/ StopThreads \/ ReapTest \/ ClearThreads
      <4>1. wpc' = wpc
        BY <3>2 DEF Shutdown, DrainTest, StopThreads, ReapTest, ClearThreads, worker
      <4>2. QED
        BY <4>1
    <3>3. QED
      BY <2>3, <3>1, <3>2 DEF ShutdownStep
  <2>4. CASE UNCHANGED vars
    BY <2>4 DEF vars, worker
  <2>5. QED
    BY <2>1, <2>2, <2>3, <2>4 DEF Next, Terminated
<1>3. QED
  BY <1>1, <1>2 DEF At

\* Seen from the jobs, the steps that are not shutdown()'s only move them on.
LEMMA JobsMoveOn ==
  ASSUME TypeOK, JobsOnce, [Next]_vars, ~(Rests /\ Closes)
  PROVE  /\ UNCHANGED closing
         /\ Submitted \subseteq Submitted'
         /\ Held \cup finished \subseteq Held' \cup finished'
         /\ finished \subseteq finished'
<1>1. ASSUME NEW w \in Workers, Takes(w)
      PROVE  Held' = Held \cup {Head(jobs)} /\ finished' = finished /\ UNCHANGED closing
             /\ Queued' = Queued \ {Head(jobs)}
  BY <1>1, TakesEffect DEF Takes
<1>2. ASSUME NEW w \in Workers, Completes(w)
      PROVE  Held' = Held \ {job[w]} /\ finished' = finished \cup {job[w]}
             /\ UNCHANGED closing /\ Queued' = Queued
  BY <1>2, CompletesEffect DEF Completes
<1>3. ASSUME NEW c \in Clients, Queues(c)
      PROVE  Held' = Held /\ finished' = finished /\ UNCHANGED closing
             /\ Queued' = Queued \cup {call[c]}
  BY <1>3, QueuesEffect DEF Queues
<1>4. ASSUME NEW c \in Clients, NEW j \in Jobs, Begins(c, j)
      PROVE  Held' = Held /\ finished' = finished /\ UNCHANGED closing /\ Queued' = Queued
  BY <1>4 DEF Begins, Held, Queued
<1>5. ASSUME Rests
      PROVE  Held' = Held /\ finished' = finished /\ Queued' = Queued
  BY <1>5, RestsEffect DEF Rests
<1>6. QED
  BY <1>1, <1>2, <1>3, <1>4, <1>5, StepKinds DEF Submitted

\* At first nothing has been promised.
LEMMA StagesInit == Init => ShutdownStages
BY DEF Init, ShutdownStages

\* Each stage of shutdown() hands on what the next one needs: while jobs move on,
\* what was promised stays in the places that the stage allows.
LEMMA StagesStep ==
  TypeOK /\ CountersExact /\ JobsOnce /\ ShutdownStages /\ [Next]_vars => ShutdownStages'
<1> SUFFICES ASSUME TypeOK, CountersExact, JobsOnce, ShutdownStages, [Next]_vars
             PROVE  ShutdownStages'
  OBVIOUS
<1>1. sdpc \in {"reap", "wake", "clear", "done"} => ~keepThreadsAlive'
  BY LoopStaysEmpty DEF ShutdownStages
<1>2. sdpc \in {"clear", "done"} => At(InLoop)' = {}
  BY LoopStaysEmpty DEF ShutdownStages, InLoop
<1>3. CASE ~(Rests /\ Closes)
  BY <1>1, <1>2, <1>3, JobsMoveOn DEF closing, ShutdownStages, InLoop
<1>4. CASE Rests /\ Closes
  <2>1. Held' = Held /\ finished' = finished /\ Submitted' = Submitted
    BY <1>4, RestsEffect DEF Rests
  <2>2. CASE Shutdown
    BY <2>1, <2>2 DEF Shutdown, ShutdownStages
  <2>3. CASE DrainTest
    <3>1. Submitted = Held \cup finished
      BY <2>3 DEF DrainTest, Submitted, Queued
    <3>2. QED
      BY <2>1, <2>3, <3>1 DEF DrainTest, ShutdownStages
  <2>4. CASE StopThreads
    BY <2>1, <2>4 DEF StopThreads, ShutdownStages
  <2>5. CASE ReapTest
    <3>1. CASE threadsAlive = 0
      <4>1. At(Alive) = {}
        <5>1. IsFiniteSet(At(Alive))
          BY PoolAssumption, FS_Subset DEF PoolAssumption, At
        <5>2. QED
          BY <5>1, <3>1, FS_EmptySet DEF CountersExact
      <4>2. Held = {} /\ At(InLoop) = {}
        BY <4>1 DEF Held, Holding, At, InLoop, Alive, Busy
      <4>3. wpc' = wpc /\ promised' = promised
        BY <2>5 DEF ReapTest, worker
      <4>4. At(InLoop)' = {}
        BY <4>2, <4>3 DEF At
      <4>5. QED
        BY <1>1, <2>1, <2>5, <3>1, <4>2, <4>3, <4>4 DEF ReapTest, ShutdownStages, InLoop
    <3>2. CASE threadsAlive # 0
      BY <1>1, <2>1, <2>5, <3>2 DEF ReapTest, ShutdownStages
    <3>3. QED
      BY <3>1, <3>2
  <2>6. CASE ReapPost
    BY <1>1, <2>1, <2>6 DEF ReapPost, ShutdownStages
  <2>7. CASE ClearThreads
    BY <1>1, <1>2, <2>1, <2>7 DEF ClearThreads, ShutdownStages, InLoop
  <2>8. QED
    BY <1>4, <2>2, <2>3, <2>4, <2>5, <2>6, <2>7 DEF Closes
<1>5. QED
  BY <1>3, <1>4

\* The inductive invariant of the pool.
PoolInv == TypeOK /\ CountersExact /\ JobsOnce /\ ShutdownStages

\* The four parts together are inductive.
LEMMA PoolInvCorrect == SafeSpec => []PoolInv
<1>1. Init => PoolInv
  BY TypeInit, CountersInit, OnceInit, StagesInit DEF PoolInv
<1>2. PoolInv /\ [Next]_vars => PoolInv'
  BY TypeStep, CountersStep, OnceStep, StagesStep DEF PoolInv
<1>3. QED
  BY <1>1, <1>2, PTL DEF SafeSpec

\* When shutdown() has seen the last thread leave, everything submitted before
\* it was called has been run, for every number of threads, callers and jobs,
\* and for cached pools with idle timeouts too.
THEOREM ShutdownKeepsPromise == SafeSpec => []PromiseKept
<1>1. PoolInv => PromiseKept
  BY DEF PoolInv, ShutdownStages, PromiseKept
<1>2. QED
  BY <1>1, PoolInvCorrect, PTL

-----------------------------------------------------------------------------
(* The refinement.                                                         *)

\* The pool begins where Executor begins.
LEMMA ContractInit == Init => Contract!Init
BY DEF Init, Contract!Init, Held, Holding, At

\* Each kind of step is a step of Executor, or stutters.
LEMMA ContractStep == PoolInv /\ [Next]_vars => [Contract!Next]_(Contract!vars)
<1> SUFFICES ASSUME PoolInv, [Next]_vars PROVE [Contract!Next]_(Contract!vars)
  OBVIOUS
<1> USE DEF PoolInv, Contract!vars
<1>0. Contract!Accepted = Submitted
  BY DEF Contract!Accepted, Contract!Pending, Submitted, Queued
<1>1. ASSUME NEW w \in Workers, Takes(w) PROVE Contract!Start
  <2>1. sdpc # "done"
    <3>1. w \in At(InLoop)
      BY <1>1 DEF Takes, At, InLoop, Alive, Busy
    <3>2. QED
      BY <3>1 DEF ShutdownStages, InLoop
  <2>2. Held' = Held \cup {Head(jobs)}
    BY <1>1, TakesEffect
  <2>3. /\ jobs # <<>> /\ jobs' = Tail(jobs)
        /\ finished' = finished /\ sdpc' = sdpc /\ promised' = promised
    BY <1>1 DEF Takes, closing
  <2>4. QED
    BY <2>1, <2>2, <2>3 DEF Contract!Start
<1>2. ASSUME NEW w \in Workers, Completes(w) PROVE \E j \in Jobs : Contract!Finish(j)
  <2>1. job[w] \in Held /\ Held' = Held \ {job[w]}
    BY <1>2, CompletesEffect
  <2>2. job[w] \in Jobs
    BY <1>2 DEF Completes, TypeOK
  <2>3. /\ jobs' = jobs /\ finished' = finished \cup {job[w]}
        /\ sdpc' = sdpc /\ promised' = promised
    BY <1>2 DEF Completes, closing
  <2>4. Contract!Finish(job[w])
    BY <2>1, <2>3 DEF Contract!Finish
  <2>5. QED
    BY <2>2, <2>4
<1>3. ASSUME NEW c \in Clients, Queues(c) PROVE \E j \in Jobs : Contract!Accept(j)
  <2>1. call[c] \in Jobs /\ Held' = Held
    BY <1>3, QueuesEffect
  <2>2. call[c] \notin Contract!Accepted
    BY <1>0, <1>3 DEF Queues, JobsOnce
  <2>3. /\ jobs' = Append(jobs, call[c]) /\ finished' = finished
        /\ sdpc' = sdpc /\ promised' = promised
    BY <1>3 DEF Queues, closing
  <2>4. Contract!Accept(call[c])
    BY <2>1, <2>2, <2>3 DEF Contract!Accept
  <2>5. QED
    BY <2>1, <2>4
<1>4. ASSUME NEW c \in Clients, NEW j \in Jobs, Begins(c, j) PROVE UNCHANGED Contract!vars
  <2>1. Held' = Held /\ jobs' = jobs /\ finished' = finished /\ sdpc' = sdpc /\ promised' = promised
    BY <1>4 DEF Begins, Held, closing
  <2>2. QED
    BY <2>1
<1>5. ASSUME Rests, UNCHANGED closing PROVE UNCHANGED Contract!vars
  <2>1. Held' = Held /\ jobs' = jobs /\ finished' = finished /\ sdpc' = sdpc /\ promised' = promised
    BY <1>5, RestsEffect DEF Rests, closing
  <2>2. QED
    BY <2>1
<1>6. ASSUME Rests, Closes
      PROVE  Contract!Close \/ Contract!Return \/ UNCHANGED Contract!vars
  <2>1. Held' = Held /\ jobs' = jobs /\ finished' = finished
    BY <1>6, RestsEffect DEF Rests
  <2>2. CASE Shutdown
    <3>1. sdpc = "off" /\ sdpc' = "drain" /\ promised' = Contract!Accepted
      BY <1>0, <2>2 DEF Shutdown
    <3>2. QED
      BY <2>1, <3>1 DEF Contract!Close
  <2>3. CASE DrainTest \/ StopThreads \/ ReapTest \/ ReapPost
    <3>1. /\ sdpc \notin {"off", "done"} /\ sdpc' \notin {"off", "done"}
          /\ promised' = promised
      BY <2>3 DEF DrainTest, StopThreads, ReapTest, ReapPost
    <3>2. QED
      BY <2>1, <3>1
  <2>4. CASE ClearThreads
    <3>1. sdpc = "clear" /\ sdpc' = "done" /\ promised' = promised
      BY <2>4 DEF ClearThreads
    <3>2. promised \subseteq finished
      BY <3>1 DEF ShutdownStages
    <3>3. Held = {}
      <4>1. At(InLoop) = {}
        BY <3>1 DEF ShutdownStages, InLoop
      <4>2. QED
        BY <4>1 DEF Held, Holding, At, InLoop, Alive, Busy
    <3>4. QED
      BY <2>1, <3>1, <3>2, <3>3 DEF Contract!Return
  <2>5. QED
    BY <1>6, <2>2, <2>3, <2>4 DEF Closes
<1>7. QED
  BY <1>1, <1>2, <1>3, <1>4, <1>5, <1>6, StepKinds DEF TypeOK, Contract!Next

\* Every behaviour of the pool is one that Executor allows: jobs are accepted
\* once, started in the order they were accepted, finished once, and shutdown()
\* returns only when all that was submitted before it has run.
THEOREM PoolImplementsExecutor == SafeSpec => ImplementsExecutorSafe
<1>1. PoolInv /\ [Next]_vars => [Contract!Next]_(Contract!vars)
  BY ContractStep
<1>2. QED
  BY <1>1, ContractInit, PoolInvCorrect, PTL DEF SafeSpec, ImplementsExecutorSafe, Contract!SafeSpec
=============================================================================
