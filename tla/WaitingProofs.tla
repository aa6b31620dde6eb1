----------------------------- MODULE WaitingProofs -----------------------------
(***************************************************************************)
(* Proofs about what threads wait on: ThreadEvent, Future and WinCond, for *)
(* any sets of threads.                                                    *)
(***************************************************************************)
EXTENDS MCWaiting, FiniteSetTheorems, TLAPS

-----------------------------------------------------------------------------
(* ThreadEvent: theorems for any waiters, timeouts and widths of Int.      *)

\* The inductive invariant; what the condvar's own timeouts are is of no account.
EventInv ==
  /\ clock \in Nat
  /\ wpc \in [Waiters -> {"out", "asleep", "woken", "true", "false"}]
  /\ endTime \in [Waiters -> Nat \cup {Forever}]
  /\ SetWakesAll
  /\ FalseIsLate

\* Testing the event decides on what it finds: only a thread that finds it clear
\* falls asleep, and only one whose time is over returns False.
LEMMA TestEffect ==
  ASSUME EventInv, NEW w \in Waiters, NEW end \in Nat \cup {Forever}, Test(w, end)
  PROVE  EventInv'
<1>1. /\ UNCHANGED <<clock, isSet>>
      /\ wpc'[w] = IF isSet THEN "true" ELSE IF Past(end) THEN "false" ELSE "asleep"
      /\ \A v \in Waiters \ {w} : wpc'[v] = wpc[v]
      /\ wpc' \in [Waiters -> {"out", "asleep", "woken", "true", "false"}]
  BY DEF Test, EventInv
<1>2. /\ endTime'[w] = end
      /\ \A v \in Waiters \ {w} : endTime'[v] = endTime[v]
      /\ endTime' \in [Waiters -> Nat \cup {Forever}]
  BY DEF Test, EventInv
<1>3. SetWakesAll'
  BY <1>1 DEF EventInv, SetWakesAll, Asleep
<1>4. FalseIsLate'
  BY <1>1, <1>2 DEF EventInv, FalseIsLate, Past
<1>5. QED
  BY <1>1, <1>2, <1>3, <1>4 DEF EventInv

\* Every step keeps the invariant.
LEMMA EventStep == EventInv /\ [Next]_vars => EventInv'
<1> SUFFICES ASSUME EventInv, [Next]_vars PROVE EventInv'
  OBVIOUS
<1>1. CASE Tick
  BY <1>1 DEF Tick, EventInv, SetWakesAll, FalseIsLate, Asleep, Past
<1>2. ASSUME NEW w \in Waiters, Wait(w) PROVE EventInv'
  BY <1>2, TestEffect DEF Wait
<1>3. ASSUME NEW w \in Waiters, NEW timeout \in Timeouts, WaitFor(w, timeout) PROVE EventInv'
  <2>1. clock + timeout \in Nat
    BY EventAssumption DEF EventInv
  <2>2. QED
    BY <2>1, <1>3, TestEffect DEF WaitFor
<1>4. ASSUME NEW w \in Waiters, Retest(w) PROVE EventInv'
  <2>1. endTime[w] \in Nat \cup {Forever}
    BY DEF EventInv
  <2>2. QED
    BY <2>1, <1>4, TestEffect DEF Retest
<1>5. ASSUME NEW w \in Waiters, TimeOut(w) \/ SpuriousWakeup(w) PROVE EventInv'
  BY <1>5 DEF TimeOut, SpuriousWakeup, EventInv, SetWakesAll, FalseIsLate, Asleep, Past
<1>6. ASSUME NEW w \in Waiters, Return(w) PROVE EventInv'
  BY <1>6 DEF Return, EventInv, SetWakesAll, FalseIsLate, Asleep, Past
<1>7. CASE Set
  BY <1>7 DEF Set, EventInv, SetWakesAll, FalseIsLate, Asleep, Past
<1>8. CASE Clear
  BY <1>8 DEF Clear, EventInv, SetWakesAll, FalseIsLate, Asleep, Past
<1>9. CASE UNCHANGED vars
  BY <1>9 DEF vars, EventInv, SetWakesAll, FalseIsLate, Asleep, Past
<1>10. QED
  BY <1>1, <1>2, <1>3, <1>4, <1>5, <1>6, <1>7, <1>8, <1>9 DEF Next

\* The invariant holds from the start.
LEMMA EventInvariant == SafeSpec => []EventInv
<1>1. Init => EventInv
  BY DEF Init, EventInv, SetWakesAll, FalseIsLate, Asleep
<1>2. QED
  BY <1>1, EventStep, PTL DEF SafeSpec

\* No thread sleeps on an event that is set, for any number of waiters.
THEOREM SetReachesAll == SafeSpec => []SetWakesAll
BY EventInvariant, PTL DEF EventInv

\* Wait(timeout) never returns False before its time, however short the wait on
\* the condvar becomes when Int() cuts it down to whatever width.
THEOREM NeverEarly == SafeSpec => []FalseIsLate
BY EventInvariant, PTL DEF EventInv

\* Wait() returns True only in a step that finds the event set.
THEOREM TrueIsTrue == SafeSpec => TrueWasSet
<1>1. EventInv /\ [Next]_vars =>
        [\A w \in Waiters : wpc'[w] = "true" => wpc[w] = "true" \/ isSet]_vars
  <2> SUFFICES ASSUME EventInv, [Next]_vars, NEW w \in Waiters, wpc'[w] = "true"
               PROVE  wpc[w] = "true" \/ isSet
    OBVIOUS
  <2>1. ASSUME NEW v \in Waiters, NEW end, Test(v, end) PROVE wpc[w] = "true" \/ isSet
    BY <2>1 DEF Test, EventInv
  <2>2. ASSUME NEW v \in Waiters,
               \/ Wait(v) \/ Retest(v) \/ TimeOut(v) \/ SpuriousWakeup(v) \/ Return(v)
               \/ \E timeout \in Timeouts : WaitFor(v, timeout)
        PROVE  wpc[w] = "true" \/ isSet
    BY <2>1, <2>2 DEF Wait, Retest, WaitFor, TimeOut, SpuriousWakeup, Return, EventInv
  <2>3. QED
    BY <2>2 DEF Next, Tick, Set, Clear, vars, EventInv
<1>2. QED
  BY <1>1, EventInvariant, PTL DEF SafeSpec, TrueWasSet

-----------------------------------------------------------------------------
(* Future: theorems for any getters and values.                            *)

\* TypeOK says that a future that is ready has a value that was given; with it,
\* what the getters have been given is inductive.
FutureInv == Fut!TypeOK /\ Fut!ResultWasGiven

\* Every step keeps the invariant.
LEMMA FutureStep == FutureInv /\ [Fut!Next]_(Fut!vars) => FutureInv'
<1> SUFFICES ASSUME FutureInv, [Fut!Next]_(Fut!vars) PROVE FutureInv'
  OBVIOUS
<1> USE DEF FutureInv, Fut!TypeOK, Fut!ResultWasGiven
<1>1. ASSUME NEW g \in Getters, Fut!GetResult(g) PROVE FutureInv'
  BY <1>1 DEF Fut!GetResult
<1>2. ASSUME NEW g \in Getters, Fut!SpuriousWakeup(g) \/ Fut!Return(g) PROVE FutureInv'
  BY <1>2 DEF Fut!SpuriousWakeup, Fut!Return
<1>3. ASSUME NEW v \in Values, Fut!SetResult(v) PROVE FutureInv'
  <2>1. \A g \in Getters : gpc'[g] = "back" => gpc[g] = "back"
    BY <1>3 DEF Fut!SetResult, Fut!Asleep
  <2>2. gpc' \in [Getters -> {"out", "asleep", "woken", "back"}]
    BY <1>3 DEF Fut!SetResult
  <2>3. QED
    BY <2>1, <2>2, <1>3 DEF Fut!SetResult
<1>4. QED
  BY <1>1, <1>2, <1>3 DEF Fut!Next, Fut!vars

\* The invariant holds from the start.
LEMMA FutureInvariant == Fut!SafeSpec => []FutureInv
<1>1. Fut!Init => FutureInv
  BY DEF Fut!Init, FutureInv, Fut!TypeOK, Fut!ResultWasGiven
<1>2. QED
  BY <1>1, FutureStep, PTL DEF Fut!SafeSpec

\* GetResult() returns only what was given to SetResult(), for any number of
\* getters and results.
THEOREM OnlyGivenResults == Fut!SafeSpec => []Fut!ResultWasGiven
BY FutureInvariant, PTL DEF FutureInv

-----------------------------------------------------------------------------
(***************************************************************************)
(* WinCond: that the counts balance, and from that the refinement of       *)
(* CondVar.  An action changes the number of sleepers, or of posts to come,*)
(* by what it adds to or takes from one of the two sets, which stay finite.*)
(***************************************************************************)
Finite == IsFiniteSet(Sleeping) /\ IsFiniteSet(Posts)

IInv == CondTypeOK /\ Finite /\ Conservation

NumAsleep == Cardinality(Sleeping)

\* The sum of the permits and the posts to come is a number.
LEMMA Numbers ==
  ASSUME IInv
  PROVE  NumAsleep \in Nat /\ Granted \in Nat
BY FS_CardinalityType DEF IInv, CondTypeOK, Finite, NumAsleep, Granted

-----------------------------------------------------------------------------
(* Type correctness. *)

\* NoThread is no thread.
LEMMA TypeKept ==
  ASSUME NoThread \notin Threads, CondTypeOK, [CondNext]_condVars
  PROVE  CondTypeOK'
<1>1. CASE UNCHANGED condVars
  BY <1>1 DEF CondTypeOK, condVars, sync, local
<1>2. CASE CondNext
  <2> PICK t \in Threads :
        LockMutex(t) \/ UnlockMutex(t) \/ Waits(t) \/ WaitStep(t) \/ Calls(t) \/ SignalStep(t)
    BY <1>2 DEF CondNext
  <2>1. CASE LockMutex(t)
    BY <2>1 DEF CondTypeOK, LockMutex, local
  <2>2. CASE UnlockMutex(t)
    BY <2>2 DEF CondTypeOK, UnlockMutex, local
  <2>3. CASE Waits(t)
    BY <2>3 DEF CondTypeOK, Waits, CountWaiter, Goto
  <2>4. CASE ReleaseMutex(t)
    BY <2>4 DEF CondTypeOK, ReleaseMutex, Goto, local
  <2>5. CASE WaitSemaphore(t)
    BY <2>5 DEF CondTypeOK, WaitSemaphore, Goto
  <2>6. CASE TimedOut(t)
    BY <2>6 DEF CondTypeOK, TimedOut, Goto, sync
  <2>7. CASE Relock(t)
    BY <2>7 DEF CondTypeOK, Relock, Goto, local
  <2>8. CASE Calls(t)
    BY <2>8 DEF CondTypeOK, Calls, Call, Goto, sync
  <2>9. CASE ReadWaiters(t)
    BY <2>9 DEF CondTypeOK, ReadWaiters, EndCall, Goto, sync
  <2>10. CASE Swap(t)
    BY <2>10 DEF CondTypeOK, Swap, Take, Retry, EndCall, Goto
  <2>11. CASE PostSemaphore(t)
    BY <2>11 DEF CondTypeOK, PostSemaphore, EndCall, Goto
  <2> QED
    BY <2>1, <2>2, <2>3, <2>4, <2>5, <2>6, <2>7, <2>8, <2>9, <2>10, <2>11
       DEF WaitStep, SignalStep
<1> QED
  BY <1>1, <1>2

-----------------------------------------------------------------------------
(* What each action does to the counts. *)


\* An action that leaves the sleepers and the posts to come alone.
LEMMA CountsSame ==
  ASSUME IInv, CondTypeOK', UNCHANGED <<Sleeping, Posts>>
  PROVE  Finite' /\ NumAsleep' = NumAsleep /\ Granted' = Granted - permits + permits'
<1>1. permits \in Nat /\ permits' \in Nat /\ Cardinality(Posts) \in Nat
  BY FS_CardinalityType DEF IInv, Finite, CondTypeOK
<1>2. Finite' /\ NumAsleep' = NumAsleep
  BY DEF IInv, Finite, NumAsleep
<1> QED
  BY <1>1, <1>2 DEF Granted

\* Somebody goes to sleep.
LEMMA SleeperAdded ==
  ASSUME IInv, NEW t \in Threads, t \notin Sleeping, Sleeping' = Sleeping \union {t},
         UNCHANGED <<Posts, permits>>
  PROVE  Finite' /\ NumAsleep' = NumAsleep + 1 /\ Granted' = Granted
<1>1. Finite' /\ Granted' = Granted
  BY FS_AddElement DEF IInv, Finite, Granted
<1>2. NumAsleep' = NumAsleep + 1
  BY FS_AddElement DEF IInv, Finite, NumAsleep
<1> QED
  BY <1>1, <1>2

\* Somebody wakes up.
LEMMA SleeperTaken ==
  ASSUME IInv, NEW t \in Sleeping, Sleeping' = Sleeping \ {t}, UNCHANGED Posts, CondTypeOK'
  PROVE  Finite' /\ NumAsleep' = NumAsleep - 1 /\ Granted' = Granted - permits + permits'
<1>1. permits \in Nat /\ permits' \in Nat /\ Cardinality(Posts) \in Nat
  BY FS_CardinalityType DEF IInv, Finite, CondTypeOK
<1>2. Finite' /\ NumAsleep' = NumAsleep - 1
  BY FS_RemoveElement DEF IInv, Finite, NumAsleep
<1> QED
  BY <1>1, <1>2 DEF Granted

\* A signaller that has swapped the count has n posts to make.
LEMMA PostsAdded ==
  ASSUME IInv, NEW t \in Threads, NEW n \in Nat, left[t] = 0,
         left' = [left EXCEPT ![t] = n], UNCHANGED <<Sleeping, permits>>
  PROVE  Finite' /\ NumAsleep' = NumAsleep /\ Granted' = Granted + n
<1> DEFINE New == {t} \X (1 .. n)
<1>1. Posts' = Posts \union New
  BY DEF IInv, CondTypeOK, Posts
<1>2. Posts \intersect New = {}
  BY DEF IInv, CondTypeOK, Posts
<1>3. IsFiniteSet(New) /\ Cardinality(New) = n
  <2>1. IsFiniteSet({t}) /\ Cardinality({t}) = 1
    BY FS_Singleton
  <2>2. IsFiniteSet(1 .. n) /\ Cardinality(1 .. n) = n
    BY FS_Interval
  <2> HIDE DEF New
  <2>3. IsFiniteSet({t} \X (1 .. n)) /\ Cardinality({t} \X (1 .. n)) = 1 * n
    BY <2>1, <2>2, FS_Product
  <2> QED
    BY <2>3 DEF New
<1> HIDE DEF New
<1>4. IsFiniteSet(Posts) /\ Cardinality(Posts) \in Nat
  BY FS_CardinalityType DEF IInv, Finite
<1>5. /\ IsFiniteSet(Posts \union New)
      /\ Cardinality(Posts \union New) =
           Cardinality(Posts) + Cardinality(New) - Cardinality(Posts \intersect New)
  BY <1>3, <1>4, FS_Union
<1>6. Cardinality(Posts \intersect New) = 0
  BY <1>2, FS_EmptySet
<1>7. IsFiniteSet(Posts') /\ Cardinality(Posts') = Cardinality(Posts) + n
  BY <1>1, <1>3, <1>4, <1>5, <1>6
<1>8. permits \in Nat /\ IsFiniteSet(Sleeping)
  BY DEF IInv, CondTypeOK, Finite
<1> QED
  BY <1>4, <1>7, <1>8 DEF Finite, NumAsleep, Granted

\* A post to come becomes a permit.
LEMMA PostMade ==
  ASSUME IInv, NEW t \in Threads, left[t] > 0, left' = [left EXCEPT ![t] = left[t] - 1],
         permits' = permits + 1, UNCHANGED Sleeping
  PROVE  Finite' /\ NumAsleep' = NumAsleep /\ Granted' = Granted
<1>1. <<t, left[t]>> \in Posts /\ Posts' = Posts \ {<<t, left[t]>>}
  BY DEF IInv, CondTypeOK, Posts
<1>2. IsFiniteSet(Posts) /\ Cardinality(Posts) \in Nat
  BY FS_CardinalityType DEF IInv, Finite
<1>3. IsFiniteSet(Posts') /\ Cardinality(Posts') = Cardinality(Posts) - 1
  BY <1>1, <1>2, FS_RemoveElement
<1>4. permits \in Nat /\ IsFiniteSet(Sleeping)
  BY DEF IInv, CondTypeOK, Finite
<1> QED
  BY <1>2, <1>3, <1>4 DEF Finite, NumAsleep, Granted

-----------------------------------------------------------------------------
(* The actions, by what they do to the counts. *)

\* LockMutex, UnlockMutex, ReleaseMutex, Relock, the call of Signal or Broadcast, and
\* what these do before the swap.
Quiet(t) ==
  \/ LockMutex(t) \/ UnlockMutex(t) \/ ReleaseMutex(t) \/ Relock(t)
  \/ Calls(t) \/ ReadWaiters(t) \/ (Swap(t) /\ waiters # seen[t])

\* None of them touches the counts.
LEMMA QuietCounts ==
  ASSUME IInv, CondTypeOK', NEW t \in Threads, Quiet(t)
  PROVE  /\ Finite' /\ NumAsleep' = NumAsleep /\ Granted' = Granted
         /\ UNCHANGED <<Sleeping, Posts, permits, waiters, spare>>
<1>1. UNCHANGED <<permits, waiters, spare, left>>
  BY DEF Quiet, LockMutex, UnlockMutex, ReleaseMutex, Relock, Calls, Call, ReadWaiters, Swap,
         Retry, EndCall, Goto, sync, local
<1>2. UNCHANGED Posts
  BY <1>1 DEF Posts
<1>3. \A u \in Threads : pc[u] \in {"counted", "blocked"} <=> pc'[u] \in {"counted", "blocked"}
  BY DEF IInv, CondTypeOK, Quiet, LockMutex, UnlockMutex, ReleaseMutex, Relock, Calls, Call,
         ReadWaiters, Swap, Retry, EndCall, Goto
<1>4. UNCHANGED Sleeping
  BY <1>3 DEF Sleeping
<1>5. Granted \in Nat /\ permits \in Nat
  BY Numbers DEF IInv, CondTypeOK
<1> QED
  BY <1>1, <1>2, <1>4, <1>5, CountsSame

\* CountWaiter puts the thread to sleep.
LEMMA WaitsCounts ==
  ASSUME IInv, NEW t \in Threads, Waits(t)
  PROVE  /\ Finite' /\ NumAsleep' = NumAsleep + 1 /\ Granted' = Granted
         /\ t \notin Sleeping /\ Sleeping' = Sleeping \union {t}
         /\ waiters' = waiters + 1 /\ UNCHANGED spare
<1>1. UNCHANGED <<permits, left, spare>> /\ waiters' = waiters + 1
  BY DEF Waits, CountWaiter
<1>2. UNCHANGED Posts
  BY <1>1 DEF Posts
<1>3. t \notin Sleeping /\ Sleeping' = Sleeping \union {t}
  BY DEF IInv, CondTypeOK, Waits, CountWaiter, Goto, Sleeping
<1> QED
  BY <1>1, <1>2, <1>3, SleeperAdded

\* A sleeper takes a permit.
LEMMA WaitSemaphoreCounts ==
  ASSUME IInv, CondTypeOK', NEW t \in Threads, WaitSemaphore(t)
  PROVE  /\ Finite' /\ NumAsleep' = NumAsleep - 1 /\ Granted' = Granted - 1
         /\ t \in Sleeping /\ Sleeping' = Sleeping \ {t} /\ permits > 0
         /\ UNCHANGED <<waiters, spare>>
<1>1. UNCHANGED <<left, waiters, spare>> /\ permits' = permits - 1 /\ permits > 0
  BY DEF WaitSemaphore
<1>2. UNCHANGED Posts
  BY <1>1 DEF Posts
<1>3. t \in Sleeping /\ Sleeping' = Sleeping \ {t}
  BY DEF IInv, CondTypeOK, WaitSemaphore, Goto, Sleeping
<1>4. Granted \in Nat /\ permits \in Nat
  BY Numbers DEF IInv, CondTypeOK
<1>5. Finite' /\ NumAsleep' = NumAsleep - 1 /\ Granted' = Granted - permits + permits'
  BY <1>2, <1>3, SleeperTaken
<1> QED
  BY <1>1, <1>3, <1>4, <1>5

\* A sleeper gives up, and what it was counted for is spare.
LEMMA TimeOutCounts ==
  ASSUME IInv, CondTypeOK', NEW t \in Threads, TimedOut(t)
  PROVE  /\ Finite' /\ NumAsleep' = NumAsleep - 1 /\ Granted' = Granted
         /\ t \in Sleeping /\ Sleeping' = Sleeping \ {t}
         /\ spare' = spare + 1 /\ UNCHANGED waiters
<1>1. UNCHANGED <<left, waiters, permits>> /\ spare' = spare + 1
  BY DEF TimedOut, sync
<1>2. UNCHANGED Posts
  BY <1>1 DEF Posts
<1>3. t \in Sleeping /\ Sleeping' = Sleeping \ {t}
  BY DEF IInv, CondTypeOK, TimedOut, Goto, sync, Sleeping
<1>4. Granted \in Nat /\ permits \in Nat
  BY Numbers DEF IInv, CondTypeOK
<1>5. Finite' /\ NumAsleep' = NumAsleep - 1 /\ Granted' = Granted - permits + permits'
  BY <1>2, <1>3, SleeperTaken
<1> QED
  BY <1>1, <1>3, <1>4, <1>5

\* A signaller takes one waiter, or all of them, off the count.
Taken(t) == IF call[t] = "signal" THEN 1 ELSE waiters

\* What it takes off the count it grants.
LEMMA SwapCounts ==
  ASSUME IInv, NEW t \in Threads, Swap(t), waiters = seen[t]
  PROVE  /\ Finite' /\ NumAsleep' = NumAsleep /\ Granted' = Granted + Taken(t)
         /\ UNCHANGED <<Sleeping, spare>>
         /\ waiters > 0 /\ waiters' = waiters - Taken(t)
<1>1. /\ UNCHANGED <<permits, spare>> /\ waiters > 0 /\ waiters' = waiters - Taken(t)
      /\ left[t] = 0 /\ left' = [left EXCEPT ![t] = Taken(t)] /\ Taken(t) \in Nat
  BY DEF IInv, CondTypeOK, Swap, Take, Taken
<1>2. UNCHANGED Sleeping
  BY DEF IInv, CondTypeOK, Swap, Take, EndCall, Goto, Sleeping
<1> QED
  BY <1>1, <1>2, PostsAdded

\* A post makes a permit of what was granted.
LEMMA PostSemaphoreCounts ==
  ASSUME IInv, NEW t \in Threads, PostSemaphore(t)
  PROVE  /\ Finite' /\ NumAsleep' = NumAsleep /\ Granted' = Granted
         /\ UNCHANGED <<Sleeping, waiters, spare>>
<1>1. /\ UNCHANGED <<waiters, spare>> /\ left[t] > 0 /\ permits' = permits + 1
      /\ left' = [left EXCEPT ![t] = left[t] - 1]
  BY DEF IInv, CondTypeOK, PostSemaphore
<1>2. UNCHANGED Sleeping
  BY DEF IInv, CondTypeOK, PostSemaphore, EndCall, Goto, Sleeping
<1> QED
  BY <1>1, <1>2, PostMade

\* There is no other action.
LEMMA Actions ==
  ASSUME NEW t \in Threads,
         LockMutex(t) \/ UnlockMutex(t) \/ Waits(t) \/ WaitStep(t) \/ Calls(t) \/ SignalStep(t)
  PROVE  \/ Quiet(t) \/ Waits(t) \/ WaitSemaphore(t) \/ TimedOut(t) \/ PostSemaphore(t)
         \/ (Swap(t) /\ waiters = seen[t])
BY DEF Quiet, WaitStep, SignalStep

-----------------------------------------------------------------------------
(* The invariant. *)

\* At the start nobody sleeps and nothing is granted.
LEMMA InitInv == CondInit => IInv
<1> SUFFICES ASSUME CondInit PROVE IInv
  OBVIOUS
<1>1. CondTypeOK
  BY DEF CondInit, CondTypeOK
<1>2. Sleeping = {} /\ Posts = {}
  BY DEF CondInit, Sleeping, Posts
<1>3. Finite /\ Cardinality(Sleeping) = 0 /\ Cardinality(Posts) = 0
  BY <1>2, FS_EmptySet DEF Finite
<1>4. Conservation
  BY <1>3 DEF CondInit, Conservation, Granted
<1> QED
  BY <1>1, <1>3, <1>4 DEF IInv

\* Every step keeps the balance.
LEMMA NextKeeps ==
  ASSUME NoThread \notin Threads, IInv, [CondNext]_condVars
  PROVE  IInv'
<1>1. CondTypeOK'
  BY TypeKept DEF IInv
<1>2. /\ waiters + Granted = NumAsleep + spare
      /\ waiters \in Nat /\ spare \in Nat /\ NumAsleep \in Nat /\ Granted \in Nat
  BY Numbers DEF IInv, CondTypeOK, Conservation, NumAsleep
<1>3. SUFFICES Finite' /\ waiters' + Granted' = NumAsleep' + spare'
  BY <1>1 DEF IInv, Conservation, NumAsleep
<1>4. CASE UNCHANGED condVars
  <2>1. UNCHANGED <<Sleeping, Posts, permits, waiters, spare>>
    BY <1>4 DEF condVars, sync, local, Sleeping, Posts
  <2> QED
    BY <1>1, <1>2, <2>1, CountsSame DEF IInv, CondTypeOK
<1>5. CASE CondNext
  <2>1. PICK t \in Threads :
          \/ Quiet(t) \/ Waits(t) \/ WaitSemaphore(t) \/ TimedOut(t) \/ PostSemaphore(t)
          \/ (Swap(t) /\ waiters = seen[t])
    BY <1>5, Actions DEF CondNext
  <2>2. CASE Quiet(t)
    BY <1>1, <1>2, <2>2, QuietCounts
  <2>3. CASE Waits(t)
    BY <1>2, <2>3, WaitsCounts
  <2>4. CASE WaitSemaphore(t)
    BY <1>1, <1>2, <2>4, WaitSemaphoreCounts
  <2>5. CASE TimedOut(t)
    BY <1>1, <1>2, <2>5, TimeOutCounts
  <2>6. CASE PostSemaphore(t)
    BY <1>2, <2>6, PostSemaphoreCounts
  <2>7. CASE Swap(t) /\ waiters = seen[t]
    <3>1. Taken(t) \in Nat
      BY <1>2 DEF Taken
    <3> QED
      BY <1>2, <2>7, <3>1, SwapCounts
  <2> QED
    BY <2>1, <2>2, <2>3, <2>4, <2>5, <2>6, <2>7
<1> QED
  BY <1>4, <1>5

\* The counts have their types, and a thread that is counted has the mutex until it lets
\* go of it.
THEOREM CondTypeCorrect ==
  ASSUME NoThread \notin Threads
  PROVE  CondSpec => []CondTypeOK
<1>1. CondInit => CondTypeOK
  BY DEF CondInit, CondTypeOK
<1>2. CondTypeOK /\ [CondNext]_condVars => CondTypeOK'
  BY TypeKept
<1> QED
  BY <1>1, <1>2, PTL DEF CondSpec, CondSafeSpec

\* The invariant holds in every behaviour.
THEOREM Invariance ==
  ASSUME NoThread \notin Threads
  PROVE  CondSpec => []IInv
<1>1. IInv /\ [CondNext]_condVars => IInv'
  BY NextKeeps
<1> QED
  BY <1>1, InitInv, PTL DEF CondSpec, CondSafeSpec

\* No wake-up of a Windows condition variable is lost or made up (threads.c:96 to 158).
THEOREM WakeUpsConserved ==
  ASSUME NoThread \notin Threads
  PROVE  CondSpec => []Conservation
<1>1. IInv => Conservation
  BY DEF IInv
<1> QED
  BY <1>1, Invariance, PTL

-----------------------------------------------------------------------------
(* The refinement of CondVar. *)

\* The phase of a thread, from its stage and its call.
LEMMA PhaseIs ==
  \A t \in Threads :
    /\ Phase[t] = PhaseOf(t)
    /\ pc[t] \in {"read", "swap"} => PhaseOf(t) = call[t]
    /\ pc[t] = "post" => PhaseOf(t) = "done"
    /\ pc[t] \notin {"read", "swap", "post"} => PhaseOf(t) = "idle"
BY DEF Phase, PhaseOf

\* If only t's stage and call may change, only its phase does.
LEMMA PhaseChanges ==
  ASSUME IInv, CondTypeOK', NEW t \in Threads,
         \A u \in Threads \ {t} : pc'[u] = pc[u] /\ call'[u] = call[u]
  PROVE  /\ Phase' = [Phase EXCEPT ![t] = PhaseOf(t)']
         /\ PhaseOf(t)' = PhaseOf(t) => UNCHANGED Phase
         /\ pc'[t] \in {"read", "swap"} => PhaseOf(t)' = call'[t]
         /\ pc'[t] = "post" => PhaseOf(t)' = "done"
         /\ pc'[t] \notin {"read", "swap", "post"} => PhaseOf(t)' = "idle"
<1>1. \A u \in Threads : u # t => PhaseOf(u)' = PhaseOf(u)
  BY DEF PhaseOf
<1>2. /\ pc'[t] \in {"read", "swap"} => PhaseOf(t)' = call'[t]
      /\ pc'[t] = "post" => PhaseOf(t)' = "done"
      /\ pc'[t] \notin {"read", "swap", "post"} => PhaseOf(t)' = "idle"
  BY DEF PhaseOf
<1>3. Phase' = [Phase EXCEPT ![t] = PhaseOf(t)']
  BY <1>1 DEF Phase
<1>4. PhaseOf(t)' = PhaseOf(t) => UNCHANGED Phase
  BY <1>1 DEF Phase
<1> QED
  BY <1>2, <1>3, <1>4

\* A step of t changes the stage and the call of nobody else.
LEMMA OnlyOne ==
  ASSUME IInv, NEW t \in Threads,
         \/ Quiet(t) \/ Waits(t) \/ WaitSemaphore(t) \/ TimedOut(t) \/ PostSemaphore(t)
         \/ (Swap(t) /\ waiters = seen[t])
  PROVE  \A u \in Threads \ {t} : pc'[u] = pc[u] /\ call'[u] = call[u]
<1>1. CASE Quiet(t)
  BY <1>1 DEF IInv, CondTypeOK, Quiet, LockMutex, UnlockMutex, ReleaseMutex, Relock, Calls, Call,
     ReadWaiters, EndCall, Swap, Retry, Take, Goto, local
<1>2. CASE Waits(t) \/ WaitSemaphore(t) \/ TimedOut(t)
  BY <1>2 DEF IInv, CondTypeOK, Waits, CountWaiter, WaitSemaphore, TimedOut, Goto
<1>3. CASE PostSemaphore(t)
  BY <1>3 DEF IInv, CondTypeOK, PostSemaphore, EndCall, Goto
<1>4. CASE Swap(t) /\ waiters = seen[t]
  BY <1>4 DEF IInv, CondTypeOK, Swap, Take, EndCall, Goto
<1> QED
  BY <1>1, <1>2, <1>3, <1>4

\* CondVar counts as this module does.
LEMMA SameCardinality == Abstract!Cardinality(Sleeping) = Cardinality(Sleeping)
BY DEF Abstract!Cardinality, Cardinality, Abstract!IsFiniteSet, IsFiniteSet

\* In the beginning everybody is idle.
LEMMA InitRefines == CondInit => Abstract!Init
<1> SUFFICES ASSUME CondInit PROVE Abstract!Init
  OBVIOUS
<1>1. Sleeping = {} /\ Posts = {} /\ permits = 0
  BY DEF CondInit, Sleeping, Posts
<1>2. Granted = 0
  BY <1>1, FS_EmptySet DEF Granted
<1>3. \A t \in Threads : PhaseOf(t) = "idle"
  BY DEF CondInit, PhaseOf
<1>4. Phase = [t \in Threads |-> "idle"]
  BY <1>3 DEF Phase
<1>5. spare = 0
  BY DEF CondInit
<1> QED
  BY <1>1, <1>2, <1>4, <1>5 DEF Abstract!Init

\* Every step is a step of CondVar or none: a thread goes to sleep when it is counted, a
\* signal takes effect with its swap, and one that finds no waiters has nothing to do.
LEMMA StepRefines ==
  ASSUME IInv, CondTypeOK', [CondNext]_condVars
  PROVE  [Abstract!Next]_(Abstract!vars)
<1>1. /\ waiters + Granted = NumAsleep + spare
      /\ waiters \in Nat /\ spare \in Nat /\ NumAsleep \in Nat /\ Granted \in Nat
  BY Numbers DEF IInv, CondTypeOK, Conservation, NumAsleep
<1>2. Abstract!Cardinality(Sleeping) = NumAsleep
  BY SameCardinality DEF NumAsleep
<1>3. CASE UNCHANGED condVars
  <2>1. UNCHANGED <<Sleeping, Posts, permits, spare, pc, call>>
    BY <1>3 DEF condVars, sync, local, Sleeping, Posts
  <2>2. UNCHANGED Granted /\ UNCHANGED Phase
    BY <2>1 DEF Granted, Phase, PhaseOf
  <2> QED
    BY <2>1, <2>2 DEF Abstract!vars
<1>4. CASE CondNext
  <2>1. PICK t \in Threads :
          \/ Quiet(t) \/ Waits(t) \/ WaitSemaphore(t) \/ TimedOut(t) \/ PostSemaphore(t)
          \/ (Swap(t) /\ waiters = seen[t])
    BY <1>4, Actions DEF CondNext
  <2>2. \A u \in Threads \ {t} : pc'[u] = pc[u] /\ call'[u] = call[u]
    BY <2>1, OnlyOne
  <2>3. /\ Phase' = [Phase EXCEPT ![t] = PhaseOf(t)']
        /\ PhaseOf(t)' = PhaseOf(t) => UNCHANGED Phase
        /\ pc'[t] \in {"read", "swap"} => PhaseOf(t)' = call'[t]
        /\ pc'[t] = "post" => PhaseOf(t)' = "done"
        /\ pc'[t] \notin {"read", "swap", "post"} => PhaseOf(t)' = "idle"
    BY <2>2, PhaseChanges
  <2>4. /\ Phase[t] = PhaseOf(t)
        /\ pc[t] \in {"read", "swap"} => PhaseOf(t) = call[t]
        /\ pc[t] = "post" => PhaseOf(t) = "done"
        /\ pc[t] \notin {"read", "swap", "post"} => PhaseOf(t) = "idle"
    BY PhaseIs
  <2>5. t \in Sleeping <=> pc[t] \in {"counted", "blocked"}
    BY DEF Sleeping
  <2>6. CASE Quiet(t)
    <3>1. UNCHANGED Sleeping /\ UNCHANGED Granted /\ UNCHANGED spare
      BY <2>6, QuietCounts
    <3>2. CASE Calls(t)
      <4>1. PICK c \in {"signal", "broadcast"} : Call(t, c)
        BY <3>2 DEF Calls
      <4>2. pc[t] = "idle" /\ pc'[t] = "read" /\ call'[t] = c
        BY <4>1 DEF IInv, CondTypeOK, Call, Goto
      <4>3. Phase' = [Phase EXCEPT ![t] = c] /\ Phase[t] = "idle" /\ t \notin Sleeping
        BY <2>3, <2>4, <2>5, <4>2
      <4>4. Abstract!Call(t, c)
        BY <3>1, <4>3 DEF Abstract!Call
      <4> QED
        BY <4>4 DEF Abstract!Next, Abstract!Calls
    <3>3. CASE ReadWaiters(t) /\ waiters = 0
      <4>1. pc[t] = "read" /\ pc'[t] = "idle" /\ call[t] \in {"signal", "broadcast"}
        BY <3>3 DEF IInv, CondTypeOK, ReadWaiters, EndCall, Goto
      <4>2. Phase[t] \in Abstract!Calls /\ Phase' = [Phase EXCEPT ![t] = "idle"]
        BY <2>3, <2>4, <4>1 DEF Abstract!Calls
      <4>3. Abstract!Covered
        BY <1>1, <1>2, <3>3 DEF Abstract!Covered
      <4>4. Abstract!Nothing(t)
        BY <3>1, <4>2, <4>3 DEF Abstract!Nothing
      <4> QED
        BY <4>4 DEF Abstract!Next
    <3>4. CASE ~Calls(t) /\ ~(ReadWaiters(t) /\ waiters = 0)
      <4>1. /\ call'[t] = call[t]
            /\ \/ pc'[t] = pc[t]
               \/ {pc[t], pc'[t]} \subseteq {"counted", "blocked", "relock", "idle"}
               \/ {pc[t], pc'[t]} \subseteq {"read", "swap"}
        BY <2>6, <3>4 DEF IInv, CondTypeOK, Quiet, LockMutex, UnlockMutex, ReleaseMutex, Relock,
           ReadWaiters, Swap, Retry, Goto, local
      <4>2. PhaseOf(t)' = PhaseOf(t)
        BY <4>1 DEF PhaseOf
      <4> QED
        BY <2>3, <3>1, <4>2 DEF Abstract!vars
    <3> QED
      BY <3>2, <3>3, <3>4
  <2>7. CASE Waits(t)
    <3>1. pc[t] = "idle" /\ pc'[t] = "counted"
      BY <2>7 DEF IInv, CondTypeOK, Waits, CountWaiter, Goto
    <3>2. PhaseOf(t) = "idle" /\ PhaseOf(t)' = "idle"
      BY <2>3, <2>4, <3>1
    <3>3. UNCHANGED Phase /\ Phase[t] = "idle" /\ t \notin Sleeping
      BY <2>3, <2>4, <2>5, <3>1, <3>2
    <3>4. Abstract!Sleep(t)
      BY <2>7, <3>3, WaitsCounts DEF Abstract!Sleep
    <3> QED
      BY <3>4 DEF Abstract!Next
  <2>8. CASE WaitSemaphore(t)
    <3>1. pc[t] = "blocked" /\ pc'[t] = "relock"
      BY <2>8 DEF IInv, CondTypeOK, WaitSemaphore, Goto
    <3>2. UNCHANGED Phase /\ t \in Sleeping
      BY <2>3, <2>4, <2>5, <3>1
    <3>3. Granted > 0
      BY <2>8, FS_CardinalityType DEF IInv, CondTypeOK, Finite, WaitSemaphore, Granted
    <3>4. Abstract!Wake(t)
      BY <2>8, <3>2, <3>3, WaitSemaphoreCounts DEF Abstract!Wake
    <3> QED
      BY <3>4 DEF Abstract!Next
  <2>9. CASE TimedOut(t)
    <3>1. pc[t] = "blocked" /\ pc'[t] = "relock"
      BY <2>9 DEF IInv, CondTypeOK, TimedOut, Goto
    <3>2. UNCHANGED Phase /\ t \in Sleeping
      BY <2>3, <2>4, <2>5, <3>1
    <3>3. Abstract!GiveUp(t)
      BY <2>9, <3>2, TimeOutCounts DEF Abstract!GiveUp
    <3> QED
      BY <3>3 DEF Abstract!Next
  <2>10. CASE PostSemaphore(t)
    <3>1. UNCHANGED Sleeping /\ UNCHANGED Granted /\ UNCHANGED spare
      BY <2>10, PostSemaphoreCounts
    <3>2. pc[t] = "post"
      BY <2>10 DEF PostSemaphore
    <3>3. CASE left[t] = 1
      <4>1. pc'[t] = "idle"
        BY <2>10, <3>3 DEF IInv, CondTypeOK, PostSemaphore, EndCall, Goto
      <4>2. Phase[t] = "done" /\ Phase' = [Phase EXCEPT ![t] = "idle"]
        BY <2>3, <2>4, <3>2, <4>1
      <4>3. Abstract!Return(t)
        BY <3>1, <4>2 DEF Abstract!Return
      <4> QED
        BY <4>3 DEF Abstract!Next
    <3>4. CASE left[t] # 1
      <4>1. UNCHANGED <<pc, call>>
        BY <2>10, <3>4 DEF PostSemaphore
      <4>2. UNCHANGED Phase
        BY <2>3, <2>4, <3>2, <4>1
      <4> QED
        BY <3>1, <4>2 DEF Abstract!vars
    <3> QED
      BY <3>3, <3>4
  <2>11. CASE Swap(t) /\ waiters = seen[t]
    <3>1. /\ UNCHANGED Sleeping /\ UNCHANGED spare
          /\ Granted' = Granted + Taken(t)
          /\ waiters > 0
      BY <2>11, SwapCounts
    <3>2. /\ call[t] = "signal" => Granted' = Granted + 1
          /\ call[t] # "signal" => Granted' \in NumAsleep .. (NumAsleep + spare)
          /\ Granted' <= NumAsleep + spare
      BY <1>1, <3>1 DEF Taken
    <3>3. pc[t] = "swap" /\ pc'[t] = "post" /\ call[t] \in {"signal", "broadcast"}
      BY <2>11, <3>1 DEF IInv, CondTypeOK, Swap, Take, EndCall, Goto
    <3>4. Phase[t] = call[t] /\ Phase' = [Phase EXCEPT ![t] = "done"]
      BY <2>3, <2>4, <3>3
    <3>5. Abstract!Grant(t)
      BY <1>2, <3>1, <3>2, <3>3, <3>4 DEF Abstract!Grant, Abstract!Calls
    <3> QED
      BY <3>5 DEF Abstract!Next
  <2> QED
    BY <2>1, <2>6, <2>7, <2>8, <2>9, <2>10, <2>11
<1> QED
  BY <1>3, <1>4

\* The Windows condition variable does what CondVar promises, for any set of threads.
THEOREM Refinement ==
  ASSUME NoThread \notin Threads
  PROVE  CondSpec => ImplementsCondVar
<1>1. IInv /\ IInv' /\ [CondNext]_condVars => [Abstract!Next]_(Abstract!vars)
  BY StepRefines DEF IInv
<1> QED
  BY <1>1, InitRefines, Invariance, PTL DEF CondSpec, CondSafeSpec, ImplementsCondVar, Abstract!Spec
=============================================================================
