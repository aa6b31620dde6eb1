------------------------------- MODULE WinCond --------------------------------
(***************************************************************************)
(* The condition variable that brl.threads builds for Windows              *)
(* (threads.mod/threads.c): a count of waiters and a semaphore.  A waiter  *)
(* counts itself, lets go of the mutex and waits on the semaphore; Signal  *)
(* and Broadcast take waiters off the count with a compare-and-swap and    *)
(* post the semaphore as many times.                                       *)
(*                                                                         *)
(* Every access to shared memory is a step of its own.  Signal and         *)
(* Broadcast may be called with or without the mutex.                      *)
(***************************************************************************)
EXTENDS Naturals, FiniteSets

CONSTANTS
  Threads,
  NoThread,        \* the owner of a free mutex; no thread
  MaxTimeouts      \* bound: so many timed waits time out

VARIABLES
  mutex,           \* its owner
  waiters,         \* cond->waiters
  permits,         \* the count of cond->sema
  pc,              \* what each thread does next
  timed,           \* its wait is a TimedWait
  call,            \* the call it is in: "signal" or "broadcast"
  seen,            \* its local variable waiters
  left,            \* the posts it still has to make
  spare            \* history: the waits that have timed out

sync == <<mutex, waiters, permits>>
local == <<timed, call, seen, left>>
condVars == <<sync, pc, local, spare>>

\* Asleep for the condition variable: counted, and not yet past the semaphore.
Sleeping == {t \in Threads : pc[t] \in {"counted", "blocked"}}
Posts == UNION {{t} \X (1 .. left[t]) : t \in Threads}
Granted == permits + Cardinality(Posts)

Goto(t, l) == pc' = [pc EXCEPT ![t] = l]

CondInit ==
  /\ mutex = NoThread
  /\ waiters = 0
  /\ permits = 0
  /\ pc = [t \in Threads |-> "idle"]
  /\ timed = [t \in Threads |-> FALSE]
  /\ call = [t \in Threads |-> "signal"]
  /\ seen = [t \in Threads |-> 0]
  /\ left = [t \in Threads |-> 0]
  /\ spare = 0

LockMutex(t) ==
  /\ pc[t] = "idle"
  /\ mutex = NoThread
  /\ mutex' = t
  /\ UNCHANGED <<waiters, permits, pc, local, spare>>

UnlockMutex(t) ==
  /\ pc[t] = "idle"
  /\ mutex = t
  /\ mutex' = NoThread
  /\ UNCHANGED <<waiters, permits, pc, local, spare>>

-----------------------------------------------------------------------------
(* WaitCond and TimedWaitCond. *)

CountWaiter(t, isTimed) ==
  /\ pc[t] = "idle"
  /\ mutex = t
  /\ waiters' = waiters + 1
  /\ timed' = [timed EXCEPT ![t] = isTimed]
  /\ Goto(t, "counted")
  /\ UNCHANGED <<mutex, permits, call, seen, left, spare>>

ReleaseMutex(t) ==
  /\ pc[t] = "counted"
  /\ mutex' = NoThread
  /\ Goto(t, "blocked")
  /\ UNCHANGED <<waiters, permits, local, spare>>

WaitSemaphore(t) ==
  /\ pc[t] = "blocked"
  /\ permits > 0
  /\ permits' = permits - 1
  /\ timed' = [timed EXCEPT ![t] = FALSE]
  /\ Goto(t, "relock")
  /\ UNCHANGED <<mutex, waiters, call, seen, left, spare>>

\* Slip: a wait that times out takes itself off the count again, although a
\* signaller may have done so already.
TimedOut_uncounts(t) ==
  /\ pc[t] = "blocked"
  /\ timed[t]
  /\ permits = 0
  /\ spare < MaxTimeouts
  /\ spare' = spare + 1
  /\ waiters' = IF waiters = 0 THEN 0 ELSE waiters - 1
  /\ timed' = [timed EXCEPT ![t] = FALSE]
  /\ Goto(t, "relock")
  /\ UNCHANGED <<mutex, permits, call, seen, left>>

\* WAIT_TIMEOUT: the semaphore could not be taken.  The waiter stays counted.
TimedOut(t) ==
  /\ pc[t] = "blocked"
  /\ timed[t]
  /\ permits = 0
  /\ spare < MaxTimeouts
  /\ spare' = spare + 1
  /\ timed' = [timed EXCEPT ![t] = FALSE]
  /\ Goto(t, "relock")
  /\ UNCHANGED <<sync, call, seen, left>>

Relock(t) ==
  /\ pc[t] = "relock"
  /\ mutex = NoThread
  /\ mutex' = t
  /\ Goto(t, "idle")
  /\ UNCHANGED <<waiters, permits, local, spare>>

-----------------------------------------------------------------------------
(* SignalCond and BroadcastCond. *)

Call(t, c) ==
  /\ pc[t] = "idle"
  /\ call' = [call EXCEPT ![t] = c]
  /\ Goto(t, "read")
  /\ UNCHANGED <<sync, timed, seen, left, spare>>

\* The local variables of a call that is over have no value; they are put back to
\* the initial one.
EndCall(t) ==
  /\ Goto(t, "idle")
  /\ call' = [call EXCEPT ![t] = "signal"]

\* while( waiters=cond->waiters )
ReadWaiters(t) ==
  /\ pc[t] = "read"
  /\ seen' = [seen EXCEPT ![t] = waiters]
  /\ IF waiters = 0
     THEN EndCall(t)
     ELSE Goto(t, "swap") /\ UNCHANGED call
  /\ UNCHANGED <<sync, timed, left, spare>>

\* The semaphore will be posted n times.
Take(t, n) ==
  /\ left' = [left EXCEPT ![t] = n]
  /\ seen' = [seen EXCEPT ![t] = 0]
  /\ Goto(t, "post")
  /\ UNCHANGED call

Retry(t) ==
  /\ seen' = [seen EXCEPT ![t] = 0]
  /\ Goto(t, "read")
  /\ UNCHANGED <<waiters, left, call>>

\* Slip: the count is written without the comparison.
Swap_blind(t) ==
  /\ pc[t] = "swap"
  /\ waiters' = IF call[t] = "signal" THEN seen[t] - 1 ELSE 0
  /\ Take(t, IF call[t] = "signal" THEN 1 ELSE seen[t])
  /\ UNCHANGED <<mutex, permits, timed, spare>>

\* Slip: while( --waiters ) instead of while( waiters-- ).
Swap_short(t) ==
  /\ pc[t] = "swap"
  /\ \/ /\ waiters = seen[t]
        /\ waiters' = IF call[t] = "signal" THEN seen[t] - 1 ELSE 0
        /\ IF call[t] = "signal" \/ seen[t] > 1
           THEN Take(t, IF call[t] = "signal" THEN 1 ELSE seen[t] - 1)
           ELSE EndCall(t) /\ seen' = [seen EXCEPT ![t] = 0] /\ UNCHANGED left
     \/ /\ waiters # seen[t]
        /\ Retry(t)
  /\ UNCHANGED <<mutex, permits, timed, spare>>

Swap(t) ==
  /\ pc[t] = "swap"
  /\ \/ /\ waiters = seen[t]
        /\ waiters' = IF call[t] = "signal" THEN seen[t] - 1 ELSE 0
        /\ Take(t, IF call[t] = "signal" THEN 1 ELSE seen[t])
     \/ /\ waiters # seen[t]
        /\ Retry(t)
  /\ UNCHANGED <<mutex, permits, timed, spare>>

PostSemaphore(t) ==
  /\ pc[t] = "post"
  /\ permits' = permits + 1
  /\ left' = [left EXCEPT ![t] = left[t] - 1]
  /\ IF left[t] = 1 THEN EndCall(t) ELSE UNCHANGED <<pc, call>>
  /\ UNCHANGED <<mutex, waiters, timed, seen, spare>>

-----------------------------------------------------------------------------
WaitStep(t) == ReleaseMutex(t) \/ WaitSemaphore(t) \/ TimedOut(t) \/ Relock(t)
SignalStep(t) == ReadWaiters(t) \/ Swap(t) \/ PostSemaphore(t)

Waits(t) == \E isTimed \in BOOLEAN : CountWaiter(t, isTimed)
Calls(t) == \E c \in {"signal", "broadcast"} : Call(t, c)

CondNext ==
  \E t \in Threads :
    LockMutex(t) \/ UnlockMutex(t) \/ Waits(t) \/ WaitStep(t) \/ Calls(t) \/ SignalStep(t)

\* A thread inside a call goes on; one outside may do as it likes, which includes
\* never letting go of the mutex.  The time-out is not relied on.
CondFairness ==
  \A t \in Threads :
    /\ WF_condVars(ReleaseMutex(t)) /\ WF_condVars(WaitSemaphore(t))
    /\ WF_condVars(ReadWaiters(t)) /\ WF_condVars(Swap(t)) /\ WF_condVars(PostSemaphore(t))

CondSafeSpec == CondInit /\ [][CondNext]_condVars
CondSpec == CondSafeSpec /\ CondFairness

-----------------------------------------------------------------------------
CondTypeOK ==
  /\ mutex \in Threads \union {NoThread}
  /\ waiters \in Nat
  /\ permits \in Nat
  /\ pc \in [Threads -> {"idle", "counted", "blocked", "relock", "read", "swap", "post"}]
  /\ timed \in [Threads -> BOOLEAN]
  /\ call \in [Threads -> {"signal", "broadcast"}]
  /\ seen \in [Threads -> Nat]
  /\ left \in [Threads -> Nat]
  /\ spare \in Nat
  /\ \A t \in Threads :
       /\ pc[t] = "counted" => mutex = t
       /\ pc[t] \in {"blocked", "relock"} => mutex # t
       /\ pc[t] = "swap" => seen[t] > 0
       /\ (left[t] > 0) = (pc[t] = "post")

(***************************************************************************)
(* No wake-up is lost and none is made up: the sleepers still counted and  *)
(* the wake-ups granted are exactly as many as the sleepers, plus one for  *)
(* every timed wait that has ever timed out.  A time-out so leaves behind  *)
(* one spurious wake-up (threads.c:116 to 136 never takes the waiter off   *)
(* the count).                                                             *)
(***************************************************************************)
Conservation == waiters + Granted = Cardinality(Sleeping) + spare

\* How far a thread is with a call, for CondVar.
PhaseOf(t) ==
  CASE pc[t] \in {"read", "swap"} -> call[t]
    [] pc[t] = "post" -> "done"
    [] OTHER -> "idle"
Phase == [t \in Threads |-> PhaseOf(t)]

(***************************************************************************)
(* SignalCond and BroadcastCond, called in any number at once and with or  *)
(* without the mutex, do what CondVar says.                                *)
(***************************************************************************)
Abstract == INSTANCE CondVar WITH
  sleeping <- Sleeping, granted <- Granted, phase <- Phase
ImplementsCondVar == Abstract!Spec

(***************************************************************************)
(* If nobody new waits and every sleeper has been granted a wake-up, they  *)
(* all get past the semaphore: a permit is not taken by somebody else.     *)
(***************************************************************************)
NoNewWaits == <>[][\A t \in Threads : ~Waits(t)]_condVars
SleepersWake == (NoNewWaits /\ <>[](waiters = 0)) => <>[](Sleeping = {})
=============================================================================
