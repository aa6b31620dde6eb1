---------------------------- MODULE ThreadEvent -----------------------------
(***************************************************************************)
(* brl.threads' TThreadEvent: Set(), Clear() and the two forms of Wait()   *)
(* (threads.mod/threads.bmx).                                              *)
(*                                                                         *)
(* What a call does under the lock up to its wait or its return is one     *)
(* action, during which the clock stands still.                            *)
(***************************************************************************)
EXTENDS Integers

CONSTANTS
  Waiters,     \* the threads that call Wait()
  Timeouts,    \* the timeouts they call it with
  Forever,     \* in place of a timeout: the form that takes none
  Width,       \* the number of bits of Int, to which the timeout is cut down
  MaxTime      \* bound: the clock stops here

ASSUME EventAssumption ==
  /\ Timeouts \subseteq Nat
  /\ Forever \notin Int
  /\ Width \in Nat \ {0}
  /\ MaxTime \in Nat

VARIABLES
  clock,       \* CurrentUnixTime()
  isSet,
  wpc,         \* each waiter: "out", "asleep", "woken", or what Wait() returned
  endTime,     \* when its Wait() gives up
  until        \* when the wait on the condvar inside it gives up

vars == <<clock, isSet, wpc, endTime, until>>

Asleep == {w \in Waiters : wpc[w] = "asleep"}

\* Int(x): the low bits of x as a signed number.
ToInt(x) ==
  LET low == x % 2 ^ Width
  IN  IF low >= 2 ^ (Width - 1) THEN low - 2 ^ Width ELSE low

Init ==
  /\ clock = 0
  /\ isSet = FALSE
  /\ wpc = [w \in Waiters |-> "out"]
  /\ endTime = [w \in Waiters |-> Forever]
  /\ until = [w \in Waiters |-> Forever]

\* Bounded by MaxTime.
Tick ==
  /\ clock < MaxTime
  /\ clock' = clock + 1
  /\ UNCHANGED <<isSet, wpc, endTime, until>>

-----------------------------------------------------------------------------
Past(end) == end # Forever /\ clock >= end

\* Slip (put in the place of the definition it is named after to show that a property
\* notices it): a thread that goes round again waits without a timeout.
Test_forever(w, end) ==
  /\ wpc' = [wpc EXCEPT ![w] = IF isSet THEN "true" ELSE IF Past(end) THEN "false" ELSE "asleep"]
  /\ endTime' = [endTime EXCEPT ![w] = end]
  /\ until' = [until EXCEPT ![w] = IF end = Forever \/ wpc[w] = "woken" THEN Forever
                                   ELSE clock + ToInt(end - clock)]
  /\ UNCHANGED <<clock, isSet>>

\* The loop of Wait(), entered or gone round again with the lock held.
Test(w, end) ==
  /\ wpc' = [wpc EXCEPT ![w] = IF isSet THEN "true" ELSE IF Past(end) THEN "false" ELSE "asleep"]
  /\ endTime' = [endTime EXCEPT ![w] = end]
  /\ until' = [until EXCEPT ![w] = IF end = Forever THEN Forever ELSE clock + ToInt(end - clock)]
  /\ UNCHANGED <<clock, isSet>>

Wait(w) ==
  /\ wpc[w] = "out"
  /\ Test(w, Forever)

\* Bound: the waits end within MaxTime.
WaitFor(w, timeout) ==
  /\ wpc[w] = "out"
  /\ clock + timeout <= MaxTime
  /\ Test(w, clock + timeout)

Retest(w) ==
  /\ wpc[w] = "woken"
  /\ Test(w, endTime[w])

\* Slip: the condvar's timeout is taken for the call's.
TimeOut_final(w) ==
  /\ wpc[w] = "asleep"
  /\ until[w] # Forever
  /\ clock >= until[w]
  /\ wpc' = [wpc EXCEPT ![w] = "false"]
  /\ UNCHANGED <<clock, isSet, endTime, until>>

\* condition.TimedWait returns.  A timeout that became negative is over at once.
TimeOut(w) ==
  /\ wpc[w] = "asleep"
  /\ until[w] # Forever
  /\ clock >= until[w]
  /\ wpc' = [wpc EXCEPT ![w] = "woken"]
  /\ UNCHANGED <<clock, isSet, endTime, until>>

SpuriousWakeup(w) ==
  /\ wpc[w] = "asleep"
  /\ wpc' = [wpc EXCEPT ![w] = "woken"]
  /\ UNCHANGED <<clock, isSet, endTime, until>>

\* The caller goes on, and may wait again.
Return(w) ==
  /\ wpc[w] \in {"true", "false"}
  /\ wpc' = [wpc EXCEPT ![w] = "out"]
  /\ endTime' = [endTime EXCEPT ![w] = Forever]
  /\ until' = [until EXCEPT ![w] = Forever]
  /\ UNCHANGED <<clock, isSet>>

-----------------------------------------------------------------------------
\* Slip: condition.Signal() instead of Broadcast().
Set_signal ==
  /\ isSet' = TRUE
  /\ \/ Asleep = {} /\ wpc' = wpc
     \/ \E w \in Asleep : wpc' = [wpc EXCEPT ![w] = "woken"]
  /\ UNCHANGED <<clock, endTime, until>>

Set ==
  /\ isSet' = TRUE
  /\ wpc' = [w \in Waiters |-> IF w \in Asleep THEN "woken" ELSE wpc[w]]
  /\ UNCHANGED <<clock, endTime, until>>

Clear ==
  /\ isSet' = FALSE
  /\ UNCHANGED <<clock, wpc, endTime, until>>

Next ==
  \/ Tick
  \/ \E w \in Waiters :
       \/ Wait(w) \/ Retest(w) \/ TimeOut(w) \/ SpuriousWakeup(w) \/ Return(w)
       \/ \E timeout \in Timeouts : WaitFor(w, timeout)
  \/ Set \/ Clear

\* Time passes and waiting threads are scheduled; nobody has to set the event.
Fairness ==
  /\ WF_vars(Tick)
  /\ \A w \in Waiters : WF_vars(Retest(w)) /\ WF_vars(TimeOut(w))

SafeSpec == Init /\ [][Next]_vars
Spec     == SafeSpec /\ Fairness

-----------------------------------------------------------------------------
(* Properties                                                              *)

\* The variables have their types; exactly the waits with a timeout have one on
\* the condvar.
TypeOK ==
  /\ clock \in 0 .. MaxTime /\ isSet \in BOOLEAN
  /\ wpc \in [Waiters -> {"out", "asleep", "woken", "true", "false"}]
  /\ endTime \in [Waiters -> Nat \cup {Forever}]
  /\ until \in [Waiters -> Int \cup {Forever}]
  /\ \A w \in Waiters : until[w] = Forever <=> endTime[w] = Forever

\* No thread sleeps on an event that is set: "Threads that call Wait once the
\* flag is true will not block at all", and those that did before are woken.
SetWakesAll == isSet => Asleep = {}

\* Wait(timeout) returns False only when its time is over, although the wait on
\* the condvar inside it may end long before: Int() cuts a long timeout down.
FalseIsLate == \A w \in Waiters : wpc[w] = "false" => Past(endTime[w])

\* Both forms return True only in a step that finds the event set.
TrueWasSet == [][\A w \in Waiters : wpc'[w] = "true" => wpc[w] = "true" \/ isSet]_vars

\* Wait(timeout) returns, whatever the other threads do to the event.
TimedWaitReturns ==
  \A w \in Waiters : wpc[w] = "asleep" /\ endTime[w] # Forever ~> wpc[w] \in {"true", "false"}
=============================================================================
