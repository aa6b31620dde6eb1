------------------------------- MODULE Future -------------------------------
(***************************************************************************)
(* brl.threads' TFuture: one or more threads wait in GetResult() for a     *)
(* value that others provide with SetResult() (threads.mod/threads.bmx).   *)
(*                                                                         *)
(* What a call does under the mutex up to its wait or its return is one    *)
(* action.                                                                 *)
(***************************************************************************)

CONSTANTS
  Getters,     \* the threads that call GetResult()
  Values,      \* the values SetResult() is called with, each once
  NoValue      \* what `value` is before, none of these

VARIABLES
  value, ready,
  gpc,         \* each getter: "out", "asleep", "woken" or "back"
  result,      \* what its last GetResult() returned
  given        \* history: the values SetResult() has been called with

vars == <<value, ready, gpc, result, given>>

Asleep == {g \in Getters : gpc[g] = "asleep"}

Init ==
  /\ value = NoValue
  /\ ready = FALSE
  /\ gpc = [g \in Getters |-> "out"]
  /\ result = [g \in Getters |-> NoValue]
  /\ given = {}

\* While Not ready, condvar.Wait(mutex); then the value is read under the mutex.
GetResult(g) ==
  /\ gpc[g] \in {"out", "woken"}
  /\ gpc' = [gpc EXCEPT ![g] = IF ready THEN "back" ELSE "asleep"]
  /\ result' = IF ready THEN [result EXCEPT ![g] = value] ELSE result
  /\ UNCHANGED <<value, ready, given>>

SpuriousWakeup(g) ==
  /\ gpc[g] = "asleep"
  /\ gpc' = [gpc EXCEPT ![g] = "woken"]
  /\ UNCHANGED <<value, ready, result, given>>

\* Slip (put in the place of the definition it is named after to show that a property
\* notices it): SetResult does not signal.
SetResult_silent(v) ==
  /\ v \notin given
  /\ value' = v
  /\ ready' = TRUE
  /\ gpc' = gpc
  /\ given' = given \cup {v}
  /\ UNCHANGED result

\* condvar.Signal() wakes one getter, if one is waiting.
SetResult(v) ==
  /\ v \notin given
  /\ value' = v
  /\ ready' = TRUE
  /\ \/ Asleep = {} /\ gpc' = gpc
     \/ \E g \in Asleep : gpc' = [gpc EXCEPT ![g] = "woken"]
  /\ given' = given \cup {v}
  /\ UNCHANGED result

\* A thread may ask again.
Return(g) ==
  /\ gpc[g] = "back"
  /\ gpc' = [gpc EXCEPT ![g] = "out"]
  /\ UNCHANGED <<value, ready, result, given>>

Next ==
  \/ \E g \in Getters : GetResult(g) \/ SpuriousWakeup(g) \/ Return(g)
  \/ \E v \in Values : SetResult(v)

\* A getter that runs keeps running; nobody is obliged to set a result.
Fairness == \A g \in Getters : WF_vars(gpc[g] = "woken" /\ GetResult(g))

SafeSpec == Init /\ [][Next]_vars
Spec     == SafeSpec /\ Fairness

-----------------------------------------------------------------------------
(* Properties                                                              *)

\* The variables have their types, and there is a value if the future is ready.
TypeOK ==
  /\ value \in Values \cup {NoValue} /\ ready \in BOOLEAN
  /\ gpc \in [Getters -> {"out", "asleep", "woken", "back"}]
  /\ result \in [Getters -> Values \cup {NoValue}]
  /\ given \subseteq Values
  /\ ready => value \in given

\* GetResult() returns only what SetResult() was called with, never the field's
\* initial value, however often the condvar wakes it for nothing.
ResultWasGiven == \A g \in Getters : gpc[g] = "back" => result[g] \in given

\* A thread that is the only one to wait gets its result.
AloneIsServed ==
  \A g \in Getters : [](Asleep \subseteq {g}) => (ready ~> gpc[g] # "asleep")

\* "Sets the result of the asynchronous operation and signals any waiting
\* threads": once there is a result, no thread waits for it for ever.
AllAreServed == \A g \in Getters : ready ~> gpc[g] # "asleep"
=============================================================================
