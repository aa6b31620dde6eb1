------------------------------- MODULE MCWaiting -------------------------------
(***************************************************************************)
(* What threads wait on: a TThreadEvent, a TFuture and the condition       *)
(* variable of Windows, which share nothing.  The program uses one of them *)
(* and leaves the others as they were created.                             *)
(***************************************************************************)
EXTENDS ThreadEvent, WinCond

CONSTANTS Getters, Values, NoValue

VARIABLES
  used,                                  \* "event", "future" or "cond"
  value, ready, gpc, result, given       \* of Future

Fut == INSTANCE Future

futureVars == <<value, ready, gpc, result, given>>
allVars == <<used, vars, futureVars, condVars>>

AnyInit == used \in {"event", "future", "cond"} /\ Init /\ Fut!Init /\ CondInit

AnyNext ==
  \/ used = "event" /\ Next /\ UNCHANGED <<used, futureVars, condVars>>
  \/ used = "future" /\ Fut!Next /\ UNCHANGED <<used, vars, condVars>>
  \/ used = "cond" /\ CondNext /\ UNCHANGED <<used, vars, futureVars>>

\* What is not used can take no step, and is owed none.
AnySpec ==
  /\ AnyInit /\ [][AnyNext]_allVars
  /\ \/ used = "event" /\ Fairness
     \/ used = "future" /\ Fut!Fairness
     \/ used = "cond" /\ CondFairness

\* The property of Future, by its name: a thread that waits alone gets its result
\* (threads.bmx:388 to 410).
AloneIsServed == Fut!AloneIsServed
=============================================================================
