-------------------------------- MODULE MCTimed --------------------------------
(***************************************************************************)
(* What acts at times of its own: the scheduled executor and the timers,   *)
(* which share nothing.  The program uses one of them and leaves the other *)
(* as it was created.                                                      *)
(***************************************************************************)
EXTENDS MCScheduledPool, MCLinuxTimer

VARIABLE used     \* "executor" or "timers"

allVars == <<used, vars, timerVars>>

AnyInit == used \in {"executor", "timers"} /\ Init /\ TimerInit

\* Timers may come to rest, by a step of their own; the executor only as Quiet has it.
AnyNext ==
  \/ used = "executor" /\ Next /\ UNCHANGED <<used, timerVars>>
  \/ used = "timers" /\ TimerNext /\ UNCHANGED <<used, vars>>
  \/ used = "timers" /\ UNCHANGED allVars

\* What is not used can take no step, and is owed none.
AnySpec ==
  /\ AnyInit /\ [][AnyNext]_allVars
  /\ \/ used = "executor" /\ Fairness
     \/ used = "timers" /\ TimerFairness
=============================================================================
