-------------------------- MODULE MCScheduledPool ---------------------------
(* Instances of ScheduledPool for TLC.                                     *)
EXTENDS ScheduledPool, TLC

CONSTANTS once, often     \* names of two tasks

\* One task runs once, the other recurs as often as it can.
Mixed == once :> 0 @@ often :> 1

\* Every task runs once.
AllOnce == [t \in Tasks |-> 0]
=============================================================================
