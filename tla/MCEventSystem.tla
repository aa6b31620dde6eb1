----------------------------- MODULE MCEventSystem -----------------------------
(* An instance for TLC. *)
EXTENDS EventSystem, TLC

CONSTANTS queueHook, high, other

\* The queue's hook has the lowest priority, the others have the same.
Priorities == queueHook :> 1 @@ high :> 2 @@ other :> 2

Ticks == {[key |-> "tick", data |-> n] : n \in 1 .. 2}
AllEvents == Ticks \union {[key |-> "key", data |-> 1]}
Nothing == [key |-> "none", data |-> 0]
=============================================================================
