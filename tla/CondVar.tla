------------------------------- MODULE CondVar --------------------------------
(***************************************************************************)
(* What a condition variable of brl.threads promises.  Whoever waits is    *)
(* asleep from before it lets go of the mutex.  A Signal or a Broadcast    *)
(* takes effect once, between its call and its return: it grants wake-ups, *)
(* which any sleeper may take, also one that went to sleep after the call  *)
(* (the code says that it is not fair).  A timed wait may give up; what    *)
(* it was or would have been granted is then to spare.                     *)
(***************************************************************************)
EXTENDS Naturals, FiniteSets

CONSTANT Threads

VARIABLES
  sleeping,    \* the threads inside a wait that has not been granted a wake-up
  granted,     \* wake-ups granted and not yet taken
  spare,       \* the number of waits that have given up
  phase        \* each thread: "idle", the call it is in, or "done" before its return

vars == <<sleeping, granted, spare, phase>>

Calls == {"signal", "broadcast"}

TypeOK ==
  /\ sleeping \subseteq Threads
  /\ granted \in Nat
  /\ spare \in Nat
  /\ phase \in [Threads -> Calls \union {"idle", "done"}]

Covered == granted >= Cardinality(sleeping)

Init ==
  /\ sleeping = {}
  /\ granted = 0
  /\ spare = 0
  /\ phase = [t \in Threads |-> "idle"]

Sleep(t) ==
  /\ t \notin sleeping
  /\ phase[t] = "idle"
  /\ sleeping' = sleeping \union {t}
  /\ UNCHANGED <<granted, spare, phase>>

Wake(t) ==
  /\ t \in sleeping
  /\ granted > 0
  /\ sleeping' = sleeping \ {t}
  /\ granted' = granted - 1
  /\ UNCHANGED <<spare, phase>>

GiveUp(t) ==
  /\ t \in sleeping
  /\ sleeping' = sleeping \ {t}
  /\ spare' = spare + 1
  /\ UNCHANGED <<granted, phase>>

Call(t, call) ==
  /\ t \notin sleeping
  /\ phase[t] = "idle"
  /\ phase' = [phase EXCEPT ![t] = call]
  /\ UNCHANGED <<sleeping, granted, spare>>

\* Nothing to do: every sleeper already has a wake-up coming.
Nothing(t) ==
  /\ phase[t] \in Calls
  /\ Covered
  /\ phase' = [phase EXCEPT ![t] = "idle"]
  /\ UNCHANGED <<sleeping, granted, spare>>

\* Never more than the sleepers and those who gave up are good for.
Grant(t) ==
  /\ phase[t] \in Calls
  /\ phase' = [phase EXCEPT ![t] = "done"]
  /\ IF phase[t] = "signal"
     THEN granted' = granted + 1
     ELSE granted' \in Cardinality(sleeping) .. (Cardinality(sleeping) + spare)
  /\ granted' <= Cardinality(sleeping) + spare
  /\ UNCHANGED <<sleeping, spare>>

Return(t) ==
  /\ phase[t] = "done"
  /\ phase' = [phase EXCEPT ![t] = "idle"]
  /\ UNCHANGED <<sleeping, granted, spare>>

Next ==
  \E t \in Threads :
    \/ Sleep(t) \/ Wake(t) \/ GiveUp(t) \/ Nothing(t) \/ Grant(t) \/ Return(t)
    \/ \E call \in Calls : Call(t, call)

Spec == Init /\ [][Next]_vars
=============================================================================
