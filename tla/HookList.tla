------------------------------- MODULE HookList -------------------------------
(***************************************************************************)
(* A list of hook functions (hook.mod/hook.bmx) for one id.  RunHooks      *)
(* follows the links of the list while the functions it calls may add and  *)
(* remove hooks, and run the hooks again.  A hook that has been removed    *)
(* keeps its link.                                                         *)
(***************************************************************************)
EXTENDS Integers, Sequences, FiniteSets, Functions

CONSTANTS
  Hooks,       \* THook objects; each is added at most once
  Priority,    \* a function of them
  Nil,         \* Null, as a hook and as data
  Data         \* what is handed from one hook function to the next

VARIABLES
  first,       \* hooks[id]
  succ,        \* the field of each hook
  fresh,       \* the hooks not yet added
  runs         \* the RunHooks in progress, innermost first

vars == <<first, succ, fresh, runs>>

\* The hooks that the links lead to from h.
ChainFrom(h) ==
  LET chain[n \in 0 .. Cardinality(Hooks)] ==
        [g \in Hooks \union {Nil} |->
           IF g = Nil \/ n = 0 THEN <<>> ELSE <<g>> \o chain[n - 1][succ[g]]]
  IN  chain[Cardinality(Hooks)][h]

List == ChainFrom(first)
Listed == Range(List)

Init ==
  /\ first = Nil
  /\ succ = [h \in Hooks |-> Nil]
  /\ fresh = Hooks
  /\ runs = <<>>

\* Slip: the loop does not stop at a hook of lower priority.
Before_last(h) == IF List = <<>> THEN Nil ELSE List[Len(List)]

\* Where AddHook puts a hook: behind those of its own priority or a higher one.
Before(h) ==
  LET ahead == {i \in DOMAIN List : \A j \in 1 .. i : Priority[List[j]] >= Priority[h]}
  IN  IF ahead = {} THEN Nil ELSE List[CHOOSE i \in ahead : \A j \in ahead : j <= i]

AddHook(h) ==
  /\ h \in fresh
  /\ fresh' = fresh \ {h}
  /\ LET pred == Before(h)
     IN  IF pred = Nil
         THEN first' = h /\ succ' = [succ EXCEPT ![h] = first]
         ELSE first' = first /\ succ' = [succ EXCEPT ![h] = succ[pred], ![pred] = h]
  /\ UNCHANGED runs

\* Slip: the hook that is removed loses its link.
RemoveHook_cleared(h) ==
  /\ h \in Listed
  /\ first' = IF first = h THEN succ[h] ELSE first
  /\ succ' = [g \in Hooks |-> IF g = h THEN Nil ELSE IF succ[g] = h /\ g \in Listed THEN succ[h] ELSE succ[g]]
  /\ runs' = [i \in DOMAIN runs |-> [runs[i] EXCEPT !.due = @ \ {h}]]
  /\ UNCHANGED fresh

RemoveHook(h) ==
  /\ h \in Listed
  /\ first' = IF first = h THEN succ[h] ELSE first
  /\ succ' = [g \in Hooks |-> IF succ[g] = h /\ g \in Listed THEN succ[h] ELSE succ[g]]
  /\ runs' = [i \in DOMAIN runs |-> [runs[i] EXCEPT !.due = @ \ {h}]]
  /\ UNCHANGED fresh

\* RunHooks: at is the hook whose function is being called, data its argument; due is
\* history: the hooks that have been in the list all the while and are not yet called.
Begin(data) ==
  /\ first # Nil
  /\ runs' = <<[at |-> first, data |-> data, due |-> Listed \ {first}]>> \o runs
  /\ UNCHANGED <<first, succ, fresh>>

\* The function has returned data.
Return(data) ==
  /\ runs # <<>>
  /\ LET run == Head(runs)
         next == succ[run.at]
     IN  runs' = IF next = Nil
                 THEN Tail(runs)
                 ELSE <<[run EXCEPT !.at = next, !.data = data, !.due = @ \ {next}]>> \o Tail(runs)
  /\ UNCHANGED <<first, succ, fresh>>

Over == runs # <<>> /\ succ[Head(runs).at] = Nil

-----------------------------------------------------------------------------
(***************************************************************************)
(* The list is in order of priority, and no hook is in it twice.           *)
(***************************************************************************)
Ordered ==
  \A i, j \in DOMAIN List :
    i < j => Priority[List[i]] >= Priority[List[j]] /\ List[i] # List[j]

(***************************************************************************)
(* RunHooks calls every hook function that stays in the list while it      *)
(* runs, whatever the functions add and remove, themselves and the next    *)
(* one included: what is due is ahead.                                     *)
(***************************************************************************)
StayersCalled ==
  \A i \in DOMAIN runs : runs[i].due \subseteq Range(ChainFrom(succ[runs[i].at]))
=============================================================================
