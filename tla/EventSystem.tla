----------------------------- MODULE EventSystem ------------------------------
(***************************************************************************)
(* Events on the main thread: EmitEvent runs the hooks of EmitEventHook    *)
(* (HookList), of which one puts the event into the queue (EventQueue),    *)
(* and PollEvent polls the system for events when the queue is empty.      *)
(* Hook functions may emit, post and poll in their turn.                   *)
(***************************************************************************)
EXTENDS Integers, Sequences, FiniteSets

CONSTANTS
  Hooks, Priority, Nil,
  QueueHook,       \* the hook that eventqueue.bmx adds when the program starts
  Events, NullEvent, QueueSize, Width, Objects,
  Updating,        \* the keys of the events that Hook posts with update
  MaxDepth         \* bound: so many calls inside each other

\* The program has finitely many hooks; there is always an object that is not in use;
\* QUEUESIZE divides what the counters are taken modulo.
ASSUME SystemAssumption ==
  /\ IsFiniteSet(Hooks) /\ QueueHook \in Hooks
  /\ Priority \in [Hooks -> Int]
  /\ Nil \notin Hooks /\ Nil \notin Objects
  /\ IsFiniteSet(Objects) => Cardinality(Objects) > QueueSize
  /\ MaxDepth \in Nat
  /\ QueueSize \in Nat \ {0}
  /\ 2 ^ Width \in Nat /\ 2 ^ Width > QueueSize /\ 2 ^ Width % QueueSize = 0

VARIABLES
  first, succ, fresh, runs,              \* of HookList
  slots, object, put, get, current,      \* of EventQueue
  calls            \* the calls the main thread is in, innermost first: "run", "poll"

hookVars == <<first, succ, fresh, runs>>
queueVars == <<slots, object, put, get, current>>
vars == <<hookVars, queueVars, calls>>

List == INSTANCE HookList WITH Data <- Events
Queue == INSTANCE EventQueue
Fifo == INSTANCE EventFifo WITH queue <- Queue!Queued, current <- Queue!Current

Init ==
  /\ first = QueueHook
  /\ succ = [h \in Hooks |-> Nil]
  /\ fresh = Hooks \ {QueueHook}
  /\ runs = <<>>
  /\ Queue!Init
  /\ calls = <<>>

\* The program runs outside of all calls and in its hook functions.
InHook == calls # <<>> /\ Head(calls) = "run"
Running == calls = <<>> \/ (InHook /\ Head(runs).at # QueueHook)
InPoll == calls # <<>> /\ Head(calls) = "poll"

\* EmitEvent, by the program or by the system while it is polled.
EmitEvent(event) ==
  /\ Running \/ InPoll
  /\ Len(calls) < MaxDepth
  /\ List!Begin(event)
  /\ calls' = <<"run">> \o calls
  /\ UNCHANGED queueVars

AddHook(h) == Running /\ List!AddHook(h) /\ UNCHANGED <<queueVars, calls>>

\* The program does not have the means to remove the queue's own hook.
RemoveHook(h) ==
  /\ Running
  /\ h # QueueHook
  /\ List!RemoveHook(h)
  /\ UNCHANGED <<queueVars, calls>>

PostEvent(event, update) ==
  /\ Running
  /\ Queue!PostEvent(event, update)
  /\ UNCHANGED <<hookVars, calls>>

Returns(data) ==
  /\ List!Return(data)
  /\ calls' = IF List!Over THEN Tail(calls) ELSE calls

\* A hook function hands the event on, or keeps it from the next ones.
HookReturns ==
  /\ InHook
  /\ Head(runs).at # QueueHook
  /\ \E data \in {Head(runs).data, Nil} : Returns(data)
  /\ UNCHANGED queueVars

\* Hook of eventqueue.bmx.
Hook ==
  /\ InHook
  /\ Head(runs).at = QueueHook
  /\ LET event == Head(runs).data
     IN  IF event = Nil
         THEN Returns(Nil) /\ UNCHANGED queueVars
         ELSE Returns(event) /\ Queue!PostEvent(event, event.key \in Updating)

\* PollEvent: the system is polled when there is nothing in the queue.
PollEvent ==
  /\ Running
  /\ IF Queue!Empty
     THEN /\ Len(calls) < MaxDepth
          /\ calls' = <<"poll">> \o calls
          /\ UNCHANGED queueVars
     ELSE Queue!Take /\ UNCHANGED calls
  /\ UNCHANGED hookVars

PollSystemReturns ==
  /\ InPoll
  /\ Queue!Take \/ Queue!TakeNothing
  /\ calls' = Tail(calls)
  /\ UNCHANGED hookVars

Next ==
  \/ \E event \in Events : EmitEvent(event)
  \/ \E event \in Events : PostEvent(event, event.key \in Updating)
  \/ \E h \in Hooks : AddHook(h) \/ RemoveHook(h)
  \/ HookReturns \/ Hook \/ PollEvent \/ PollSystemReturns

Spec == Init /\ [][Next]_vars

-----------------------------------------------------------------------------
\* The properties of the parts, by name: hooks are in order of priority
\* (hook.bmx:57 to 64);
Ordered == List!Ordered

\* RunHooks passes over nobody who stays (hook.bmx:86 to 93);
StayersCalled == List!StayersCalled

\* and the slots of the ring are used one by one (eventqueue.bmx:102 to 168).
RingExact == Queue!RingExact

(***************************************************************************)
(* The ring and the copies, with PollSystem and hook functions inside of   *)
(* PollEvent, are a first-in first-out queue, and CurrentEvent stays as it *)
(* is until the next poll.                                                 *)
(***************************************************************************)
ImplementsFifo == Fifo!Spec
=============================================================================
