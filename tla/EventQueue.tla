------------------------------ MODULE EventQueue ------------------------------
(***************************************************************************)
(* The queue of events (eventqueue.mod/eventqueue.bmx): a ring of TEvent   *)
(* objects between two counters that are never reduced to its size.  An    *)
(* event that is posted is copied; the object that PollEvent takes out of  *)
(* the ring becomes CurrentEvent.                                          *)
(***************************************************************************)
EXTENDS Integers, Sequences, Functions

CONSTANTS
  Events,      \* records with the fields key (id and source) and data
  NullEvent,
  QueueSize,   \* QUEUESIZE; 256 in the code
  Width,       \* the counters are taken modulo 2^Width; 32 in the code
  Objects,     \* TEvent objects: one for each slot, CurrentEvent and a new one
  Nil          \* Null

VARIABLES
  slots,       \* queue: an object or Nil in each slot
  object,      \* the fields of each object
  put, get,    \* queue_put and queue_get
  current      \* CurrentEvent, as an object; Nil stands for NullEvent

vars == <<slots, object, put, get, current>>

Slots == 0 .. QueueSize - 1
Slot(n) == n % QueueSize         \* n & QUEUEMASK
Plus(m, n) == (m + n) % 2 ^ Width
InQueue == (put - get) % 2 ^ Width
Empty == get = put

\* The slots from get to put.
Ring == [i \in 1 .. InQueue |-> Slot(Plus(get, i - 1))]

Init ==
  /\ slots = [s \in Slots |-> Nil]
  /\ object = [o \in Objects |-> NullEvent]
  /\ put = 0 /\ get = 0
  /\ current = Nil

Unused == Objects \ (Range(slots) \union {current})

\* The object in the slot, or a new one.
ObjectFor(s) == IF slots[s] = Nil THEN CHOOSE o \in Unused : TRUE ELSE slots[s]

Matches(event) == {i \in DOMAIN Ring : object[slots[Ring[i]]].key = event.key}

Update(event) ==
  LET i == CHOOSE i \in Matches(event) : \A j \in Matches(event) : i <= j
  IN  /\ object' = [object EXCEPT ![slots[Ring[i]]] = event]
      /\ UNCHANGED <<slots, put, get, current>>

\* Slip: the test for a full queue is missing.
Add_untested(event) ==
  /\ LET s == Slot(put)
         o == ObjectFor(s)
     IN  /\ slots' = [slots EXCEPT ![s] = o]
         /\ object' = [object EXCEPT ![o] = event]
  /\ put' = Plus(put, 1)
  /\ UNCHANGED <<get, current>>

Add(event) ==
  /\ IF InQueue = QueueSize
     THEN UNCHANGED <<slots, object, put>>
     ELSE LET s == Slot(put)
              o == ObjectFor(s)
          IN  /\ slots' = [slots EXCEPT ![s] = o]
              /\ object' = [object EXCEPT ![o] = event]
              /\ put' = Plus(put, 1)
  /\ UNCHANGED <<get, current>>

PostEvent(event, update) ==
  IF update /\ Matches(event) # {} THEN Update(event) ELSE Add(event)

\* Slip: the slot keeps the object.
Take_kept ==
  /\ ~Empty
  /\ current' = slots[Slot(get)]
  /\ get' = Plus(get, 1)
  /\ UNCHANGED <<slots, object, put>>

\* The end of PollEvent and WaitEvent; the object of the last CurrentEvent is collected.
Take ==
  /\ ~Empty
  /\ current' = slots[Slot(get)]
  /\ slots' = [slots EXCEPT ![Slot(get)] = Nil]
  /\ object' = IF current = Nil THEN object ELSE [object EXCEPT ![current] = NullEvent]
  /\ get' = Plus(get, 1)
  /\ UNCHANGED put

TakeNothing ==
  /\ Empty
  /\ current' = Nil
  /\ object' = IF current = Nil THEN object ELSE [object EXCEPT ![current] = NullEvent]
  /\ UNCHANGED <<slots, put, get>>

-----------------------------------------------------------------------------
(***************************************************************************)
(* Exactly the slots between the counters hold an object, each its own and *)
(* none that of CurrentEvent, although the counters wrap round.            *)
(***************************************************************************)
RingExact ==
  /\ InQueue <= QueueSize
  /\ {s \in Slots : slots[s] # Nil} = Range(Ring)
  /\ \A s, t \in Slots : slots[s] = slots[t] /\ slots[s] # Nil => s = t
  /\ current # Nil => current \notin Range(slots)

\* The ring as a sequence of events.
Queued == [i \in DOMAIN Ring |-> object[slots[Ring[i]]]]
Current == IF current = Nil THEN NullEvent ELSE object[current]
=============================================================================
