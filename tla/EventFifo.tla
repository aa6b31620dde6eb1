------------------------------ MODULE EventFifo -------------------------------
(***************************************************************************)
(* What brl.eventqueue promises: events come out in the order in which     *)
(* they went in, except that one posted to update takes the place of the   *)
(* first one in the queue of the same id and source; a full queue takes    *)
(* no more; and CurrentEvent is the event last polled, whatever is posted. *)
(***************************************************************************)
EXTENDS Naturals, Sequences

CONSTANTS
  Events,      \* records with the fields key (id and source) and data
  NullEvent,
  QueueSize

VARIABLES queue, current

Same(event) == {i \in DOMAIN queue : queue[i].key = event.key}

Init == queue = <<>> /\ current = NullEvent

Post(event, update) ==
  /\ IF update /\ Same(event) # {}
     THEN \E i \in Same(event) :
            /\ \A j \in Same(event) : i <= j
            /\ queue' = [queue EXCEPT ![i] = event]
     ELSE queue' = IF Len(queue) < QueueSize THEN Append(queue, event) ELSE queue
  /\ UNCHANGED current

Poll ==
  /\ queue # <<>>
  /\ current' = Head(queue)
  /\ queue' = Tail(queue)

PollNothing ==
  /\ queue = <<>>
  /\ current' = NullEvent
  /\ UNCHANGED queue

Next == Poll \/ PollNothing \/ \E event \in Events, update \in BOOLEAN : Post(event, update)

Spec == Init /\ [][Next]_<<queue, current>>
=============================================================================
