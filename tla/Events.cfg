\* Three hooks, two kinds of event, a ring of two slots whose counters wrap at four.
CONSTANTS
  queueHook = queueHook
  high = high
  other = other
  Hooks = {queueHook, high, other}
  Priority <- Priorities
  Nil = Nil
  QueueHook = queueHook
  Events <- AllEvents
  NullEvent <- Nothing
  QueueSize = 2
  Width = 2
  Objects = {o1, o2, o3}
  Updating = {"tick"}
  MaxDepth = 2
SPECIFICATION Spec
INVARIANTS Ordered StayersCalled RingExact
PROPERTIES ImplementsFifo
CHECK_DEADLOCK FALSE
