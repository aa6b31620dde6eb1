\* One one-shot task: shutdown() while the scheduler has nothing to do.
CONSTANTS
  once = once
  often = often
  Tasks = {once}
  Delays = {0, 1}
  Period <- AllOnce
  Callers = {c1}
  NoTask = NoTask
  MaxTime = 1
SPECIFICATION Spec
PROPERTIES ShutdownProceeds
