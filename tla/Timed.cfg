\* A one-shot and a recurring task; two callers; delays and a period such that
\* the recurring task comes up before, with and after the other one.  Two timers and
\* a job; the pipe can get full before the program polls.
CONSTANTS
  once = once
  often = often
  Tasks = {once, often}
  Delays = {0, 1, 2}
  Period <- Mixed
  Callers = {c1, c2}
  NoTask = NoTask
  MaxTime = 2
  t1 = t1
  t2 = t2
  Timers = {t1, t2}
  Jobs = {j1}
  None = None
  PipeSize = 2
  MaxTicks <- TwoTicks
  MaxDepth = 3
SPECIFICATION AnySpec
INVARIANTS TasksSorted NeverOversleeps RunsSpaced
INVARIANTS TimerTypeOK FreedLast HeldWhileNeeded PipeMatches
PROPERTIES TasksRun ShutdownReturns StoppedFreed WaitReturns
