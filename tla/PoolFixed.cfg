\* A fixed pool of two threads, a caller, three jobs: more jobs than threads, so that
\* one permit stands for several queued jobs.
CONSTANTS
  Workers = {w1, w2}
  Initial = {w1, w2}
  Clients = {c1}
  Jobs = {j1, j2, j3}
  NoJob = NoJob
  Cached = FALSE
  IdleWait = FALSE
SPECIFICATION Spec
INVARIANTS CountersExact SleepersNotified NoStrandedJob JobsOnce PromiseKept
PROPERTIES ImplementsExecutor
