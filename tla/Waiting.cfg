\* Two threads that wait for an event, timeouts on both sides of what a three-bit
\* Int can hold; three getters, two results; three threads at a condition
\* variable, two waits that time out.
CONSTANTS
  Waiters = {w1, w2}
  Timeouts = {0, 2, 5}
  Forever = Forever
  Width = 3
  MaxTime = 6
  Getters = {g1, g2, g3}
  Values = {v1, v2}
  NoValue = NoValue
  Threads = {t1, t2, t3}
  NoThread = NoThread
  MaxTimeouts = 2
SPECIFICATION AnySpec
INVARIANTS SetWakesAll FalseIsLate Conservation
PROPERTIES TimedWaitReturns AloneIsServed ImplementsCondVar SleepersWake
\* All three threads may wait for each other.
CHECK_DEADLOCK FALSE
