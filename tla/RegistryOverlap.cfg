\* Three threads that are created, one that registers itself.
CONSTANTS
  k1 = k1
  k2 = k2
  k3 = k3
  f1 = f1
  Created = {k1, k2, k3}
  Foreign = {f1}
  Main = Main
  NoThread = NoThread
SPECIFICATION SafeSpec
INVARIANTS RunningKeepsBlock
CONSTRAINT Scenario
CHECK_DEADLOCK FALSE
