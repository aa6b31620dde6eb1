\* Two threads that are created, one that registers itself.
CONSTANTS
  k1 = k1
  k2 = k2
  k3 = k3
  f1 = f1
  Created = {k1, k2}
  Foreign = {f1}
  Main = Main
  NoThread = NoThread
SPECIFICATION Spec
INVARIANTS OnlyFirstsUnlocked ListsExact FreedLate
PROPERTIES GetsToRun
CONSTRAINT NoOverlap
CHECK_DEADLOCK FALSE
