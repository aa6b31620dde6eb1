\* A cached pool whose idle threads time out; a thread for every job at most.
CONSTANTS
  Workers = {w1, w2, w3}
  Initial = {}
  Clients = {c1, c2}
  Jobs = {j1, j2, j3}
  NoJob = NoJob
  Cached = TRUE
  IdleWait = TRUE
SPECIFICATION SafeSpec
SYMMETRY Symmetry
INVARIANTS PromiseKept
PROPERTIES ImplementsExecutorSafe
\* The pool can really hang here: see README, Findings.
CHECK_DEADLOCK FALSE
