\* One thread, two jobs: an idle timeout against a second execute().
CONSTANTS
  Workers = {w1, w2}
  Initial = {}
  Clients = {c1}
  Jobs = {j1, j2}
  NoJob = NoJob
  Cached = TRUE
  IdleWait = TRUE
SPECIFICATION Spec
PROPERTIES ExecuteRuns
\* The pool can really hang here: see README, Findings.
CHECK_DEADLOCK FALSE
