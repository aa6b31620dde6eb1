------------------------------ MODULE Executor ------------------------------
(***************************************************************************)
(* What a TThreadPoolExecutor promises its callers, with the threads, the  *)
(* locks and the semaphore left out: jobs are accepted, started in the     *)
(* order they were accepted, and finished; shutdown() returns only when    *)
(* everything submitted before it was called has run.                      *)
(*                                                                         *)
(* ThreadPool implements this specification (ThreadPool!Contract) and      *)
(* ScheduledPool is built on top of it.                                    *)
(***************************************************************************)
EXTENDS Naturals, Sequences

CONSTANT Jobs        \* the TRunnables that callers may submit

VARIABLES
  pending,           \* accepted and not yet started, oldest first
  running,           \* inside run()
  finished,          \* run() has returned
  phase,             \* "open", "closing" (in shutdown()) or "closed"
  promised           \* what had been accepted when shutdown() was called

vars == <<pending, running, finished, phase, promised>>

Pending  == {pending[i] : i \in DOMAIN pending}
Accepted == Pending \cup running \cup finished

TypeOK ==
  /\ pending \in Seq(Jobs)
  /\ running \subseteq Jobs
  /\ finished \subseteq Jobs
  /\ phase \in {"open", "closing", "closed"}
  /\ promised \subseteq Jobs

Init ==
  /\ pending = <<>>
  /\ running = {}
  /\ finished = {}
  /\ phase = "open"
  /\ promised = {}

\* A call of execute() that saw isShutdown clear may still be on its way when
\* shutdown() starts, so acceptance is possible in every phase.
Accept(j) ==
  /\ j \notin Accepted
  /\ pending' = Append(pending, j)
  /\ UNCHANGED <<running, finished, phase, promised>>

Start ==
  /\ phase # "closed"
  /\ pending # <<>>
  /\ running' = running \cup {Head(pending)}
  /\ pending' = Tail(pending)
  /\ UNCHANGED <<finished, phase, promised>>

Finish(j) ==
  /\ j \in running
  /\ running' = running \ {j}
  /\ finished' = finished \cup {j}
  /\ UNCHANGED <<pending, phase, promised>>

Close ==
  /\ phase = "open"
  /\ phase' = "closing"
  /\ promised' = Accepted
  /\ UNCHANGED <<pending, running, finished>>

Return ==
  /\ phase = "closing"
  /\ running = {}
  /\ promised \subseteq finished
  /\ phase' = "closed"
  /\ UNCHANGED <<pending, running, finished, promised>>

Next ==
  \/ \E j \in Jobs : Accept(j) \/ Finish(j)
  \/ Start
  \/ Close
  \/ Return

\* A pool keeps starting what is pending, jobs return, and shutdown() returns.
Fairness ==
  /\ WF_vars(Start)
  /\ \A j \in Jobs : WF_vars(Finish(j))
  /\ WF_vars(Return)

SafeSpec == Init /\ [][Next]_vars
Spec     == SafeSpec /\ Fairness
=============================================================================
