--------------------------- MODULE MCThreadRegistry ---------------------------
(***************************************************************************)
(* ThreadRegistry for TLC: where the runs stop.                            *)
(***************************************************************************)
EXTENDS ThreadRegistry

CONSTANTS k1, k2, k3, f1   \* the threads

\* Beyond the moment at which two threads are at the lists at once ListsExact, FreedLate
\* and GetsToRun say nothing any more, and any link may lead anywhere.
NoOverlap == ~overlapped

\* One course of events in which two threads are at the lists at once: f1, which came
\* without the lock, is on its way through the list while k2 comes and goes, k1 stays and
\* is detached, and k3 comes when f1 has ended.
Scenario ==
  /\ detached \subseteq {k1}
  /\ k1 \in detached => pc[f1] = "ended"
  /\ \A c \in Threads : making[c] = NoThread
  /\ making[Main] = k2 => pc[k1] = "running" /\ pc[f1] = "walk"
  /\ making[Main] = k3 => pc[f1] = "ended"
  /\ pc[k1] \notin Removing
=============================================================================
