---------------------------- MODULE MCThreadPool ----------------------------
(* Instances of ThreadPool for TLC.                                        *)
EXTENDS ThreadPool, TLC

\* Threads and clients are interchangeable; so are jobs.  Only the runs without
\* temporal properties use it.
Symmetry == Permutations(Workers) \cup Permutations(Clients) \cup Permutations(Jobs)
=============================================================================
