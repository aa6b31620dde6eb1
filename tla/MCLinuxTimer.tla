----------------------------- MODULE MCLinuxTimer ------------------------------
(* Bounds for TLC. *)
EXTENDS LinuxTimer, TLC

CONSTANTS t1, t2

\* Two ticks of one timer, so that one may be run inside the other; the second timer
\* is started and stopped at any time, also by a hook function of the first one's.
TwoTicks == t1 :> 2 @@ t2 :> 0
=============================================================================
