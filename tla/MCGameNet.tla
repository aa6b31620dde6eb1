------------------------------- MODULE MCGameNet -------------------------------
(* An instance for TLC. *)
EXTENDS GameNet

CONSTANTS c1, c2, o1, o2

\* One object is a client's, the other one the server's.
OneEach == [o \in {o1, o2} |-> IF o = o1 THEN {c1} ELSE {Server}]
=============================================================================
