------------------------------ MODULE MCMonitor ------------------------------
(***************************************************************************)
(* Instances of Monitor for TLC: one process for each of two callsigns.    *)
(***************************************************************************)
EXTENDS Monitor

CONSTANTS p1, p2, c1, c2

BothProcs == {p1, p2}
BothCalls == {c1, c2}
InOrder == <<c1, c2>>
OneEach == [p \in Proc |-> IF p = p1 THEN c1 ELSE c2]
=============================================================================
