---------------------------- MODULE MCAciCheckin ----------------------------
(***************************************************************************)
(* Instances of AciCheckin for TLC.                                        *)
(***************************************************************************)
EXTENDS AciCheckin, TLC

CONSTANTS p1, p2, c1, c2

TwoChannels == <<c2, c1>>

TwoRuns == {p1, p2}
Symmetry == Permutations(TwoRuns)
=============================================================================
