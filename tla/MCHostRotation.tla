--------------------------- MODULE MCHostRotation ---------------------------
(***************************************************************************)
(* Instances of HostRotation for TLC.                                      *)
(***************************************************************************)
EXTENDS HostRotation, TLC

CONSTANTS p1, p2, h1, h2, h3, h4

ThreeHosts == <<h1, h2, h3>>
FourEntries == <<h1, h4, h2, h3>>       \* h4's entry is rejected
TwoProcs == {p1, p2}
Symmetry == Permutations(TwoProcs)
=============================================================================
