----------------------------- MODULE MCStatBlock -----------------------------
(***************************************************************************)
(* Instances of StatBlock for TLC.                                         *)
(***************************************************************************)
EXTENDS StatBlock, TLC

CONSTANTS p1, p2, p3

Long  == <<"W3SG-1", "0">>       \* W3SG-10
Eleven == <<"W3SG-1", "1">>      \* W3SG-11: differs in the second store only
Other == <<"N0ABC", Nul>>

TwoProcs == {p1, p2}
ThreeProcs == {p1, p2, p3}
TwinCalls == {Long, Eleven}
PlainCalls == {Long, Other}

\* Two processes of one callsign, of two callsigns.
SameCall == [p \in Proc |-> Long]
TwoCalls == [p \in Proc |-> IF p = p1 THEN Long ELSE Other]
TwinsOf == [p \in Proc |-> IF p = p1 THEN Long ELSE Eleven]

\* The two processes of SameCall can be exchanged.
Symmetry == Permutations(TwoProcs)

NoTable == [s \in 1 .. NSlot |-> NoCall]
BothKnown == [s \in 1 .. NSlot |-> IF s = 1 THEN Long
                                   ELSE IF s = 2 THEN Eleven ELSE NoCall]
=============================================================================
