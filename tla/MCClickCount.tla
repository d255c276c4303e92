---------------------------- MODULE MCClickCount ----------------------------
(* Instances of ClickCount for TLC.                                        *)
EXTENDS ClickCount, TLC

CONSTANTS v1, v2, c1, c2

TwoVisits == {v1, v2}
TwoCodes == {c1, c2}
\* All visits of one link; the key of another is only set, read and dropped.
SameCode == [v \in Visits |-> c1]
=============================================================================
