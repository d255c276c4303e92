----------------------------- MODULE MCVisitLog -----------------------------
(* Instances of VisitLog for TLC.                                          *)
EXTENDS VisitLog, TLC

CONSTANTS v1, v2, v3, c1, c2

ThreeVisits == {v1, v2, v3}
TwoCodes == {c1, c2}
\* Two visits of one link and one of another.
TheirCodes == (v1 :> c1) @@ (v2 :> c2) @@ (v3 :> c1)
OneRefused  == {v2}
=============================================================================
