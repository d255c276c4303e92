---------------------------- MODULE MCDailyStats ----------------------------
(* Instances of DailyStats for TLC.                                        *)
EXTENDS DailyStats

\* Three days and a bit, and changes of the clock by one tick or two.
ThreeDays == 0..13
ThreeOffsets == {-1, 0, 1}
=============================================================================
