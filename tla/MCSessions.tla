----------------------------- MODULE MCSessions -----------------------------
(* Instances of Sessions for TLC.                                          *)
EXTENDS Sessions, TLC

CONSTANTS s1, s2, s3, s4

FourLogins == {s1, s2, s3, s4}
LoginSymmetry == Permutations(Logins)
=============================================================================
