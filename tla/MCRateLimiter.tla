---------------------------- MODULE MCRateLimiter ----------------------------
(* Instances of RateLimiter for TLC.                                       *)
EXTENDS RateLimiter, TLC

CONSTANTS r1, r2, r3, r4

FourRequests == {r1, r2, r3, r4}
RequestSymmetry == Permutations(Requests)
=============================================================================
