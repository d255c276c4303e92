----------------------------- MODULE MCLinkCache -----------------------------
(* Instances of LinkCache for TLC.                                         *)
EXTENDS LinkCache

CONSTANTS l1, l2, r1, r2, lower, upper

TwoLinks == {l1, l2}
TwoRedirects == {r1, r2}
TwoSpellings == {lower, upper}
\* The code comes back in another spelling, and each is asked for.
TheirCodes == [l \in Links |-> IF l = l1 THEN lower ELSE upper]
TheirAsked == [r \in Redirects |-> IF r = r1 THEN lower ELSE upper]
\* One link that is cached for all its life, and one that outlives its copy.
TheirTtl == [l \in Links |-> IF l = l1 THEN 2 ELSE 3]
=============================================================================
