---------------------------- MODULE MCLinkTable -----------------------------
(* Instances of LinkTable for TLC: a small alphabet, "0ABab", with two of    *)
(* each request, and the real one with one create after another.           *)
EXTENDS LinkTable, TLC

CONSTANTS c1, c2, d1, d2

TwoCreators == {c1, c2}
TwoDeleters == {d1, d2}
OneCreator == {c1}

\* encode_base62 gives different ids different codes, before case is folded.
ASSUME EncodeInjective ==
    \A m, n \in 0..(2 * Base) : Encode[m] = Encode[n] => m = n

\* "a", to MySQL the same as "A", the first id's candidate.
CustomCodes == {<<3>>}
NoCodes == {}
Nobody == {}
=============================================================================
