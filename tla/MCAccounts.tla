----------------------------- MODULE MCAccounts -----------------------------
(* Instances of Accounts for TLC: requests from one address or from two.   *)
EXTENDS Accounts, TLC

CONSTANTS r1, r2, uid, ipUid1, ipUid2, regIp

TwoRequests == {r1, r2}
TheKeys == {uid, ipUid1, ipUid2, regIp}
IpKeys == r1 :> ipUid1 @@ r2 :> ipUid2
RegisterKeys == [r \in TwoRequests |-> regIp]
Limits == [k \in TheKeys |-> IF k = uid THEN 2 ELSE 1]
Ttls == [k \in TheKeys |-> IF k = uid THEN 2 ELSE 1]
=============================================================================
