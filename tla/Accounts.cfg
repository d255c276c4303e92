SPECIFICATION Spec
CONSTANTS
    r1 = r1
    r2 = r2
    uid = uid
    ipUid1 = ipUid1
    ipUid2 = ipUid2
    regIp = regIp
    Requests <- TwoRequests
    Keys <- TheKeys
    UserKey = uid
    IpKey <- IpKeys
    RegisterKey <- RegisterKeys
    Limit <- Limits
    Ttl <- Ttls
    MaxCancels = 1
INVARIANTS
    OvershootBounded
    RegistrationsBounded
    ExpiryOnItsWay
PROPERTIES
    LockEnds
