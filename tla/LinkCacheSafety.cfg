SPECIFICATION Spec
CONSTANTS
    l1 = l1
    l2 = l2
    r1 = r1
    r2 = r2
    lower = lower
    upper = upper
    NoLink = NoLink
    Spellings <- TwoSpellings
    CodeOf <- TheirCodes
    Asked <- TheirAsked
    Links <- TwoLinks
    Redirects <- TwoRedirects
    Ttl <- TheirTtl
    MaxCacheTtl = 2
    MinCacheTtl = 1
    MaxDelay = 1
    MaxTime = 5
INVARIANTS
    StaleBounded
PROPERTIES
    ServesCommitted
    ServesFresh
    GoneForGood
