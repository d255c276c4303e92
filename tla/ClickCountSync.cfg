SPECIFICATION FairSpec
CONSTANTS
    v1 = v1
    v2 = v2
    c1 = c1
    c2 = c2
    NoCode = NoCode
    Visits <- TwoVisits
    Codes <- TwoCodes
    CodeOf <- SameCode
    MaxFailures = 1
INVARIANTS
    Accounted
    OvercountBounded
PROPERTIES
    CountersDrain
