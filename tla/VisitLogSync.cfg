SPECIFICATION FairSpec
CONSTANTS
    v1 = v1
    v2 = v2
    v3 = v3
    c1 = c1
    c2 = c2
    NoVisit = NoVisit
    NoCode = NoCode
    Visits <- ThreeVisits
    Codes <- TwoCodes
    CodeOf <- TheirCodes
    Refused <- OneRefused
    Batch = 2
    MaxFailures = 2
INVARIANTS
    LoggedAtLeastOnce
    SurplusBounded
PROPERTIES
    StreamDrains
