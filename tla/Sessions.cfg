SPECIFICATION Spec
CONSTANTS
    s1 = s1
    s2 = s2
    s3 = s3
    s4 = s4
    Logins <- FourLogins
    Limits = {1, 2}
    Ttl = 2
    MaxFlight = 1
    Leeway = 1
INVARIANTS
    LiveBounded
    NewestLive
    AdmittedWasLive
    LiveTokenDecodes
PROPERTIES
    EvictedByLive
    ImplementsNewestSessions
CHECK_DEADLOCK FALSE
SYMMETRY LoginSymmetry
