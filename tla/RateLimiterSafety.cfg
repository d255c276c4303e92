SPECIFICATION Spec
CONSTANTS
    r1 = r1
    r2 = r2
    r3 = r3
    r4 = r4
    Requests <- FourRequests
    Limit = 2
    Window = 3
    MaxFlight = 2
    MaxCount = 5
    MaxCancels = 2
INVARIANTS
    ExpiryOnItsWay
    WindowClosesUncancelled
    SlidingBound
PROPERTIES
    DeadlineFixed
SYMMETRY RequestSymmetry
