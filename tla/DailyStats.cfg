SPECIFICATION StatsSpec
CONSTANTS
    DayLen = 4
    Instants <- ThreeDays
    Offsets <- ThreeOffsets
    MaxVisits = 1
    MaxDays = 3
INVARIANTS
    DaysComplete
    DaysListed
    RefusedOnlyAtSwitch
CHECK_DEADLOCK FALSE
