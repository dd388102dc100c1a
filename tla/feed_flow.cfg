CONSTANTS
    Markets <- AllMarkets
    SwingReach = 1
    Tolerance = 5
    M1Window = 4
    H1Window = 3
    MaxTriggers = 1
    MaxFaults = 1
    MaxRuns = 2
SPECIFICATION Spec
CHECK_DEADLOCK FALSE
INVARIANTS
    TypeOK
    SweepOncePerRun
    GapsTrackedWhileGrowing
PROPERTIES
    LostStaysLost
