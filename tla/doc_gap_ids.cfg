CONSTANTS
    Markets <- H1Markets
    SwingReach = 1
    Tolerance = 5
    M1Window = 4
    H1Window = 2
    MaxTriggers = 1
    MaxFaults = 0
    MaxRuns = 1
SPECIFICATION Spec
CHECK_DEADLOCK FALSE
INVARIANT GapsTracked
