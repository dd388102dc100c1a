CONSTANTS
    Markets <- H1Markets
    SwingReach = 1
    Tolerance = 5
    M1Window = 4
    H1Window = 3
    MaxTriggers = 1
    MaxFaults = 0
    MaxRuns = 2
SPECIFICATION Spec
CHECK_DEADLOCK FALSE
PROPERTY BackfillFillsGaps
