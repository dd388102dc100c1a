SPECIFICATION Spec
CONSTANTS
    Timeframes <- OnlyM1
    Shapes <- HoldFailFill
    History <- History1
    Load <- Load1
    MinGap = 4
    KeepCap = 9
    ContextCap = 1
    MaxRows <- Rows1
    MaxTicks = 6
    MaxPending = 1
    MaxFaults = 0
CHECK_DEADLOCK FALSE
PROPERTIES
    FailureIsPermanent
