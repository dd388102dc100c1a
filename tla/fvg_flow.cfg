SPECIFICATION FairSpec
CONSTANTS
    Timeframes <- M1AndM5
    Shapes <- Shapes2
    History <- History2
    Load <- Load2
    MinGap = 4
    KeepCap = 4
    ContextCap = 1
    MaxRows <- Rows2
    MaxTicks = 3
    MaxPending = 1
    MaxFaults = 1
CHECK_DEADLOCK FALSE
INVARIANTS
    TypeOK
    TestsAreTrue
    InvertedIsFinal
PROPERTIES
    NeverBackwards
    TickEnds
