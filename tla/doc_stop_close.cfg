SPECIFICATION FairSpec
CONSTANTS
    Candidates <- PlannedWait
    Conditions <- CalmOnly
    Prices <- OnlyStop
    Clerks = {k1}
    Marks <- NoMarks
    DayStart <- OneDay
    MonthStart <- OneDay
    WindowCap = 2
    QueueCap = 2
    MaxLag = 0
    MaxNow = 0
    MaxSignals = 1
    MaxFaults = 0
    MaxDailyLosses = 2
    MaxMonthlyTrades = 15
    Cooling = 1
    BucketMinutes = 1
PROPERTIES
    StopIsClosed
