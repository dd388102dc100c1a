SPECIFICATION FairSpec
CONSTANTS
    Candidates <- PlannedWait
    Conditions <- CalmOnly
    Prices <- OnlyStop
    Clerks = {k1, k2}
    Marks <- StopOnly
    DayStart <- OneDay
    MonthStart <- OneDay
    WindowCap = 1
    QueueCap = 2
    MaxLag = 0
    MaxNow = 1
    MaxSignals = 2
    MaxFaults = 0
    MaxDailyLosses = 2
    MaxMonthlyTrades = 15
    Cooling = 2
    BucketMinutes = 1
INVARIANTS
    StopStartsCooling
PROPERTIES
    CoolingHonoured
    QueuedIsDecided
    PublishedBecomesTrade
