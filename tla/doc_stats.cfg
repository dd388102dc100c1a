SPECIFICATION Spec
CONSTANTS
    Candidates <- PlannedWait
    Conditions <- CalmOnly
    Prices <- NoPrices
    Clerks = {k1, k2}
    Marks <- StopOnly
    DayStart <- OneDay
    MonthStart <- OneDay
    WindowCap = 2
    QueueCap = 2
    MaxLag = 0
    MaxNow = 1
    MaxSignals = 2
    MaxFaults = 0
    MaxDailyLosses = 2
    MaxMonthlyTrades = 15
    Cooling = 1
    BucketMinutes = 1
INVARIANTS
    StatsUpToDate
CHECK_DEADLOCK FALSE
