SPECIFICATION Spec
CONSTANTS
    Candidates <- MixedCandidates
    Conditions <- CalmOnly
    Prices <- NoPrices
    Clerks = {k1}
    Marks <- NoMarks
    DayStart <- OneDay
    MonthStart <- Turn1
    WindowCap = 2
    QueueCap = 2
    MaxLag = 0
    MaxNow = 1
    MaxSignals = 2
    MaxFaults = 0
    MaxDailyLosses = 2
    MaxMonthlyTrades = 1
    Cooling = 1
    BucketMinutes = 1
INVARIANT EveryMonthCapped
CHECK_DEADLOCK FALSE
