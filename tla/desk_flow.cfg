SPECIFICATION Spec
CONSTANTS
    Candidates <- MixedCandidates
    Conditions <- CalmOnly
    Prices <- OnlyStop
    Clerks = {k1}
    Marks <- TookOnly
    DayStart <- OneDay
    MonthStart <- Turn1
    WindowCap = 2
    QueueCap = 2
    MaxLag = 0
    MaxNow = 1
    MaxSignals = 3
    MaxFaults = 1
    MaxDailyLosses = 2
    MaxMonthlyTrades = 1
    Cooling = 1
    BucketMinutes = 1
INVARIANTS
    TypeOK
    TradeBacked
    NoneForgotten
    PublishedHasTrade
    ClusterConsistent
    PresentMonthCap
PROPERTIES
    DecidedOnce
    DeskIsLedger
