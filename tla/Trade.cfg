SPECIFICATION TradeSpec
CONSTANTS
    s1 = s1
    s2 = s2
    r1 = r1
    r2 = r2
    Horizon = 3
    Today = 2
    Amounts = {1}
    Openings = {1}
    Posters = {"p"}
    Lockable = {2}
    Starts = {1}
    Drafted = {1}
    MaxEntries = 1
    MaxCloses = 1
    QuietClose = TRUE
    Sessions <- MCSessions
    Orders <- MCOrders
    Events <- MCEvents
    EventOf <- MCEventOf
    Warehouses <- MCWarehouses
    Pushed <- MCPushed
    Scenarios <- MCScenarios
    MaxDeliveries = 5
    Runs <- MCRuns
    Queued = 2
    Batch = 2
    Looked = 2
    MaxRetries = 2
    MaxCrashes = 1
INVARIANTS
    TradeTypeOK
    YearsBalance
    OpenYearTakesPostings
    EffectsMatchEvents
    OrdersHoldStock
    SentOrRecorded
PROPERTIES
    LockHolds
    RetriesHearTheOutcome
    EveryEventEnds
CHECK_DEADLOCK FALSE
