SPECIFICATION DeliveringSpec
CONSTANTS
    FormIds <- MCFormIds
    CounterpartyIds <- MCCounterpartyIds
    Values = {"v1"}
    NoForm = NoForm
    NoRow = NoRow
    RefOrder <- MCRefOrder
    ConfiguredPageSize = 1
    SessionOffset = 0
    LimitMax = 1
    Runs = {r1, r2}
    NoRun = NoRun
    InitialSource <- MCFullSource
    InitialDatabase = {"fresh"}
    SaveGap = 1
    SaveTime = 0
    FetchTime = 0
    MaxClock = 2
    MaxStarts = 2
    MaxRedeliveries = 1
    MaxLockLosses = 0
PROPERTIES
    EveryRunEnds
    SuccessReachesDatabase
CHECK_DEADLOCK FALSE
