SPECIFICATION Spec
CONSTANTS
    FormIds <- MCFormIds
    CounterpartyIds <- MCCounterpartyIds
    Values = {"v1"}
    NoForm = NoForm
    NoRow = NoRow
    RefOrder <- MCRefOrder
    ConfiguredPageSize = 3
    SessionOffset <- MCWest
    LimitMax = 3
    Runs = {r1, r2}
    NoRun = NoRun
    InitialSource <- MCInitialSource
    InitialDatabase = {"fresh", "synced"}
    SaveGap = 1
    SaveTime = 0
    FetchTime = 0
    MaxClock = 2
    MaxStarts = 2
    MaxRedeliveries = 1
    MaxLockLosses = 0
INVARIANTS
    ReferencesResolve
    SuccessMeansPublished
    IInv
SYMMETRY MCSymmetry
CHECK_DEADLOCK FALSE
