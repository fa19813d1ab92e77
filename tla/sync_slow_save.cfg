SPECIFICATION Spec
CONSTANTS
    FormIds = {}
    CounterpartyIds = {acme, beta}
    Values = {"v1"}
    NoForm = NoForm
    NoRow = NoRow
    RefOrder <- MCRefOrder
    ConfiguredPageSize = 3
    SessionOffset = 0
    LimitMax = 3
    Runs = {r1}
    NoRun = NoRun
    InitialSource <- MCSeeded
    InitialDatabase = {"fresh", "synced"}
    SaveGap = 1
    SaveTime = 1
    FetchTime = 0
    MaxClock = 3
    MaxStarts = 2
    MaxRedeliveries = 0
    MaxLockLosses = 0
INVARIANTS
    WatermarkHidesNothing
SYMMETRY MCFullSymmetry
CHECK_DEADLOCK FALSE
