SPECIFICATION Spec
CONSTANTS
    FormIds = {}
    CounterpartyIds = {"acme", "beta"}
    Values = {"v1"}
    NoForm = NoForm
    NoRow = NoRow
    RefOrder <- MCByName
    ConfiguredPageSize = 1
    SessionOffset = 0
    LimitMax = 1
    Runs = {r1, r2}
    NoRun = NoRun
    InitialSource <- MCSeeded
    InitialDatabase = {"synced"}
    SaveGap = 1
    SaveTime = 0
    FetchTime = 0
    MaxClock = 3
    MaxStarts = 2
    MaxRedeliveries = 0
    MaxLockLosses = 1
INVARIANTS
    WatermarkHidesNothing
    SuccessMeansPublished
SYMMETRY MCSymmetry
CHECK_DEADLOCK FALSE
