SPECIFICATION FairSpec
CONSTANTS
    FormIds = {}
    CounterpartyIds <- MCCounterpartyIds
    Values = {"v1"}
    NoForm = NoForm
    NoRow = NoRow
    RefOrder <- MCRefOrder
    ConfiguredPageSize = 2
    SessionOffset = 0
    LimitMax = 2
    Retries = 1
    InitialCatalogues <- MCInitialCatalogues
    MaxClock = 2
    MaxRemovals = 1
INVARIANTS
    TypeOK
    FetchIsComplete
    NewestLast
    IInv
PROPERTIES
    EveryFetchEnds
CHECK_DEADLOCK FALSE
