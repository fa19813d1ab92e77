SPECIFICATION FairSpec
CONSTANTS
    FormIds <- MCFormIds
    CounterpartyIds <- MCCounterpartyIds
    Values = {"v1", "v2"}
    NoForm = NoForm
    NoRow = NoRow
    Partitions = {"forms", "cps"}
    Home <- MCHome
    Messages <- MCPoisoned
    InitialTables <- MCInitialTables
    BatchMax = 3
    MaxRetries = 1
    MaxLog = 2
    MaxFaults = 2
INVARIANTS
    TypeOK
    CommittedIsSettled
    NoGap
    LastVersionWins
    IInv
    RowsAreVersions
PROPERTIES
    OnlyPoisonIsDiverted
    WritesBeforeDiversion
    AllOrNothing
    RowsNeverGetOlder
    DeliversAtLeastOnce
    EverythingGetsCommitted
