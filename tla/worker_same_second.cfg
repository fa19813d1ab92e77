SPECIFICATION Spec
CONSTANTS
    FormIds <- MCFormIds
    CounterpartyIds <- MCCounterpartyIds
    Values = {"v1", "v2"}
    NoForm = NoForm
    NoRow = NoRow
    Partitions = {"forms", "cps"}
    Home <- MCHome
    Messages <- MCSameSecond
    InitialTables <- MCFreshTables
    BatchMax = 2
    MaxRetries = 1
    MaxLog = 2
    MaxFaults = 2
INVARIANTS
    LastVersionWins
