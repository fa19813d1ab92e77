SPECIFICATION FairSpec
CONSTANTS
    Processes = {p1, p2}
    NoProcess = NoProcess
    Ids = {acme, beta}
    UnknownId = UnknownId
    Fetch = Fetch
    NoFile = NoFile
    Overlap = 1
    MaxClock = 2
    MaxCalls = 4
    MaxFaults = 1
INVARIANTS
    NothingIsHidden
    IInv
PROPERTIES
    ChangesAreSerial
    EveryCallEnds
CHECK_DEADLOCK FALSE
