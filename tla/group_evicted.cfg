SPECIFICATION FairSpec
CONSTANTS
    Workers = {w1}
    NoWorker = NoWorker
    Partitions = {cps}
    MaxLog = 2
    BatchMax = 2
    PollBudget = 2
    MaxMoves = 0
    MaxFaults = 0
PROPERTIES
    EverythingGetsCommitted
CHECK_DEADLOCK FALSE
