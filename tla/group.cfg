SPECIFICATION FairSpec
CONSTANTS
    Workers = {w1, w2}
    NoWorker = NoWorker
    Partitions = {cps}
    MaxLog = 3
    BatchMax = 2
    PollBudget = 2
    MaxMoves = 1
    MaxFaults = 1
INVARIANTS
    IInv
    CommittedIsSettled
PROPERTIES
    DeliversAtLeastOnce
    EverythingGetsSettled
    CalmGroupCommits
CHECK_DEADLOCK FALSE
