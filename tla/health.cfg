SPECIFICATION FairSpec
CONSTANTS
    Probes = {h1}
    MaxAge = 2
    MaxCalls = 2
    MaxSignals = 2
INVARIANTS
    ReadyMeansAlive
    RunningMeansInLoop
    NeverWaitsForItself
    IInv
PROPERTIES
    CleanStopEndsTheWorker
    EveryProbeIsAnswered
CHECK_DEADLOCK FALSE
