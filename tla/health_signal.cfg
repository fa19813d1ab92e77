SPECIFICATION FairSpec
CONSTANTS
    Probes = {h1}
    MaxAge = 2
    MaxCalls = 2
    MaxSignals = 1
PROPERTIES
    StopEndsTheWorker
CHECK_DEADLOCK FALSE
