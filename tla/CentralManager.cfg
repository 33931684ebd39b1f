SPECIFICATION FairSpec
CONSTANTS
    MaxSignals = 2
    MaxFailures = 1
INVARIANTS DatabaseOpenWhileUsed StopsClean
PROPERTIES HeardSignalStops
CHECK_DEADLOCK FALSE
