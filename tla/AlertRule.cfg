SPECIFICATION FairSpec
CONSTANTS
    EventIds = {e1, e2}
    ForSeconds = 2
    MaxTime = 7
INVARIANTS Sustained Watched ToldTruth
PROPERTIES EventuallyResolved
CHECK_DEADLOCK FALSE
