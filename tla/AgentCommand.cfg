\* One command, two agents; every limit is small enough to be passed.
SPECIFICATION FairSpec
CONSTANTS
    Commands = {c1}
    Agents = {a1, a2}
    SupportsCancel = {c1}
    SupportsRetry = {c1}
    MaxAttempts = 2
    LeaseSeconds = 1
    GraceSeconds = 1
    QueueTTL = 2
    FlushAttempts = 2
    NoJob = NoJob
    MaxRequests = 2
    MaxLeases = 3
    MaxFaults = 2
CHECK_DEADLOCK FALSE
INVARIANTS RecordsAgree ExecutedOnce EndAnnounced
PROPERTIES LifecycleKept EventuallyOver
