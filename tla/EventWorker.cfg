\* Two replicas, one ordinary event and one that cannot be decoded.  The times
\* keep the order of the defaults 30 < 60 < 90 s, with MaxHold = StaleSeconds.
SPECIFICATION FairSpec
CONSTANTS
    NoEvent = NoEvent
    Events = {e1, p1}
    Poison = {p1}
    Workers = {w1, w2}
    MaxAttempts = 2
    HandlerTimeout = 1
    DeadLetterTimeout = 1
    AckWait = 2
    StaleSeconds = 3
    Block = 1
    MaxDisruptions = 1
INVARIANTS SingleClaim NoLoss DeadLettersJustified
PROPERTIES ImplementsDelivery EventuallySettled
CHECK_DEADLOCK TRUE
