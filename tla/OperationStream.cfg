\* One browser, two gateways.  Four events are more than a replay and a queue
\* hold: gaps, overflow and a gap that one replay does not close all happen.
SPECIFICATION FairSpec
CONSTANTS
    Gateways = {g1, g2}
    Browsers = {b1}
    Origins = {"receipt", "workflow", "legacy"}
    Limit = 1
    QueueMax = 1
    NoGateway = NoGateway
    MaxEvents = 4
    MaxNotes = 1
    MaxFaults = 1
INVARIANTS NeverInvalid Complete
PROPERTIES EventuallyTold
CHECK_DEADLOCK FALSE
