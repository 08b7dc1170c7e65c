SPECIFICATION FairSpec
CONSTANTS
    Conns = {c1}
    Window = 1
    ByteLimit = 1
    QueueMax = 2
    MaxFrames = 2
INVARIANTS TypeOK FlowControlled ReceiptTrue AuditTrue
PROPERTIES EventuallyTold EventuallyReleased
CHECK_DEADLOCK FALSE
