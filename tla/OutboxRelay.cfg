\* Two relays and two rows, the first too large for the broker.  A batch may
\* outlast its lease, as 10 rows of 10 s each can against 60 s by default.
SPECIFICATION RelayFairSpec
CONSTANTS
    Rows = {1, 2}
    TooLarge = {1}
    Relays = {r1, r2}
    Batch = 2
    LeaseSeconds = 1
    MaxBatchTime = 2
    MaxFaults = 1
INVARIANTS NoSilentDrop
PROPERTIES EventuallyRelayed
CHECK_DEADLOCK FALSE
