SPECIFICATION FairSpec
CONSTANTS
    Providers = {p1, p2}
    Agents = {a1, a2}
    Janitor = Janitor
    NoPayload = NoPayload
    MaxAttempts = 2
    LeaseSeconds = 1
CHECK_DEADLOCK FALSE
INVARIANTS WindowSound
PROPERTIES ImplementsContract EventuallyPublished
