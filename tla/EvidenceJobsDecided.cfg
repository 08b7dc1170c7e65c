\* One job; the gateway or the janitor fails after the job is final.
SPECIFICATION FairSpec
CONSTANTS
    Providers = {p1}
    Agents = {a1}
    Janitor = Janitor
    NoPayload = NoPayload
    MaxAttempts = 2
    LeaseSeconds = 1
CHECK_DEADLOCK FALSE
PROPERTIES EventuallyDecided
