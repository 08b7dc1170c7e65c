SPECIFICATION FairSpec
CONSTANTS
    Resources = {r1, r2}
    Target = r1
    Commit = Commit
    MaxPending = 3
CHECK_DEADLOCK FALSE
INVARIANTS
    OneOutcome
    OneCommandPerGrant
PROPERTIES
    SuccessIsJoined
    SettledRunEnds
    GrantIsDispatched
