SPECIFICATION Spec
CONSTANTS
    Resources = {r1, r2}
    Target = r1
    Commit = Commit
    MaxPending = 3
CHECK_DEADLOCK FALSE
INVARIANT EveryApprovalAnnounced
