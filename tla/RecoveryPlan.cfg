SPECIFICATION FairSpec
CONSTANTS
    PrActions = {p1}
    AutoActions = {c1}
    None = None
    MinSeconds = 1
    MaxSeconds = 1
    MaxSelections = 2
    MaxRetries = 1
    MaxRequests = 1
    MaxTime = 3
INVARIANTS RunAwaited OutcomeTold CompletedStable VerifiesDeployed
PROPERTIES MergedStays VerificationEnds DeployFollowed
CHECK_DEADLOCK FALSE
