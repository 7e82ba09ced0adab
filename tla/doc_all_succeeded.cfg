CONSTANTS
    N = 2
    Compensable = {1}
    Patching = {}
    Timed = {}
    Attempts <- MCOneAttempt
    CompAttempts <- MCOneAttempt
    Caller = caller
    Workers = {w1}
    HasOutbox = TRUE
    Rejecting = {}
    Exclusive = TRUE
    MaxCrashes = 1
    MaxRejects = 0
    MaxClaims = 1
    MaxResumes = 0
SPECIFICATION Spec
INVARIANTS
    CompletedMeansAllSucceeded
CHECK_DEADLOCK FALSE
