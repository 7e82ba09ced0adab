CONSTANTS
    N = 4
    Compensable = {1, 2, 4}
    Patching <- MCPatching
    Timed = {}
    Attempts <- MCAttempts
    CompAttempts <- MCCompAttempts
    Caller = caller
    Workers = {}
    HasOutbox = TRUE
    Rejecting <- MCCaught
    Exclusive = TRUE
    MaxCrashes = 0
    MaxRejects = 2
    MaxClaims = 0
    MaxResumes = 0
SPECIFICATION FairSpec
PROPERTIES
    KeepsContract
    Settles
CHECK_DEADLOCK FALSE
