CONSTANTS
    w1 = w1
    w2 = w2
    N = 2
    Compensable = {1}
    Patching <- MCPatching
    Timed = {}
    Attempts <- MCOneAttempt
    CompAttempts <- MCOneAttempt
    Caller = caller
    Workers = {w1, w2}
    HasOutbox = TRUE
    Rejecting <- MCAwaits
    Exclusive = TRUE
    MaxCrashes = 2
    MaxRejects = 1
    MaxClaims = 4
    MaxResumes = 0
    OwnerOf <- MCOwnerOf
    NoOwner = NoOwner
    LongLease = TRUE
    Orphaned = TRUE
SPECIFICATION LeasedFairSpec
INVARIANTS
    OutboxTellsTheStory
    CompletionsLost
PROPERTIES
    LeasesExclude
    ClaimableSettles
CHECK_DEADLOCK FALSE
