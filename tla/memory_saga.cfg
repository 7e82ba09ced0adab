CONSTANTS
    a = a
    b = b
    a1 = a1
    a2 = a2
    b1 = b1
    N = 2
    Compensable = {1}
    Patching <- MCPatching
    Timed = {2}
    Attempts <- MCOneAttempt
    CompAttempts <- MCOneAttempt
    Caller = caller
    Workers = {a1, a2, b1}
    HasOutbox = FALSE
    Rejecting <- PublishSites
    Exclusive = FALSE
    MaxCrashes = 0
    MaxRejects = 1
    MaxClaims = 2
    MaxAtOnce = 2
    MaxResumes = 1
    OwnerOf <- MCOwnerOf
    NoOwner = NoOwner
    LongLease = FALSE
    Orphaned = FALSE
SYMMETRY MCSymmetry
SPECIFICATION MemorySpec
INVARIANTS
    EffectsAreRecorded
    NoPatchLost
    OneLiveRecord
    SpansEnd
    OneHolderUnlessSlip
CHECK_DEADLOCK FALSE
