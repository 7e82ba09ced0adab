SPECIFICATION FairSpec
CONSTANTS
    s1 = s1
    s2 = s2
    s3 = s3
    a1 = a1
    a2 = a2
    b1 = b1
    a = a
    b = b
    NoPoll = NoPoll
    Polls = {a1, b1}
    WorkerOf <- MCApart
    Sagas = {s1, s3}
    Unknown = {s3}
    Batch = 1
    LongLease = FALSE
    MaxCrashes = 1
    MaxFails = 1
INVARIANT FreshLeaseExcludes
PROPERTY EveryOrphanSettles
CHECK_DEADLOCK FALSE
