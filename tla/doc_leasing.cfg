SPECIFICATION Spec
CONSTANTS
    s1 = s1
    s2 = s2
    s3 = s3
    a1 = a1
    a2 = a2
    b1 = b1
    a = a
    b = b
    NoPoll = NoPoll
    Polls = {a1, b1}
    WorkerOf <- MCApart
    Sagas = {s1}
    Unknown = {}
    Batch = 1
    LongLease = FALSE
    MaxCrashes = 0
    MaxFails = 0
INVARIANT NoTwoResumers
CHECK_DEADLOCK FALSE
