SPECIFICATION FairSpec
CONSTANTS
    x = x
    y = y
    k1 = k1
    k2 = k2
    E = 4
    SagaOf <- MCSagaOf
    Polls = {k1, k2}
    Batch = 2
    Refused = {3}
    MaxFails = 1
    MaxCrashes = 1
INVARIANTS MarkedIsDelivered FirstDeliveriesInOrder CopiesAreBounded
PROPERTY EveryEventPublished
CHECK_DEADLOCK FALSE
