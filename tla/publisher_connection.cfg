SPECIFICATION FairSpec
CONSTANTS
    p1 = p1
    p2 = p2
    d1 = d1
    Publishers = {p1, p2}
    Closers = {d1}
    MaxProducers <- MCMaxProducers
    MaxFails = 2
    MaxCloses = 2
INVARIANTS RacesHeal OpenProducersBounded
PROPERTY PublishingRecovers
CHECK_DEADLOCK FALSE
