CONSTANTS
    p1 = p1
    p2 = p2
    m1 = m1
    m2 = m2
    None = None
    Producers <- MCProducers
    Msgs <- MCMsgs
    HeaderSize = 2
    BodySize <- MCBodySize
    ReadMax = 2
    CacheMax = 2
    MaxConns = 2
SPECIFICATION FairSpec
INVARIANTS
    FramesWhole
PROPERTIES
    Arrives
CHECK_DEADLOCK FALSE
