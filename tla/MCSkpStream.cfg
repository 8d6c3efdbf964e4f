CONSTANTS
    Packets = 4
    Size <- MCSize
    HeadSize <- MCHeadSize
    AddrAt = {3}
    DataCacheMax = 6
    ReadMax = 4
    ChanMax = 2
SPECIFICATION FairSpec
INVARIANT RelayedWhole
PROPERTY AllRelayed
CHECK_DEADLOCK FALSE
