SPECIFICATION FairSpec
CONSTANTS
    s1 = s1
    o1 = o1
    a1 = a1
    Nobody = Nobody
    Accepted = {s1}
    Owned = {o1}
    Agents = {a1}
    ReadMax = 1
    WriteMax = 1
    MonitorMax = 1
    ListMax = 1
    Faults = {"peer", "refused"}
    TimesOut = {o1}
    MaxData = 3
CHECK_DEADLOCK FALSE
INVARIANTS
    TypeOK
    NoSendOnClosed
    TokenFollowsFlag
    EndedNotListed
    NoneListedAfterClose
PROPERTIES
    ClosedSocketEnds
    ServiceCloses
