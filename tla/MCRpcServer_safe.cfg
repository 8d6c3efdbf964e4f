CONSTANTS
    m1 = m1
    m2 = m2
    w1 = w1
    w2 = w2
    Msgs <- MCMsgs
    Workers <- MCWorkers
    Capacity = 1
    MaxCaches = 2
    MaxStarts = 1
    NewCache = {TRUE, FALSE}
SPECIFICATION FairSpec
INVARIANTS
    IInv
    DrainOnStop
    GoroutinesBounded
PROPERTIES
    StopReturns
    DueHandled
    LeaveDrained
    ImplementsMailbox
CHECK_DEADLOCK FALSE
