CONSTANTS
    c1 = c1
    r1 = r1
    u1 = u1
    u2 = u2
    None = None
    Calls <- MCCalls
    Requests <- MCRequests
    Users <- MCUsers
    LocalUsers <- MCLocalUsers
    Kinds = {"tcp", "local"}
SPECIFICATION FairSpec
INVARIANTS
    PendingExact
    ErrorHasConn
    ClosesInOrder
PROPERTIES
    Answered
    CloseReturns
    ImplementsSession
CHECK_DEADLOCK FALSE
