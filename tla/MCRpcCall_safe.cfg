CONSTANTS
    o1 = o1
    o2 = o2
    s1 = s1
    s2 = s2
    w1 = w1
    w2 = w2
    None = None
    Ops <- MCOps
    Slots <- MCSlots
    Workers <- MCWorkers
    Capacity = 1
    Flavours = {"rpcD", "rpcE", "rpcU"}
    Outcomes = {"ok", "err", "badReply", "panic"}
SPECIFICATION FairSpec
INVARIANTS
    MsgExclusive
    OwnAnswer
    CallbackOnce
PROPERTIES
    CallReturns
CHECK_DEADLOCK FALSE
