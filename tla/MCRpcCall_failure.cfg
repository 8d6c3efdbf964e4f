CONSTANTS
    o1 = o1
    o2 = o2
    s1 = s1
    s2 = s2
    w1 = w1
    w2 = w2
    None = None
    Ops <- MCOps
    Slots <- MCSlots
    Workers <- MCWorker
    Capacity = 1
    Flavours = {"rpcD"}
    Outcomes = {"ok", "err", "badReply", "panic"}
SPECIFICATION Spec
INVARIANTS
    FailureReported
CHECK_DEADLOCK FALSE
