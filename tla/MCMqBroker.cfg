SPECIFICATION BFairSpec
CONSTANTS
    c1 = c1
    c2 = c2
    q1 = q1
    q2 = q2
    i1 = i1
    i2 = i2
    t1 = t1
    Nobody = Nobody
    Clients = {c1, c2}
    Instances = {i1, i2}
    Topics = {t1}
    Queues = {q1, q2}
    TopicOf <- MCTopicOf
    Unruly = {c1}
    InstanceOf <- MCInstanceOf
    Early <- MCEarly
    Leaves = {c1}
    CacheMax = 1
    MaxMessages <- MCMaxMessages
CHECK_DEADLOCK FALSE
INVARIANT InOrder
PROPERTIES
    ImplementsDelivery
    LookupEnds
    Delivered
    CloseEnds
