SPECIFICATION Spec
CONSTANTS
    c1 = c1
    c2 = c2
    c3 = c3
    q1 = q1
    i1 = i1
    i2 = i2
    t1 = t1
    t2 = t2
    Nobody = Nobody
    Clients = {c1, c2, c3}
    Instances = {i1}
    Topics = {t1, t2}
    Queues = {}
    TopicOf <- MCTopicOf
    Unruly = {c1}
CHECK_DEADLOCK FALSE
INVARIANT HarborOfOneInstance
