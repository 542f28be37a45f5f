CONSTANTS
    w1 = w1
    w2 = w2
    p1 = p1
    p2 = p2
    p3 = p3
    Tasks = {t1, t2}
    Workers = {w1, w2}
    Threads = {p1, p2, p3}
    WorkerOf <- TwoAndOne
    MaxRetry = 2
    BatchSize = 2
    MaxErrors = 1
    MaxEnds = 1
SPECIFICATION FairSpec
INVARIANTS
    OneKeeper
PROPERTIES
    ImplementsDelivery
    AcceptedSettled
CHECK_DEADLOCK FALSE
