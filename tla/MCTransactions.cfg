CONSTANTS
    Txns = {"t1", "t2", "t3"}
    Quantity <- OneOfTwo
    Stock = 2
    Events = {"m1", "m2"}
    Dispatchers = {"d1", "d2"}
    BatchSize = 2
    NoEvent = "none"
    Messages = {"m1", "m2"}
    Tasks = {"p1", "p2"}
    NoMessage = "none"
    MaxRetry = 1
    Limit = 2
    MaxErrors = 2
    MaxCrashes = 1
SPECIFICATION MCSpec
INVARIANTS
    NoOversell
    DuplicatesNeedFaults
PROPERTIES
    EveryMessageSent
    ImplementsDelivery
    EveryMessageSettled
CHECK_DEADLOCK FALSE
