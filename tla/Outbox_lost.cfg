CONSTANTS
    Events = {"m1", "m2"}
    Dispatchers = {"d1", "d2"}
    BatchSize = 2
    NoEvent = "none"
    MaxErrors = 0
    MaxCrashes = 1
SPECIFICATION OutboxSpec
INVARIANTS
    AtLeastOnce
CHECK_DEADLOCK FALSE
