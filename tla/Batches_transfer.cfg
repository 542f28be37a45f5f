CONSTANTS
    Movers = {"u1", "u2"}
    MaxRetries = 3
    MaxRaises = 0
SPECIFICATION BatchesSpec
INVARIANTS
    TransferOnce
CHECK_DEADLOCK FALSE
