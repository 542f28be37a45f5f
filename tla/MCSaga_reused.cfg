CONSTANTS
    Runs = {"s1", "s2"}
    Coordinators = {"k1"}
    CoordinatorOf <- Shared
    N = 2
SPECIFICATION SagaSpec
INVARIANTS
    UndoneInReverse
CHECK_DEADLOCK FALSE
