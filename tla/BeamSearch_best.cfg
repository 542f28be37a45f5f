CONSTANTS
    BatchSize = 1
    NumBeams = 2
    MaxLength = 3
    Eos = "e"
    Tokens = {"e", "a"}
    Costs = {1, 2, 4}
    Inf = 100
SPECIFICATION Spec
INVARIANTS
    ReturnsBestBeam
CHECK_DEADLOCK FALSE
