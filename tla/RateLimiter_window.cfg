CONSTANTS
    Limit = 2
    Window = 3
    Grain = 2
    Slack = 0
    MaxTime = 6
    MaxRequests = 5
    MaxSkew = 1
SPECIFICATION LimiterSpec
INVARIANTS
    WindowReopens
CHECK_DEADLOCK FALSE
