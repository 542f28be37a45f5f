CONSTANTS
    Dialogues = {"u1", "u2"}
    Details = {1, 2}
    Cheap = {1}
    Types = {"return"}
    Reasons = {"dislike"}
    MaxRequests = 2
    MaxFailures = 1
SPECIFICATION FlowSpec
INVARIANTS
    ActiveIsShown
CHECK_DEADLOCK FALSE
