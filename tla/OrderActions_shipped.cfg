CONSTANTS
    Cancellers = {c1}
    Modifiers = {m1}
    Infos = {home, office}
    FirstInfo = home
SPECIFICATION OrderSpec
PROPERTIES
    CancelOnlyBeforeShipping
CHECK_DEADLOCK FALSE
