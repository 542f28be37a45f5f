CONSTANTS
    Clients = {c1, c2}
    NoOwner = NoOwner
    Ttl = 3
    RetryTimes = 1
    MaxErrors = 2
    MaxLate = 1
    Cancellers = {u1, u2}
    Modifiers = {m1, m2}
    Infos = {home, office}
    FirstInfo = home
SPECIFICATION MCSpec
INVARIANTS
    MutualExclusion
    OneCancelReported
    NoDuplicateInfo
PROPERTIES
    ImplementsMutex
    OrphanExpires
    ConfirmedAnswered
