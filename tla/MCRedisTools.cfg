CONSTANTS
    Readers = {"r1", "r2"}
    Writers = {"w1", "w2"}
    Nothing = none
    Polls = 2
    MaxWrites = 2
    MaxFailures = 1
    MaxFactoryRaises = 1
    Consumers = {"c1", "c2"}
    NoConsumer = "nobody"
    BatchSize = 2
    ClaimCount = 2
    MaxLen = 2
    MaxMessages = 3
    MaxErrors = 1
    MaxCrashes = 1
    Callers = {"a", "b"}
    Object = "object"
    Other = "other"
    Nobody = "nobody"
    Ttl = 5
    Interval = 1
    Delay = 1
    MaxAcquires = 3
    MaxLate = 1
    Threads = {"t1", "t2"}
    NoClient = 0
    MaxPools = 6
    MaxOutages = 2
    Movers = {"u1", "u2"}
    MaxRetries = 3
    MaxRaises = 2
    Users = {"u1", "u2"}
    Goods = {"a", "b"}
    Stock = 2
    PurchaseLimit = 3
    Segment = 2
    MaxCalls = 5
    MaxFaults = 2
    Gens = {"g1", "g2"}
    HostId <- Hosts
    MaxWorkerId = 1
    MaxSequence = 1
    Tolerance = 1
    WorkerTtl = 2
    MaxTicks = 3
    MaxIds = 4
    MaxMishaps = 2
    Submitters = {"u1", "u2"}
    RequestTtl = 2
    MaxRuns = 3
    MaxClock = 4
    MaxTroubles = 2
    Elements = {"a", "b"}
    Hash1 <- FirstHash
    Hash2 <- SecondHash
    HashCount = 2
    BitSize = 4
    MaxLost = 1
    Limit = 2
    Window = 3
    Grain = 2
    Slack = 0
    MaxTime = 6
    MaxRequests = 5
    MaxSkew = 1
    Runs = {"s1", "s2", "s3"}
    Coordinators = {"k1", "k2"}
    CoordinatorOf <- TwoShareOne
    N = 3
SPECIFICATION MCSpec
INVARIANTS
    UnhandledStaysPending
    LeftBehindNeedsFault
    OneLoaderUnlessLate
    StaleNeedsRace
    PulledByAnother
    MovedAsAnswered
    AnswersExplained
    LimitsExplained
    DuplicateHasReason
    NewOncePerTtl
    NeverLosesAdded
    SharingIsSafeOnTime
    NothingLeftBehind
    CompletedIntact
    AloneInReverse
CHECK_DEADLOCK FALSE
