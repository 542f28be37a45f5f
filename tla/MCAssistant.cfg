CONSTANTS
    Positions = {0, 1, 2, 3, 4}
    Regions <- FourRegions
    People = {"ann", "bob"}
    Streets = {"s1"}
    FirstInfo <- TheFirst
    MaxRounds = 2
    Talks = {"d1", "d2"}
    CacheTtl = 2
    Slow = 1
    MaxTime = 4
    Dialogues = {"u1", "u2"}
    Details = {1, 2}
    Cheap = {1}
    Types = {"return"}
    Reasons = {"dislike"}
    MaxRequests = 2
    MaxFailures = 1
    Steps = 9
    SaveSteps = 4
    EvalSteps = 2
    Patience = 3
    Scores = {1, 2, 3}
    MaxKills = 2
    Nodes = {"n1", "n2"}
    Labels <- TwoLabels
    LabelOf <- BothSkus
    Routes <- FourRoutes
    WriteBatch = 1
    MaxRuns = 2
    Scripts = {"p1", "p2"}
    Skus = {1}
    SkuNames = {"x", "y"}
    AttrNames = {"colour"}
    AttrValues = {"red", "blue"}
    Schema = {"colour"}
    MaxSyncRuns = 3
    MaxChanges = 2
    Questions = {"q1", "q2"}
    Pieces <- OneAndTwo
    Kinds = {"product", "attribute", "value"}
    Now = 4
    Short = 1
    Long = 2
    OrderStatuses <- AllOrderStatuses
    PostStatuses <- SomePostStatuses
    OrderDetails = {1, 2}
    c1 = c1
    c2 = c2
    Clients = {c1, c2}
    NoOwner = NoOwner
    Ttl = 3
    RetryTimes = 1
    MaxErrors = 1
    MaxLate = 1
    MaxRows = 2
    MaxDbErrors = 1
SYMMETRY Symmetry
SPECIFICATION MCSpec
INVARIANTS
    WithoutOverlap
    ToldWasTrue
    AddressStorable
    ThroughMeansRequested
    ResumesInOrder
    RetrievalSound
    FailureNeedsOverlap
    DataMakesSense
    NoDoubleRequestUnlessLost
    OneActiveRequest
PROPERTIES
    PictureFillsGap
