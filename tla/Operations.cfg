SPECIFICATION OperationsSpec
CONSTANTS
    Calls = {"run", "validation"}
    Workers = {"run"}
    RoleLimit <- WorkerLimit
    Prices <- TwoPrices
    Candidates <- AllCandidates
    Bound <- OneEach
    Usages <- SomeUsages
    RequestIds = {"req"}
    Limits = {3, 6}
    Unset = Unset
    NoId = NoId
    Million = 2
    Hosts = {"h1", "h2"}
    MaxStarts = 2
    Callers = {c1, c2}
    Operators = {o1}
    MaxAdmits = 2
    Publishers = {"p1", "p2"}
    maximumPublishAttempts = 2
    RetentionCap = 1
    MaxSeq = 3
    MaxCheckpoints = 3
    MaxCrashes = 1
    NoPublisher = NoPublisher
    Revisions = {"r1", "r2", "r3", "fork", "mine"}
    Ancestors <- History
    FirstRevision = "r1"
    UpstreamTips = {"r1", "r2", "r3", "fork"}
    LocalCommit = "mine"
    NoRevision = "none"
    MaxUpdates = 2
    MaxChanges = 2
    MaxPurges = 3
    MaxPlan = 2
    MaxTampering = 1
    MaxCommands = 2
SYMMETRY OperationSymmetry
INVARIANTS
    CostSafety
    BudgetHolds
    StartupHolds
    AdmissionHolds
    
    ReportsHold

    
CHECK_DEADLOCK FALSE
