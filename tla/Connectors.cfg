SPECIFICATION ConnectorsSpec
CONSTANTS
    Requests = {"move", "read"}
    Action <- NamedForOperation
    Paths = {"p", "q"}
    Contents = {"absent", "old", "new"}
    Absent = "absent"
    Grants = {"g1", "g2"}
    Covers <- All
    Permits <- G2Keeps
    Staged = {"move"}
    NumStages = 2
    Capable <- MoveFirst
    Executions = {"e1", "e2"}
    RoleLimitMicros = 3
    WorstCase = 2
    RunLimits = {2, 5}
    MaxOperatorBudgets = 1
    CredentialNames = {"OPENAI_API_KEY"}
    Secrets = {"k1", "k2"}
    CredentialCommands = {"cli1", "cli2"}
    MaxCredentialCommands = 2
    MaxMishaps = 2
    RoutedAgents = {"dev", "qa"}
    RoutedProjects = {"p1", "p2"}
    AgentsOf <- ProjectAgents
    PolicyOf <- AgentPolicies
    ProfileKeys = {"coding", "cheap"}
    PolicyNames = {"review"}
    RoutingModels = {"openai:a", "anthropic:b", "other:c", "junk"}
    SupportedModels = {"openai:a", "anthropic:b"}
    MalformedModels = {"junk"}
    Documents <- SomeDocuments
    LegacyModels = {"none", "anthropic:b", "junk"}
    Overrides <- SomeOverrides
    RoutingCommands = {"m1", "m2"}
    MaxRoutingCommands = 2
    MaxHandEdits = 1
    Projects = {1}
    Tasks = {1}
    Runs = {1, 2}
    Agents = {1, 2}
    ProjectOf <- OneProject
    TaskOf <- SameTask
    AgentOf <- OwnAgent
    LeaseLength = 1
    AttentionLimit = 2
    ConcurrencyLimit = 1
    MaxInstant = 5
    Nobody = 0
    TaskRows = {1, 2, 3, 4}
    FirstRows = {1, 2, 3}
    Priorities = {1, 2}
    EventIds = {1, 2}
    RunIds = {1}
    ReviewIds = {1, 2}
    PipelineIds = {1}
    BatchSize = 2
    ActivityLimit = 1
    ListLimit = 1
    MaxTime = 2
    MaxWrites = 2
CONSTRAINT TargetAbsentOrNew
INVARIANTS
    ActionSafety
    
    RoutingHolds
    
    PagesHold
PROPERTIES
    ActionSteps
    
CHECK_DEADLOCK FALSE
