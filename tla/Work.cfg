SPECIFICATION WorkSpec
CONSTANTS
    Tasks = {t1, t2, t3}
    NoPlan = NoPlan
    TaskOrder <- ReconcileOrder
    TaskEdges <- ReconcileEdges
    LinkedTasks = {"t1"}
    SimilarTasks = {}
    PipelineTasks = {"t2"}
    RunTasks = {"t3"}
    MaxPipelineRows = 2
    Editors = {"e1", "e2"}
    Records = {"m1", "m2", "r1", "a1"}
    KindOf <- RecordKinds
    ReviewIds = {"v1"}
    LinkTasks = {"l1"}
    Texts = {1, 2}
    NoRecord = NoRecord
    MaxCommands = 5
    GraphTasks = {1, 2, 3, 4}
    PriorityOf <- Priorities
    InitialBoards <- Boards
    PreviewLimit = 2
    PageSize = 2
    MaxBoardChanges = 1
    MaxRefreshes = 1
    MaxClicks = 2
    NoTask = 0
INVARIANTS
    BoardSafety
    ReconciliationHolds
    GovernanceHolds
    GraphHolds
PROPERTIES
    BoardSteps
    GovernedSteps
CHECK_DEADLOCK FALSE
