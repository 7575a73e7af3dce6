SPECIFICATION ProcessSpec
CONSTANTS
    Requests = {"t", "a", "b"}
    Streams = {"s1"}
    MaxSubscribers = 1
    NoRequest = NoRequest
    ShapeOf <- Shapes
    Calls = {"c1"}
    Inspector = "inspector"
    Selections <- SomeSelections
    NoSelection = NoSelection
    NoModel = "no model"
    WorkerModels = {"no model", "bounded", "spawning"}
    auditedBoundedCodexModels = {"bounded"}
    effortLevels <- Efforts
    WorkerOutputs <- SomeOutputs
    MaxLoginChanges = 1
INVARIANTS
    
    WorkerHolds
PROPERTIES
    EveryCommandAnswered
    EveryCallEnds
CHECK_DEADLOCK FALSE
