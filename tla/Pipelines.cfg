SPECIFICATION Spec
CONSTANTS
    t1 = t1
    t2 = t2
    t3 = t3
    NoStart = NoStart
    Tasks <- ChainTasks
    Prerequisites <- ChainPrerequisites
    NumPipelines = 2
    TaskOf <- TwoPipelines
    NumStages = 2
    RequiresApproval = {1}
    Separated <- GatedSeparation
    Agents = {1, 2}
    Serves <- TwoAgents
    Workers = {"operator", "queue"}
    MaxCrashes = 1
CONSTRAINT SecondStageOfFirst
INVARIANT PipelineSafety
PROPERTY PipelineSteps
CHECK_DEADLOCK FALSE
