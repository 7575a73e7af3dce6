SPECIFICATION FairSpec
CONSTANTS
    t1 = t1
    t2 = t2
    t3 = t3
    NoStart = NoStart
    Tasks <- ForkTasks
    Prerequisites <- ForkPrerequisites
    NumPipelines = 2
    TaskOf <- BothTasks
    NumStages = 1
    RequiresApproval = {}
    Separated <- NoSeparation
    Agents = {1}
    Serves <- OneAgent
    Workers = {"operator"}
    MaxCrashes = 0
PROPERTIES
    ResumesAutomatically
CHECK_DEADLOCK FALSE
