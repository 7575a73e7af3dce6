SPECIFICATION Spec
CONSTANTS
    NumIntents = 1
    AgentRunJobs = {}
    Batch = 1
    MaxFaults = 0
PROPERTY ReplayWakesWork
CHECK_DEADLOCK FALSE
