SPECIFICATION DeliverySpec
CONSTANTS
    NumIntents = 2
    AgentRunJobs = {2}
    Batch = 2
    MaxFaults = 1
    Routes = {"work", "graph"}
    MaxVersion = 2
    MaxEpoch = 3
    MaxRevision = 1
INVARIANTS
    OutboxSafety
    SyncHolds
PROPERTIES
    
    EventuallyFresh
CHECK_DEADLOCK FALSE
