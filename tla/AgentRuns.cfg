SPECIFICATION FairSpec
CONSTANTS
    Tasks = {t1}
    Runs = {r1, r2}
    ActionRuns = {r2}
    NoRun = NoRun
    Lease = 1
    MaxTime = 1
    MaxRev = 1
    MaxChurn = 1
INVARIANTS
    RunSafety
PROPERTIES
    RunSteps
    CancelledTaskQuiesces
CONSTRAINT TwoOfThree
CHECK_DEADLOCK FALSE
