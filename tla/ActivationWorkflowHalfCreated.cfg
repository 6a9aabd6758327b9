SPECIFICATION FairSpec
CONSTANTS
    Runs = {e1}
    StepCount = 2
    MaxRetries = 0
    MaxUpdates = 0
    MaxCrashes = 0
CHECK_DEADLOCK FALSE
INVARIANTS
    CompletedExecutedAll
