SPECIFICATION FairSpec
CONSTANTS
    Runs = {e1, e2}
    StepCount = 2
    MaxRetries = 1
    MaxUpdates = 0
    MaxCrashes = 0
CHECK_DEADLOCK FALSE
INVARIANTS
    CompletedIsProvisioned
