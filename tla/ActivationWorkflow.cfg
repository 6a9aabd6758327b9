SPECIFICATION FairSpec
CONSTANTS
    Runs = {e1}
    StepCount = 3
    MaxRetries = 1
    MaxUpdates = 1
    MaxCrashes = 1
INVARIANTS
    TypeOK
    CompletedIsProvisioned
    NothingLeftBehind
    UndoesOnlyApplied
    RollsBackInReverse
PROPERTIES
    Settles
CHECK_DEADLOCK FALSE
