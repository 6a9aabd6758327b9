SPECIFICATION FairSpec
CONSTANTS
    Sessions = {s1, s2}
    Handlers = {h1, h2}
    Limit = 1
    Cap = 0
    MaxInteger = 1
    MaxUsage = 2
    MaxCoa = 1
    MaxCrashes = 1
INVARIANTS
    TypeOK
    PendingIsInFlight
PROPERTIES
    ClosedForGood
    CapIsEnforced
    EndedSessionCloses
