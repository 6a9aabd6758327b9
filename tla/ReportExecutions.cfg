SPECIFICATION FairSpec
CONSTANTS
    Workers = {w1, w2}
    Schedules = {s1}
    MaxExecutions = 2
    MaxRequests = 1
    MaxTime = 2
    MaxFaults = 1
    Frequencies = {1}
    NoSchedule = NoSchedule
    NoWorker = NoWorker
INVARIANTS
    TypeOK
    CompleteIsWhole
    OncePerWorker
PROPERTIES
    Settles
CHECK_DEADLOCK FALSE
