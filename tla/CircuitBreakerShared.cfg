SPECIFICATION FairSpec
CONSTANTS
    Requests = {r1, r2}
    Workers = {w1, w2}
    Threshold = 1
    RecoveryTime = 0
    MaxOutages = 0
    MaxRestarts = 1
    NoWorker = NoWorker
INVARIANTS
    OpenHasStamp
PROPERTIES
    Recovers
