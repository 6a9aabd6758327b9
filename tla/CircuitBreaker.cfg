SPECIFICATION FairSpec
CONSTANTS
    Requests = {r1, r2, r3}
    Workers = {w1}
    Threshold = 2
    RecoveryTime = 1
    MaxOutages = 1
    MaxRestarts = 0
    NoWorker = NoWorker
INVARIANTS
    TypeOK
    BelowThreshold
    OpenHasStamp
PROPERTIES
    BlockedWhileOpen
    Recovers
