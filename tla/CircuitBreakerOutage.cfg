SPECIFICATION FairSpec
CONSTANTS
    Requests = {r1}
    Workers = {w1}
    Threshold = 1
    RecoveryTime = 1
    MaxOutages = 1
    MaxRestarts = 1
    NoWorker = NoWorker
PROPERTIES
    Recovers
