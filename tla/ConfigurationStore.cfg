SPECIFICATION Spec
CONSTANTS
    Workers = {w1, w2}
    Values = {v1, v2}
    Environments = {all, production}
    ALL = all
    MaxRows = 3
    MaxOps = 4
INVARIANTS
    TypeOK
    OneActive
    ValueInHistory
PROPERTIES
    ImplementsAuditedKey
\* Every request may have ended: the system is idle until the next one.
CHECK_DEADLOCK FALSE
