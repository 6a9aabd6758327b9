SPECIFICATION FairSpec
CONSTANTS
    Clients = {c1, c2}
    Adapters = {a1, a2, a3}
    MaxConnections = 1
    NoAdapter = NoAdapter
PROPERTIES
    GetReturns
    IdleReaped
