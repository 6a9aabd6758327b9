SPECIFICATION Spec
CONSTANTS
    Clients = {c1, c2, c3}
    Adapters = {a1, a2, a3, a4}
    MaxConnections = 2
    NoAdapter = NoAdapter
SYMMETRY Symmetry
INVARIANTS
    TypeOK
    ExclusiveLease
    NoLeakedSlot
    PoolBounded
PROPERTIES
    NoForeignDisconnect
    ImplementsLeasePool
