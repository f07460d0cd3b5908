SPECIFICATION Spec
CONSTANTS
    u1 = u1
    u2 = u2
    u3 = u3
    b1 = b1
    b2 = b2
    b3 = b3
    b4 = b4
    NoBackend = NoBackend
    Urls = {u1, u2, u3}
    Backends = {b1, b2, b3}
    Lists <- DistinctLists
    MaxQueries = 4
INVARIANTS
    UsedBackendIsKept
    OneBackendPerUrl
    OnlyListedServed
    EvenDistribution
PROPERTIES
    ConnectionsKept
    QueryGetsTable
    DropCleansUp
CHECK_DEADLOCK FALSE
