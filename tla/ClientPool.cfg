SPECIFICATION Spec
INVARIANTS FreeIds Occupancy CacheFollowsPool
PROPERTY ImplementsRegistry
CONSTANTS
    c1 = c1
    c2 = c2
    c3 = c3
    c4 = c4
    NoClient = NoClient
    Clients <- MCClients
    MaxClients = 3
    PastTheEnd <- MCNothing
