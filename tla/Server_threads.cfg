SPECIFICATION FairSpec
INVARIANTS TypeOK ExclusivePolling NobodyForgotten
PROPERTIES ClosedIsRemoved HandshakeEnds
CONSTANTS
    c1 = c1
    c2 = c2
    c3 = c3
    p1 = p1
    p2 = p2
    k1 = k1
    k2 = k2
    NoClient = NoClient
    NoThread = NoThread
    Clients <- MCOne
    MaxClients = 4
    Producers <- MCTwoProducers
    Consumers <- MCTwoConsumers
    Kinds <- PeerKinds
    FromBytes <- MCFreeId
    MaxSends = 2
    ToutLimit = 2
CHECK_DEADLOCK FALSE
