SPECIFICATION FairSpec
INVARIANTS NobodyForgotten
PROPERTIES ClientsAreMatched ClosedIsRemoved
CONSTANTS
    c1 = c1
    c2 = c2
    c3 = c3
    p1 = p1
    p2 = p2
    k1 = k1
    k2 = k2
    NoClient = NoClient
    NoThread = NoThread
    Clients <- MCTwo
    MaxClients = 2
    Producers <- MCOneProducer
    Consumers <- MCOneConsumer
    Kinds <- MCReady
    FromBytes <- MCNoId
    MaxSends = 2
    ToutLimit = 1
CHECK_DEADLOCK FALSE
