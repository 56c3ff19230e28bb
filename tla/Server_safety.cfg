SPECIFICATION Spec
INVARIANTS HandshakeFits IdsResolve NobodyForgotten
CONSTANTS
    c1 = c1
    c2 = c2
    c3 = c3
    p1 = p1
    p2 = p2
    k1 = k1
    k2 = k2
    NoClient = NoClient
    NoThread = NoThread
    Clients <- MCThree
    MaxClients = 2
    Producers <- MCOneProducer
    Consumers <- MCOneConsumer
    Kinds <- MCLeaving
    FromBytes <- MCOthersId
    MaxSends = 1
    ToutLimit = 1
SYMMETRY MCSymmetry
CHECK_DEADLOCK FALSE
