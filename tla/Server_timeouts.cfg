SPECIFICATION Spec
INVARIANTS ReportedPastTheLimit
CONSTANTS
    c1 = c1
    c2 = c2
    c3 = c3
    p1 = p1
    p2 = p2
    k1 = k1
    k2 = k2
    NoClient = NoClient
    NoThread = NoThread
    Clients <- MCTwo
    MaxClients = 2
    Producers <- MCOneProducer
    Consumers <- MCOneConsumer
    Kinds <- MCExit
    FromBytes <- MCNoId
    MaxSends = 1
    ToutLimit = 2
SYMMETRY MCSymmetry
CHECK_DEADLOCK FALSE
