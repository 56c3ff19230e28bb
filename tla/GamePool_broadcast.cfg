SPECIFICATION Spec
INVARIANT BroadcastReachesBoth
CONSTANTS
    c1 = c1
    c2 = c2
    c3 = c3
    c4 = c4
    k1 = k1
    k2 = k2
    NoClient = NoClient
    NoThread = NoThread
    Clients <- MCFour
    Consumers <- MCConsumers
    MaxGames = 2
    PatientClients <- MCFour
    GamesEnd = FALSE
SYMMETRY MCSymmetry
CHECK_DEADLOCK FALSE
