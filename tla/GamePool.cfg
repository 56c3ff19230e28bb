SPECIFICATION Spec
INVARIANTS GameIdsAccounted OneWaits PlayersKnowTheirGame
PROPERTIES ImplementsMatchmaker StaysInGame
CONSTANTS
    c1 = c1
    c2 = c2
    c3 = c3
    c4 = c4
    k1 = k1
    k2 = k2
    NoClient = NoClient
    NoThread = NoThread
    Clients <- MCThree
    Consumers <- MCConsumers
    MaxGames = 2
    PatientClients <- MCPatient
    GamesEnd = TRUE
CHECK_DEADLOCK FALSE
