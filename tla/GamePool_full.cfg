SPECIFICATION Spec
PROPERTY AskingIsAnswered
CONSTANTS
    c1 = c1
    c2 = c2
    c3 = c3
    c4 = c4
    k1 = k1
    k2 = k2
    NoClient = NoClient
    NoThread = NoThread
    Clients <- MCThree
    Consumers <- MCOne
    MaxGames = 1
    PatientClients <- MCNobody
    GamesEnd = FALSE
CHECK_DEADLOCK FALSE
