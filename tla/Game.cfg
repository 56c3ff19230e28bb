SPECIFICATION Spec
INVARIANTS TypeOK ReportsWhole ShotsAreRelayed BoardsAreTaken
CONSTANTS
    k1 = k1
    k2 = k2
    NoThread = NoThread
    Consumers <- MCConsumers
    ClientId <- MCClientId
    BoardSize = 2
    BoardPayloads <- MCBoards
    ShotPayloads <- MCShots
    Uninitialized <- MCGarbage
    MaxSends = 3
SYMMETRY MCSymmetry
CHECK_DEADLOCK FALSE
