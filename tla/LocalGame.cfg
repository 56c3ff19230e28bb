SPECIFICATION Spec
INVARIANTS FleetsOnBoard HitsAreBombedShips LosesWhenSunk
CONSTANTS
    Side = 3
    UserFleet <- MCFleet
    BotShips = 1
    BotSizes <- MCSizes
    Places <- MCPlaces
    Bombs <- MCBombs
