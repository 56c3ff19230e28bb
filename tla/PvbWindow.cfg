SPECIFICATION Spec
INVARIANTS OwnBoardShown FleetWhole
CONSTANTS
    Side = 10
    Forms <- MCForms
    Bombs <- MCBombs
    MaxClicks = 2
