-------------------------------- MODULE Board --------------------------------
(***************************************************************************)
(* A player's board: Grid.h and the placement check of Player.h, the same   *)
(* in src/BattleShipGame/include, src/Battleship and src/BattleshipGui.     *)
(*                                                                          *)
(* Players count rows and columns from 1 and name a square by x, its        *)
(* column, and y, its row; the grid is an array of rows that counts from 0. *)
(* Each method converts for itself, and some take x first and some y.       *)
(*                                                                          *)
(* Player::getGrid returns a copy of the Grid, but the copy shares the      *)
(* array of rows: what is done to it is done to the player's board, which   *)
(* is why a board is one value here.                                        *)
(***************************************************************************)
EXTENDS Integers

CONSTANT Side   \* rows and columns of a board, 10 in the code

ASSUME SideAssumption == Side \in Nat \ {0}

WATER == 0
SHIP  == 1
HIT   == 2

Index      == (0..Side - 1) \X (0..Side - 1)   \* <<row, column>> of the array
Grids      == [Index -> {WATER, SHIP, HIT}]
Directions == 1..4                             \* where the bow points: N, S, E, W

\* The constructor of Grid, and resetGrid.
EmptyGrid == [sq \in Index |-> WATER]

getSquare(g, y, x) == g[<<y, x>>]

\* The square of the i-th part of a ship, from its bow, that addShip writes.
PartOf(d, y, x, i) ==
    IF d = 1 THEN <<y + i - 1, x - 1>>
    ELSE IF d = 2 THEN <<y - i - 1, x - 1>>
    ELSE IF d = 3 THEN <<y - 1, x - 1 - i>>
    ELSE <<y - 1, x - 1 + i>>

Body(s, d, y, x) == {PartOf(d, y, x, i) : i \in 0..s - 1}

addShip(g, s, d, y, x) ==
    [sq \in Index |-> IF sq \in Body(s, d, y, x) THEN SHIP ELSE g[sq]]

OnBoard(n) == n \in 1..Side

\* What checkIfValid asks of one part of the ship.
PartIsValid(g, d, y, x, i) ==
    \/ d = 1 /\ OnBoard(y + i) /\ getSquare(g, y + i - 1, x - 1) # SHIP
    \/ d = 2 /\ OnBoard(y - i) /\ getSquare(g, y - i - 1, x - 1) # SHIP
    \/ d = 3 /\ OnBoard(x - i) /\ getSquare(g, y - 1, x - i - 1) # SHIP
    \/ d = 4 /\ OnBoard(x + i) /\ getSquare(g, y - 1, x + i - 1) # SHIP

checkIfValid(g, y, x, d, s) ==
    /\ OnBoard(y) /\ OnBoard(x)
    /\ d \in Directions
    /\ \A i \in 0..s - 1 : PartIsValid(g, d, y, x, i)

\* A mutant: the coordinates the other way round.
hitTransposed(g, x, y) == [g EXCEPT ![<<x - 1, y - 1>>] = HIT]

\* A mutant: the value getGridStream has for a hit.
hitStreamed(g, x, y) == [g EXCEPT ![<<y - 1, x - 1>>] = 3]

hit(g, x, y) == [g EXCEPT ![<<y - 1, x - 1>>] = HIT]

\* The board after a bomb.
dropBomb(g, x, y) == IF getSquare(g, y - 1, x - 1) = SHIP THEN hit(g, x, y) ELSE g

\* A mutant: one hit is enough.
didLoseOnHit(g) == \E sq \in Index : g[sq] = HIT

didLose(g) == \A sq \in Index : g[sq] # SHIP

\* Where a ship is or was.
Ships(g) == {sq \in Index : g[sq] # WATER}
Hits(g)  == {sq \in Index : g[sq] = HIT}
=============================================================================
