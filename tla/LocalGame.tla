------------------------------ MODULE LocalGame ------------------------------
(***************************************************************************)
(* The game against the computer on a console                               *)
(* (src/BattleShipGame/include): GameMech asks what to play, lets the user  *)
(* place a fleet and then alternates the user's bombs with the bot's, on    *)
(* boards as module Board has them.                                         *)
(*                                                                          *)
(* The program is one thread.  An iteration of a loop is a step: a ship     *)
(* that is placed, or a turn.  What the user types, and what the bot draws  *)
(* from rand, comes from Places and Bombs; what the code refuses, it asks   *)
(* for again, which changes nothing and is no step.                         *)
(***************************************************************************)
EXTENDS Board, Sequences

CONSTANTS UserFleet,  \* the sizes the user places, <<2, 2, 2, 3, 3, 5, 5>>
          BotShips,   \* ships generateAiShips places, 7
          BotSizes,   \* the sizes it draws from, 1..3
          Places,     \* where a ship may be asked for, <<x, y, direction>>
          Bombs       \* where a bomb may be asked for, <<x, y>>

ASSUME FleetAssumption ==
    /\ UserFleet \in Seq(Nat \ {0}) /\ UserFleet # << >>
    /\ BotShips \in Nat \ {0}
    /\ BotSizes \subseteq Nat \ {0}
    /\ Places \subseteq Int \X Int \X Int
    /\ Bombs \subseteq Int \X Int

VARIABLES pc,      \* where the program is
          grid,    \* the boards of the user and of the bot
          ships,   \* Player::ships, the record of each ship
          i,       \* the ship that is to be placed next
          bombed   \* history: the squares each board was bombed at

vars == <<pc, grid, ships, i, bombed>>

Players == {"user", "bot"}
Ship(s, d, x, y) == [size |-> s, direction |-> d, x |-> x, y |-> y]
NoShip == Ship(0, 1, 1, 1)
Slots(p) == IF p = "user" THEN 1..Len(UserFleet) ELSE 1..BotShips

\* The members of GameMech: u with an empty board, b in its constructor.
Init ==
    /\ pc = "construct"
    /\ grid = [p \in Players |-> EmptyGrid]
    /\ ships = [p \in Players |-> [n \in Slots(p) |-> NoShip]]
    /\ i = 1
    /\ bombed = [p \in Players |-> {}]

-----------------------------------------------------------------------------
(* Placing ships *)

\* A mutant: the record has x and y swapped.
PlaceMisfiled(p, s, d, x, y) ==
    /\ checkIfValid(grid[p], y, x, d, s)
    /\ ships' = [ships EXCEPT ![p][i] = Ship(s, d, y, x)]
    /\ grid' = [grid EXCEPT ![p] = addShip(@, s, d, y, x)]
    /\ UNCHANGED bombed

\* A ship that passes the check is recorded and drawn.
Place(p, s, d, x, y) ==
    /\ checkIfValid(grid[p], y, x, d, s)
    /\ ships' = [ships EXCEPT ![p][i] = Ship(s, d, x, y)]
    /\ grid' = [grid EXCEPT ![p] = addShip(@, s, d, y, x)]
    /\ UNCHANGED bombed

\* The loop goes on until the last ship.
NextShip(last, then) ==
    IF i < last THEN i' = i + 1 /\ UNCHANGED pc ELSE i' = 1 /\ pc' = then

\* BotAi::generateAiShips: run by BotAi's constructor, and once more by
\* startPvBot.  The second run draws its ships on the board of the first and
\* keeps their records in the same places.
generateAiShips ==
    /\ pc \in {"construct", "regenerate"}
    /\ \E at \in Places, s \in BotSizes : Place("bot", s, at[3], at[1], at[2])
    /\ NextShip(BotShips, IF pc = "construct" THEN "menu" ELSE "place")

\* getUserInput: two players or the bot.
Choose ==
    /\ pc = "menu"
    /\ pc' \in {"place_pvp", "regenerate"}
    /\ UNCHANGED <<grid, ships, i, bombed>>

\* getShipsFromUserConsole, for either game; startPvp does nothing after it.
getShipsFromUserConsole ==
    /\ pc \in {"place", "place_pvp"}
    /\ \E at \in Places : Place("user", UserFleet[i], at[3], at[1], at[2])
    /\ NextShip(Len(UserFleet), IF pc = "place" THEN "play" ELSE "over")

-----------------------------------------------------------------------------
(* startPvBot's loop *)

Lost(p) == didLose(grid[p])

\* getTurnInput asks again until the square is on the board, and dropRandomBomb
\* draws one that is.
Aims == {at \in Bombs : OnBoard(at[1]) /\ OnBoard(at[2])}

Bombed(p, at) ==
    [board |-> dropBomb(grid[p], at[1], at[2]),
     squares |-> bombed[p] \cup {<<at[2] - 1, at[1] - 1>>}]

\* An iteration: the user's bomb falls on the bot's board and the bot's on the
\* user's, whether or not the first has ended the game.
Turn ==
    /\ pc = "play"
    /\ ~ Lost("user") \/ ~ Lost("bot")
    /\ \E mine, its \in Aims :
          /\ grid' = [p \in Players |->
                         Bombed(p, IF p = "bot" THEN mine ELSE its).board]
          /\ bombed' = [p \in Players |->
                         Bombed(p, IF p = "bot" THEN mine ELSE its).squares]
    /\ UNCHANGED <<pc, ships, i>>

\* The loop ends when both have lost.
GameOver ==
    /\ pc = "play"
    /\ Lost("user") /\ Lost("bot")
    /\ pc' = "over"
    /\ UNCHANGED <<grid, ships, i, bombed>>

\* main returns.
Terminated == pc = "over" /\ UNCHANGED vars

Next == \/ generateAiShips \/ Choose \/ getShipsFromUserConsole
        \/ Turn \/ GameOver \/ Terminated

Spec == Init /\ [][Next]_vars

-----------------------------------------------------------------------------
(* Properties *)

Coordinates == 1..Side
Records == {NoShip} \cup [size : Nat \ {0}, direction : Directions,
                          x : Coordinates, y : Coordinates]

\* The variables hold values of their types.
TypeOK ==
    /\ pc \in {"construct", "menu", "regenerate", "place", "place_pvp", "play", "over"}
    /\ grid \in [Players -> Grids]
    /\ DOMAIN ships = Players
    /\ \A p \in Players : ships[p] \in [Slots(p) -> Records]
    /\ i \in 1..(IF pc \in {"place", "place_pvp"} THEN Len(UserFleet)
                 ELSE IF pc \in {"construct", "regenerate"} THEN BotShips ELSE 1)
    /\ bombed \in [Players -> SUBSET Index]

Squares(ship) == Body(ship.size, ship.direction, ship.y, ship.x)
Placed(p) == {n \in Slots(p) : ships[p][n] # NoShip}

\* Every ship that is recorded is on the board, whole and clear of the others,
\* however the ships were turned; the user's board has nothing else on it.
FleetsOnBoard ==
    /\ \A p \in Players : \A n \in Placed(p) :
          /\ Squares(ships[p][n]) \subseteq Ships(grid[p])
          /\ \A m \in Placed(p) \ {n} :
                Squares(ships[p][n]) \cap Squares(ships[p][m]) = {}
    /\ Ships(grid["user"]) = UNION {Squares(ships["user"][n]) : n \in Placed("user")}

\* A square is marked as hit exactly when it has a ship and was bombed: no bomb
\* strikes another square than the one that was named.
HitsAreBombedShips ==
    \A p \in Players : Hits(grid[p]) = bombed[p] \cap Ships(grid[p])

\* While the game is played, the user has lost exactly when every square of
\* every ship it placed was bombed.  The bot's loss takes more: the ships of its
\* first fleet, of which no record is left, must go down too.
LosesWhenSunk ==
    pc = "play" =>
        /\ Lost("user") <=> \A n \in Slots("user") :
                                Squares(ships["user"][n]) \subseteq bombed["user"]
        /\ Lost("bot") => \A n \in Slots("bot") :
                                Squares(ships["bot"][n]) \subseteq bombed["bot"]

Building == pc \notin {"play", "over"}

\* No bomb falls before all ships are placed.
NotBombedYet == Building => \A p \in Players : bombed[p] = {}

\* The ships the user has not placed yet have no record.
UserStillToPlace ==
    Building => \A n \in Slots("user") :
        pc \notin {"place", "place_pvp"} \/ n >= i => ships["user"][n] = NoShip

\* The invariant with what it takes to be inductive: a ship is checked against
\* squares that have a ship, not against those that were hit, so that it
\* matters that there are none while ships are placed; and the squares of a
\* record that is overwritten stay on the board.
IInv ==
    /\ TypeOK
    /\ FleetsOnBoard
    /\ HitsAreBombedShips
    /\ NotBombedYet
    /\ UserStillToPlace
=============================================================================
