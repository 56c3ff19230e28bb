-------------------------- MODULE LocalGame_proofs --------------------------
(***************************************************************************)
(* The console game for every size of the board, every fleet and whatever   *)
(* is typed or drawn: fleets stay whole, bombs hit what they name, and the  *)
(* user has lost when every square of the fleet was bombed.                 *)
(***************************************************************************)
EXTENDS LocalGame, TLAPS

-----------------------------------------------------------------------------
(* What the operations on a board do: the check of a place and the drawing of *)
(* a ship agree on the squares, and a bomb changes a square of a ship and     *)
(* nothing else.                                                              *)

\* A part that passes the check is on the board, on a square without a ship.
LEMMA PartFits ==
    ASSUME NEW g, NEW y \in 1..Side, NEW x \in 1..Side, NEW d \in Directions,
           NEW n \in Nat, PartIsValid(g, d, y, x, n)
    PROVE  PartOf(d, y, x, n) \in Index /\ g[PartOf(d, y, x, n)] # SHIP
<1> USE SideAssumption DEF PartIsValid, PartOf, OnBoard, getSquare, Index
<1>1. CASE d = 1
  BY <1>1
<1>2. CASE d = 2
  BY <1>2
<1>3. CASE d = 3
  BY <1>3
<1>4. CASE d = 4
  BY <1>4
<1> QED
  BY <1>1, <1>2, <1>3, <1>4 DEF Directions

\* A ship that checkIfValid accepts lies on the board and on no other ship.
\* The check and addShip compute the squares separately.
LEMMA CheckedFits ==
    ASSUME NEW g, NEW y, NEW x, NEW d, NEW s \in Nat, checkIfValid(g, y, x, d, s)
    PROVE  /\ y \in 1..Side /\ x \in 1..Side /\ d \in Directions
           /\ Body(s, d, y, x) \subseteq Index
           /\ \A sq \in Body(s, d, y, x) : g[sq] # SHIP
<1>1. y \in 1..Side /\ x \in 1..Side /\ d \in Directions
  BY DEF checkIfValid, OnBoard
<1>2. ASSUME NEW n \in 0..s - 1
      PROVE  PartOf(d, y, x, n) \in Index /\ g[PartOf(d, y, x, n)] # SHIP
  BY <1>1, PartFits DEF checkIfValid
<1> QED
  BY <1>1, <1>2 DEF Body

\* Drawing a ship adds its squares and mends what was hit there.
LEMMA ShipDrawn ==
    ASSUME NEW g \in Grids, NEW s, NEW d, NEW y, NEW x, Body(s, d, y, x) \subseteq Index
    PROVE  /\ addShip(g, s, d, y, x) \in Grids
           /\ Ships(addShip(g, s, d, y, x)) = Ships(g) \cup Body(s, d, y, x)
           /\ Hits(addShip(g, s, d, y, x)) = Hits(g) \ Body(s, d, y, x)
BY DEF addShip, Grids, Ships, Hits, WATER, SHIP, HIT

\* A bomb moves no ship, and hits the square it names if a ship is there.
LEMMA BombDropped ==
    ASSUME NEW g \in Grids, NEW x \in 1..Side, NEW y \in 1..Side
    PROVE  /\ dropBomb(g, x, y) \in Grids
           /\ Ships(dropBomb(g, x, y)) = Ships(g)
           /\ Hits(dropBomb(g, x, y)) = Hits(g) \cup ({<<y - 1, x - 1>>} \cap Ships(g))
           /\ \A sq \in Index : dropBomb(g, x, y)[sq] =
                 IF sq = <<y - 1, x - 1>> /\ g[sq] = SHIP THEN HIT ELSE g[sq]
<1>1. <<y - 1, x - 1>> \in Index
  BY SideAssumption DEF Index
<1>2. CASE g[<<y - 1, x - 1>>] = SHIP
  <2>1. dropBomb(g, x, y) = [g EXCEPT ![<<y - 1, x - 1>>] = HIT]
    BY <1>2 DEF dropBomb, getSquare, hit
  <2> QED
    BY <1>1, <1>2, <2>1 DEF Grids, Ships, Hits, WATER, SHIP, HIT
<1>3. CASE g[<<y - 1, x - 1>>] # SHIP
  <2>1. dropBomb(g, x, y) = g
    BY <1>3 DEF dropBomb, getSquare
  <2> QED
    BY <1>1, <1>3, <2>1 DEF Grids, Ships, Hits, WATER, SHIP, HIT
<1> QED
  BY <1>2, <1>3

\* A board is lost when every square that has a ship is hit.
LEMMA LostWhenAllHit ==
    ASSUME NEW g \in Grids
    PROVE  didLose(g) <=> Ships(g) \subseteq Hits(g)
BY DEF didLose, Grids, Ships, Hits, WATER, SHIP, HIT

LEMMA EmptyBoard ==
    EmptyGrid \in Grids /\ Ships(EmptyGrid) = {} /\ Hits(EmptyGrid) = {}
BY DEF EmptyGrid, Grids, Ships, Hits, WATER, HIT, SHIP

-----------------------------------------------------------------------------
(* The game *)

LEMMA SlotsAreNumbers ==
    /\ Len(UserFleet) \in Nat \ {0}
    /\ \A n \in Slots("user") : UserFleet[n] \in Nat \ {0}
    /\ Slots("user") = 1..Len(UserFleet) /\ Slots("bot") = 1..BotShips
BY FleetAssumption DEF Slots

LEMMA NoShipHasNoSquares == Squares(NoShip) = {}
BY DEF Squares, NoShip, Ship, Body

LEMMA ShipIsRecord ==
    ASSUME NEW s \in Nat \ {0}, NEW d \in Directions, NEW x \in 1..Side, NEW y \in 1..Side
    PROVE  /\ Ship(s, d, x, y) \in Records
           /\ Ship(s, d, x, y) # NoShip
           /\ Squares(Ship(s, d, x, y)) = Body(s, d, y, x)
BY DEF Ship, NoShip, Records, Squares, Coordinates

LEMMA InitIInv == Init => IInv
<1> SUFFICES ASSUME Init PROVE IInv
  OBVIOUS
<1> USE SlotsAreNumbers, EmptyBoard, FleetAssumption DEF Init
<1>1. TypeOK
  BY DEF TypeOK, Players, Records
<1>2. FleetsOnBoard
  BY DEF FleetsOnBoard, Placed, Players
<1>3. HitsAreBombedShips /\ NotBombedYet /\ UserStillToPlace
  BY DEF HitsAreBombedShips, NotBombedYet, UserStillToPlace, Players
<1> QED
  BY <1>1, <1>2, <1>3 DEF IInv

-----------------------------------------------------------------------------
(* Placing a ship *)

\* What Place does to the boards and the records; p's slot i is free, or was
\* filled by the bot's first fleet.
LEMMA PlaceStep ==
    ASSUME IInv, Building, NEW p \in Players, i \in Slots(p),
           p = "user" => ships["user"][i] = NoShip,
           NEW s \in Nat \ {0}, NEW d, NEW x, NEW y, Place(p, s, d, x, y)
    PROVE  /\ grid' \in [Players -> Grids]
           /\ DOMAIN ships' = Players
           /\ \A q \in Players : ships'[q] \in [Slots(q) -> Records]
           /\ \A q \in Players : \A n \in Slots(q) :
                 q # p \/ n # i => ships'[q][n] = ships[q][n]
           /\ bombed' = bombed
           /\ FleetsOnBoard' /\ HitsAreBombedShips'
<1>1. /\ y \in 1..Side /\ x \in 1..Side /\ d \in Directions
      /\ Body(s, d, y, x) \subseteq Index
      /\ \A sq \in Body(s, d, y, x) : grid[p][sq] # SHIP
  BY CheckedFits DEF Place
<1>2. /\ grid \in [Players -> Grids]
      /\ DOMAIN ships = Players
      /\ \A q \in Players : ships[q] \in [Slots(q) -> Records]
  BY DEF IInv, TypeOK
<1> DEFINE new == Ship(s, d, x, y)
           body == Body(s, d, y, x)
<1>3. new \in Records /\ new # NoShip /\ Squares(new) = body
  BY <1>1, ShipIsRecord
<1>4. /\ ships' = [ships EXCEPT ![p][i] = new]
      /\ grid' = [grid EXCEPT ![p] = addShip(grid[p], s, d, y, x)]
      /\ bombed' = bombed
  BY DEF Place
<1>5. /\ addShip(grid[p], s, d, y, x) \in Grids
      /\ Ships(addShip(grid[p], s, d, y, x)) = Ships(grid[p]) \cup body
      /\ Hits(addShip(grid[p], s, d, y, x)) = Hits(grid[p]) \ body
  BY <1>1, <1>2, ShipDrawn
<1> HIDE DEF new, body
<1>6. /\ grid' \in [Players -> Grids]
      /\ Ships(grid'[p]) = Ships(grid[p]) \cup body
      /\ Hits(grid'[p]) = Hits(grid[p]) \ body
      /\ \A q \in Players \ {p} : grid'[q] = grid[q]
  BY <1>2, <1>4, <1>5
<1>7. /\ ships'[p][i] = new
      /\ \A q \in Players : \A n \in Slots(q) : q # p \/ n # i => ships'[q][n] = ships[q][n]
      /\ DOMAIN ships' = Players
      /\ \A q \in Players : ships'[q] \in [Slots(q) -> Records]
  BY <1>2, <1>3, <1>4
<1>8. Hits(grid[p]) = {} /\ bombed[p] = {}
  BY DEF IInv, NotBombedYet, HitsAreBombedShips
<1>9. body \cap Ships(grid[p]) = {}
  BY <1>1, <1>2, <1>8 DEF body, Ships, Hits, Grids, WATER, SHIP, HIT
<1>10. HitsAreBombedShips'
  BY <1>4, <1>6, <1>8 DEF IInv, HitsAreBombedShips
<1>11. FleetsOnBoard'
  <2>1. \A q \in Players : \A n \in Slots(q) :
           q # p \/ n # i => (n \in Placed(q)' <=> n \in Placed(q))
    BY <1>7 DEF Placed
  <2>2. i \in Placed(p)'
    BY <1>3, <1>7 DEF Placed
  <2>3. ASSUME NEW q \in Players, NEW n \in Placed(q)'
        PROVE  /\ Squares(ships'[q][n]) \subseteq Ships(grid'[q])
               /\ \A m \in Placed(q)' \ {n} :
                     Squares(ships'[q][n]) \cap Squares(ships'[q][m]) = {}
    <3>1. \A m \in Placed(q)' : m \in Slots(q)
      BY DEF Placed
    <3>2. \A m \in Placed(q)' : q # p \/ m # i =>
             /\ m \in Placed(q) /\ ships'[q][m] = ships[q][m]
             /\ Squares(ships[q][m]) \subseteq Ships(grid[q])
      BY <1>7, <2>1, <3>1 DEF IInv, FleetsOnBoard
    <3>3. \A k, m \in Placed(q) : k # m =>
             Squares(ships[q][k]) \cap Squares(ships[q][m]) = {}
      BY DEF IInv, FleetsOnBoard
    <3>4. CASE q # p
      BY <1>6, <3>2, <3>3, <3>4
    <3>5. CASE q = p
      <4>1. \A m \in Placed(q)' : m # i => Squares(ships'[p][m]) \cap body = {}
        BY <1>9, <3>2, <3>5
      <4> QED
        BY SMTT(60), <1>3, <1>6, <1>7, <3>2, <3>3, <3>5, <4>1
    <3> QED
      BY <3>4, <3>5
  <2>4. Ships(grid'["user"]) = UNION {Squares(ships'["user"][n]) : n \in Placed("user")'}
    <3>1. Ships(grid["user"]) = UNION {Squares(ships["user"][n]) : n \in Placed("user")}
      BY DEF IInv, FleetsOnBoard
    <3>2. CASE p = "user"
      <4>1. Placed("user")' = Placed("user") \cup {i}
        BY <2>1, <2>2, <3>2 DEF Placed, Players
      <4>2. i \notin Placed("user")
        BY <3>2 DEF Placed
      <4>3. \A n \in Placed("user") : ships'["user"][n] = ships["user"][n]
        BY <1>7, <4>2, <3>2 DEF Placed
      <4>4. ships'["user"][i] = new
        BY <1>7, <3>2
      <4>5. UNION {Squares(ships'["user"][n]) : n \in Placed("user")'}
            = (UNION {Squares(ships["user"][n]) : n \in Placed("user")}) \cup body
        BY <4>1, <4>3, <4>4, <1>3
      <4> QED
        BY <1>6, <3>1, <3>2, <4>5
    <3>3. CASE p # "user"
      <4>1. Placed("user")' = Placed("user")
        BY <2>1, <3>3 DEF Placed, Players
      <4>2. \A n \in Placed("user") : ships'["user"][n] = ships["user"][n]
        BY <1>7, <3>3 DEF Placed, Players
      <4>3. grid'["user"] = grid["user"]
        BY <1>6, <3>3 DEF Players
      <4> QED
        BY <3>1, <4>1, <4>2, <4>3
    <3> QED
      BY <3>2, <3>3
  <2> QED
    BY <2>3, <2>4 DEF FleetsOnBoard
<1> QED
  BY <1>4, <1>6, <1>7, <1>10, <1>11

LEMMA BotPlaces == ASSUME IInv, generateAiShips PROVE IInv'
<1>1. PICK at \in Places, s \in BotSizes : Place("bot", s, at[3], at[1], at[2])
  BY DEF generateAiShips
<1>2. /\ Building /\ i \in Slots("bot") /\ s \in Nat \ {0}
      /\ pc \in {"construct", "regenerate"}
  BY SlotsAreNumbers, FleetAssumption
     DEF generateAiShips, Building, IInv, TypeOK
<1>3. \/ pc' = pc /\ i' \in 1..BotShips
      \/ pc' \in {"menu", "place"} /\ i' = 1
  BY SMTT(60), <1>2, FleetAssumption DEF generateAiShips, NextShip, IInv, TypeOK, Slots
<1>4. /\ grid' \in [Players -> Grids]
      /\ DOMAIN ships' = Players
      /\ \A q \in Players : ships'[q] \in [Slots(q) -> Records]
      /\ \A n \in Slots("user") : ships'["user"][n] = ships["user"][n]
      /\ bombed' = bombed
      /\ FleetsOnBoard' /\ HitsAreBombedShips'
  BY <1>1, <1>2, PlaceStep DEF Players
<1>5. TypeOK'
  BY <1>2, <1>3, <1>4, SlotsAreNumbers DEF IInv, TypeOK, Building
<1>6. NotBombedYet'
  BY <1>2, <1>4 DEF IInv, NotBombedYet
<1>7. UserStillToPlace'
  BY <1>2, <1>3, <1>4, SlotsAreNumbers, FleetAssumption DEF IInv, UserStillToPlace, Building
<1> QED
  BY <1>4, <1>5, <1>6, <1>7 DEF IInv

LEMMA UserPlaces == ASSUME IInv, getShipsFromUserConsole PROVE IInv'
<1>1. PICK at \in Places : Place("user", UserFleet[i], at[3], at[1], at[2])
  BY DEF getShipsFromUserConsole
<1>2. /\ Building /\ i \in Slots("user") /\ UserFleet[i] \in Nat \ {0}
      /\ ships["user"][i] = NoShip
  BY SlotsAreNumbers
     DEF getShipsFromUserConsole, Building, IInv, TypeOK, UserStillToPlace
<1>3. \/ pc' = pc /\ i' = i + 1 /\ i < Len(UserFleet)
      \/ pc' \in {"play", "over"} /\ i' = 1
  BY DEF getShipsFromUserConsole, NextShip
<1>4. /\ grid' \in [Players -> Grids]
      /\ DOMAIN ships' = Players
      /\ \A q \in Players : ships'[q] \in [Slots(q) -> Records]
      /\ \A n \in Slots("user") \ {i} : ships'["user"][n] = ships["user"][n]
      /\ bombed' = bombed
      /\ FleetsOnBoard' /\ HitsAreBombedShips'
  BY <1>1, <1>2, PlaceStep DEF Players
<1>5. TypeOK'
  <2>1. /\ i \in 1..Len(UserFleet) /\ Len(UserFleet) \in Nat
        /\ pc \in {"place", "place_pvp"}
    BY FleetAssumption DEF IInv, TypeOK, getShipsFromUserConsole
  <2>2. /\ pc' \in {"construct", "menu", "regenerate", "place", "place_pvp", "play", "over"}
        /\ i' \in 1..(IF pc' \in {"place", "place_pvp"} THEN Len(UserFleet)
                      ELSE IF pc' \in {"construct", "regenerate"} THEN BotShips ELSE 1)
    BY <1>3, <2>1
  <2>3. bombed' \in [Players -> SUBSET Index]
    BY <1>4 DEF IInv, TypeOK
  <2> QED
    BY <1>4, <2>2, <2>3 DEF TypeOK
<1>6. NotBombedYet'
  BY <1>2, <1>4 DEF IInv, NotBombedYet
<1>7. UserStillToPlace'
  BY <1>2, <1>3, <1>4, SlotsAreNumbers
     DEF IInv, UserStillToPlace, Building, getShipsFromUserConsole
<1> QED
  BY <1>4, <1>5, <1>6, <1>7 DEF IInv

-----------------------------------------------------------------------------
(* A turn *)

LEMMA TurnStep == ASSUME IInv, Turn PROVE IInv'
<1>1. PICK mine \in Aims, its \in Aims :
         /\ grid' = [p \in Players |->
                        Bombed(p, IF p = "bot" THEN mine ELSE its).board]
         /\ bombed' = [p \in Players |->
                        Bombed(p, IF p = "bot" THEN mine ELSE its).squares]
  BY DEF Turn
<1>2. /\ grid \in [Players -> Grids] /\ bombed \in [Players -> SUBSET Index]
      /\ pc' = pc /\ ships' = ships /\ i' = i /\ pc = "play"
  BY DEF IInv, TypeOK, Turn
<1>3. ASSUME NEW p \in Players
      PROVE  /\ grid'[p] \in Grids
             /\ Ships(grid'[p]) = Ships(grid[p])
             /\ bombed'[p] \subseteq Index
             /\ Hits(grid'[p]) = bombed'[p] \cap Ships(grid'[p])
  <2> DEFINE at == IF p = "bot" THEN mine ELSE its
             sq == <<at[2] - 1, at[1] - 1>>
  <2>1. at[1] \in 1..Side /\ at[2] \in 1..Side
    BY DEF Aims, OnBoard
  <2>2. grid'[p] = dropBomb(grid[p], at[1], at[2]) /\ bombed'[p] = bombed[p] \cup {sq}
    BY <1>1 DEF Bombed
  <2>3. sq \in Index
    BY <2>1, SideAssumption DEF Index
  <2>4. Hits(grid[p]) = bombed[p] \cap Ships(grid[p])
    BY DEF IInv, HitsAreBombedShips
  <2>5. grid[p] \in Grids /\ bombed[p] \subseteq Index
    BY <1>2
  <2> HIDE DEF at
  <2>6. /\ grid'[p] \in Grids
        /\ Ships(grid'[p]) = Ships(grid[p])
        /\ Hits(grid'[p]) = Hits(grid[p]) \cup ({sq} \cap Ships(grid[p]))
    BY <2>1, <2>2, <2>5, BombDropped
  <2> HIDE DEF sq
  <2> QED
    BY <2>2, <2>3, <2>4, <2>5, <2>6
<1>4. grid' \in [Players -> Grids] /\ bombed' \in [Players -> SUBSET Index]
  BY <1>1, <1>3
<1>5. TypeOK'
  BY <1>2, <1>4 DEF IInv, TypeOK
<1>6. HitsAreBombedShips'
  BY <1>3 DEF HitsAreBombedShips
<1>7. Placed("user")' = Placed("user") /\ Placed("bot")' = Placed("bot")
  BY <1>2 DEF Placed
<1>8. FleetsOnBoard'
  BY <1>2, <1>3, <1>7 DEF IInv, FleetsOnBoard, Players
<1>9. NotBombedYet' /\ UserStillToPlace'
  BY <1>2 DEF NotBombedYet, UserStillToPlace, Building
<1> QED
  BY <1>5, <1>6, <1>8, <1>9 DEF IInv

\* The steps that only change where the program is.
LEMMA OtherSteps ==
    ASSUME IInv, \/ Choose \/ GameOver \/ UNCHANGED vars
    PROVE  IInv'
<1>1. /\ grid' = grid /\ ships' = ships /\ bombed' = bombed /\ i' = i
  BY DEF Choose, GameOver, vars
<1>2. Placed("user")' = Placed("user") /\ Placed("bot")' = Placed("bot")
  BY <1>1 DEF Placed
<1>3. FleetsOnBoard' /\ HitsAreBombedShips'
  BY <1>1, <1>2 DEF IInv, FleetsOnBoard, HitsAreBombedShips, Players
<1>4. CASE Choose
  BY <1>1, <1>3, <1>4, SlotsAreNumbers, FleetAssumption
     DEF Choose, IInv, TypeOK, NotBombedYet, UserStillToPlace, Building
<1>5. CASE GameOver
  BY <1>1, <1>3, <1>5
     DEF GameOver, IInv, TypeOK, NotBombedYet, UserStillToPlace, Building
<1>6. CASE UNCHANGED vars
  BY <1>1, <1>3, <1>6
     DEF vars, IInv, TypeOK, NotBombedYet, UserStillToPlace, Building
<1> QED
  BY <1>4, <1>5, <1>6

LEMMA StepIInv == IInv /\ [Next]_vars => IInv'
BY BotPlaces, UserPlaces, TurnStep, OtherSteps DEF Next, Terminated

-----------------------------------------------------------------------------

\* On every board, with every fleet, whatever is typed or drawn: the boards and
\* the records of GameMech's two players agree, and only bombed ships are hit.
THEOREM Safety == Spec => []IInv
<1>1. Init => IInv
  BY InitIInv
<1>2. IInv /\ [Next]_vars => IInv'
  BY StepIInv
<1> QED
  BY <1>1, <1>2, PTL DEF Spec

\* The ships of checkIfValid and addShip are whole and apart, in all directions.
THEOREM FleetsStayOnBoard == Spec => []FleetsOnBoard
<1>1. IInv => FleetsOnBoard
  BY DEF IInv
<1> QED
  BY <1>1, Safety, PTL

\* dropBomb strikes the square that was named and no other.
THEOREM OnlyBombedShipsAreHit == Spec => []HitsAreBombedShips
<1>1. IInv => HitsAreBombedShips
  BY DEF IInv
<1> QED
  BY <1>1, Safety, PTL

\* didLose says of the user what the rules say: the whole fleet was bombed.
THEOREM SunkMeansLost == Spec => []LosesWhenSunk
<1>1. IInv => LosesWhenSunk
  <2> SUFFICES ASSUME IInv PROVE LosesWhenSunk
    OBVIOUS
  <2>1. \A p \in Players : grid[p] \in Grids
    BY DEF IInv, TypeOK
  <2>2. \A p \in Players : Lost(p) <=> Ships(grid[p]) \subseteq bombed[p]
    BY <2>1, LostWhenAllHit DEF Lost, IInv, HitsAreBombedShips
  <2>3. \A n \in Slots("user") : n \in Placed("user") \/ Squares(ships["user"][n]) = {}
    BY NoShipHasNoSquares DEF Placed
  <2>4. \A n \in Slots("bot") : \/ n \in Placed("bot")
                                \/ Squares(ships["bot"][n]) = {}
    BY NoShipHasNoSquares DEF Placed
  <2>5. Placed("user") \subseteq Slots("user")
    BY DEF Placed
  <2>6. Lost("user") <=> \A n \in Slots("user") :
                            Squares(ships["user"][n]) \subseteq bombed["user"]
    BY <2>2, <2>3, <2>5 DEF IInv, FleetsOnBoard, Players
  <2>7. Lost("bot") => \A n \in Slots("bot") :
                            Squares(ships["bot"][n]) \subseteq bombed["bot"]
    BY <2>2, <2>4 DEF IInv, FleetsOnBoard, Players
  <2> QED
    BY <2>6, <2>7 DEF LosesWhenSunk
<1> QED
  BY <1>1, Safety, PTL
=============================================================================
