-------------------------- MODULE PvbWindow_proofs --------------------------
(***************************************************************************)
(* The windows with any set of forms, any choice of bombs and any number of *)
(* clicks: the game has the accepted fleet and nothing else, and the user's *)
(* own board is shown as it is.                                             *)
(***************************************************************************)
EXTENDS PvbWindow, TLAPS

-----------------------------------------------------------------------------
(* What the windows do to a board *)

\* A ship that checkIfValid accepts lies on the board and on no other ship.
\* The check and addShip compute the squares separately.
LEMMA CheckedFits ==
    ASSUME NEW g, NEW y, NEW x, NEW d, NEW s \in Nat, checkIfValid(g, y, x, d, s)
    PROVE  /\ y \in 1..Side /\ x \in 1..Side /\ d \in Directions
           /\ Body(s, d, y, x) \subseteq Index
           /\ \A sq \in Body(s, d, y, x) : g[sq] # SHIP
<1>1. y \in 1..Side /\ x \in 1..Side /\ d \in Directions
  BY DEF checkIfValid, OnBoard
<1>2. ASSUME NEW n \in 0..s - 1
      PROVE  PartOf(d, y, x, n) \in Index /\ g[PartOf(d, y, x, n)] # SHIP
  <2>1. PartIsValid(g, d, y, x, n) /\ d \in {1, 2, 3, 4}
    BY <1>1 DEF checkIfValid, Directions
  <2> QED
    BY <1>1, <2>1, SideAssumption DEF PartIsValid, PartOf, OnBoard, getSquare, Index
<1> QED
  BY <1>1, <1>2 DEF Body

\* Drawing a ship adds its squares and mends what was hit there.
LEMMA ShipDrawn ==
    ASSUME NEW g \in Grids, NEW s, NEW d, NEW y, NEW x, Body(s, d, y, x) \subseteq Index
    PROVE  /\ addShip(g, s, d, y, x) \in Grids
           /\ Ships(addShip(g, s, d, y, x)) = Ships(g) \cup Body(s, d, y, x)
           /\ Hits(addShip(g, s, d, y, x)) = Hits(g) \ Body(s, d, y, x)
BY DEF addShip, Grids, Ships, Hits, WATER, SHIP, HIT

\* A bomb moves no ship, and hits the square it names if a ship is there.
LEMMA BombDropped ==
    ASSUME NEW g \in Grids, NEW x \in 1..Side, NEW y \in 1..Side
    PROVE  /\ dropBomb(g, x, y) \in Grids
           /\ Ships(dropBomb(g, x, y)) = Ships(g)
           /\ Hits(dropBomb(g, x, y)) = Hits(g) \cup ({<<y - 1, x - 1>>} \cap Ships(g))
           /\ \A sq \in Index : dropBomb(g, x, y)[sq] =
                 IF sq = <<y - 1, x - 1>> /\ g[sq] = SHIP THEN HIT ELSE g[sq]
<1>1. <<y - 1, x - 1>> \in Index
  BY SideAssumption DEF Index
<1>2. CASE g[<<y - 1, x - 1>>] = SHIP
  <2>1. dropBomb(g, x, y) = [g EXCEPT ![<<y - 1, x - 1>>] = HIT]
    BY <1>2 DEF dropBomb, getSquare, hit
  <2> QED
    BY <1>1, <1>2, <2>1 DEF Grids, Ships, Hits, WATER, SHIP, HIT
<1>3. CASE g[<<y - 1, x - 1>>] # SHIP
  <2>1. dropBomb(g, x, y) = g
    BY <1>3 DEF dropBomb, getSquare
  <2> QED
    BY <1>1, <1>3, <2>1 DEF Grids, Ships, Hits, WATER, SHIP, HIT
<1> QED
  BY <1>2, <1>3

LEMMA EmptyBoard ==
    EmptyGrid \in Grids /\ Ships(EmptyGrid) = {} /\ Hits(EmptyGrid) = {}
BY DEF EmptyGrid, Grids, Ships, Hits, WATER, HIT, SHIP

-----------------------------------------------------------------------------
(* The form and the fleet *)

LEMMA SevenSizes ==
    /\ Len(Sizes) = 7 /\ DOMAIN Sizes = 1..7
    /\ \A n \in 1..7 : Sizes[n] \in Nat
BY DEF Sizes

LEMMA InitIInv == Init => IInv
BY EmptyBoard, SevenSizes, ClicksAssumption
   DEF Init, IInv, TypeOK, OwnBoardShown, FleetWhole, NothingPlayedYet, DrawnSoFar

-----------------------------------------------------------------------------
(* MainWindow and SelectShipsWindow *)

LEMMA SubmitStep == ASSUME IInv, Submit PROVE IInv'
BY EmptyBoard, SevenSizes
   DEF Submit, resetGrid, IInv, TypeOK, OwnBoardShown, FleetWhole, NothingPlayedYet,
       DrawnSoFar, Shape

LEMMA AddNextStep == ASSUME IInv, AddNext PROVE IInv'
<1> DEFINE x == form[i][1]
           y == form[i][2]
           d == form[i][3]
<1>1. /\ window = "submitting" /\ i \in 1..7 /\ i' = i + 1
      /\ window' = window /\ form' = form /\ own' = own /\ enemy' = enemy
      /\ clicks' = clicks /\ Sizes[i] \in Nat /\ grid \in Grids /\ check \in BOOLEAN
  BY SevenSizes DEF AddNext, IInv, TypeOK
<1>2. Shape(i) = Body(Sizes[i], d, y, x)
  BY DEF Shape
<1>3. \A n \in 1..7 : Shape(n)' = Shape(n)
  BY <1>1 DEF Shape
<1>4. Hits(grid) = {} /\ \A b \in Buttons : own[b] = "plain"
  BY <1>1 DEF IInv, NothingPlayedYet
<1>5. CASE checkIfValid(grid, y, x, d, Sizes[i])
  <2>1. grid' = addShip(grid, Sizes[i], d, y, x) /\ check' = check
    BY <1>5 DEF AddNext
  <2>2. /\ Shape(i) \subseteq Index
        /\ \A sq \in Shape(i) : grid[sq] # SHIP
    BY <1>1, <1>2, <1>5, CheckedFits
  <2>3. /\ grid' \in Grids
        /\ Ships(grid') = Ships(grid) \cup Shape(i)
        /\ Hits(grid') = {}
    BY <1>1, <1>2, <1>4, <2>1, <2>2, ShipDrawn
  <2>4. Shape(i) \cap Ships(grid) = {}
    BY <1>1, <1>4, <2>2 DEF Ships, Hits, Grids, WATER, SHIP, HIT
  <2>5. DrawnSoFar'
    <3> SUFFICES ASSUME check
                 PROVE  /\ Ships(grid') = UNION {Shape(n)' : n \in 1..i}
                        /\ \A m, n \in 1..i : m # n => Shape(m)' \cap Shape(n)' = {}
      BY <1>1, <2>1 DEF DrawnSoFar
    <3>1. /\ Ships(grid) = UNION {Shape(n) : n \in 1..i - 1}
          /\ \A m, n \in 1..i - 1 : m # n => Shape(m) \cap Shape(n) = {}
      BY <1>1 DEF IInv, DrawnSoFar
    <3>2. \A n \in 1..i - 1 : Shape(n) \cap Shape(i) = {}
      BY <2>4, <3>1
    <3>3. \A n \in 1..i : n \in 1..i - 1 \/ n = i
      BY <1>1
    <3>4. \A n \in 1..i : Shape(n)' = Shape(n)
      BY <1>1, <1>3
    <3>5. Ships(grid') = UNION {Shape(n)' : n \in 1..i}
      <4>1. UNION {Shape(n)' : n \in 1..i} = UNION {Shape(n) : n \in 1..i}
        BY <3>4
      <4>2. UNION {Shape(n) : n \in 1..i}
            = (UNION {Shape(n) : n \in 1..i - 1}) \cup Shape(i)
        BY <1>1, <3>3
      <4> QED
        BY <2>3, <3>1, <4>1, <4>2
    <3> QED
      BY <3>1, <3>2, <3>3, <3>4, <3>5
  <2> QED
    BY SMTT(60), <1>1, <1>4, <2>1, <2>3, <2>5, SevenSizes
       DEF IInv, TypeOK, OwnBoardShown, FleetWhole, NothingPlayedYet
<1>6. CASE ~ checkIfValid(grid, y, x, d, Sizes[i])
  <2>1. grid' = grid /\ check' = FALSE
    BY <1>6 DEF AddNext
  <2>2. TypeOK'
    <3>1. check' \in BOOLEAN
      BY <2>1
    <3>2. grid' = grid
      BY <2>1
    <3> QED
      BY SMTT(60), <1>1, <3>1, <3>2, SevenSizes DEF IInv, TypeOK
  <2>3. NothingPlayedYet'
    BY <1>1, <1>4, <2>1 DEF NothingPlayedYet
  <2> QED
    BY <1>1, <2>1, <2>2, <2>3 DEF IInv, OwnBoardShown, FleetWhole, DrawnSoFar
<1> QED
  BY <1>5, <1>6

\* The fleet of a form none of whose ships was refused.
LEMMA AcceptedFleet ==
    ASSUME IInv, window = "submitting", i \notin DOMAIN Sizes, check
    PROVE  /\ Ships(grid) = UNION {Shape(n) : n \in DOMAIN Sizes}
           /\ \A m, n \in DOMAIN Sizes : m # n => Shape(m) \cap Shape(n) = {}
<1>1. i - 1 = 7
  BY SevenSizes DEF IInv, TypeOK
<1> QED
  BY <1>1, SevenSizes DEF IInv, DrawnSoFar

LEMMA OpenPvbStep == ASSUME IInv, OpenPvb PROVE IInv'
<1>1. /\ window = "submitting" /\ window' \in {"pvb", "crashed"}
      /\ grid' = grid /\ form' = form /\ i' = i /\ check' = check /\ enemy' = enemy
      /\ clicks' = clicks /\ grid \in Grids
  BY DEF OpenPvb, IInv, TypeOK
<1>2. Hits(grid) = {} /\ \A b \in Buttons : own[b] = "plain"
  BY <1>1 DEF IInv, NothingPlayedYet
<1>3. FleetWhole'
  <2>1. /\ Ships(grid) = UNION {Shape(n) : n \in DOMAIN Sizes}
        /\ \A m, n \in DOMAIN Sizes : m # n => Shape(m) \cap Shape(n) = {}
    BY AcceptedFleet DEF OpenPvb
  <2>2. \A n \in DOMAIN Sizes : Shape(n)' = Shape(n)
    BY <1>1 DEF Shape
  <2> QED
    BY <1>1, <2>1, <2>2 DEF FleetWhole
<1>4. \A b \in Buttons : <<b[1] - 1, b[2] - 1>> \in Index
  BY SideAssumption DEF Buttons, Index
<1>5. own' = [b \in Buttons |->
                 IF grid[<<b[1] - 1, b[2] - 1>>] = SHIP THEN "green" ELSE "plain"]
  BY <1>2 DEF OpenPvb, getSquare
<1>6. \A b \in Buttons : grid[<<b[1] - 1, b[2] - 1>>] \in {WATER, SHIP}
  BY <1>1, <1>2, <1>4 DEF Grids, Hits, WATER, SHIP, HIT
<1>7. OwnBoardShown'
  <2>1. \A b \in Buttons : own'[b] = Colour(grid'[<<b[1] - 1, b[2] - 1>>])
    <3> TAKE b \in Buttons
    <3>1. own'[b] = IF grid[<<b[1] - 1, b[2] - 1>>] = SHIP THEN "green" ELSE "plain"
      BY <1>5
    <3> QED
      BY <1>1, <1>6, <3>1 DEF Colour, WATER, SHIP
  <2> QED
    BY <2>1 DEF OwnBoardShown
<1>8. own' \in [Buttons -> {"plain", "green", "red"}]
  BY <1>5
<1> QED
  BY <1>1, <1>3, <1>7, <1>8 DEF IInv, TypeOK, NothingPlayedYet, DrawnSoFar

LEMMA OtherSteps ==
    ASSUME IInv, \/ Choose \/ Refuse \/ OpenPvp \/ UNCHANGED vars
    PROVE  IInv'
<1>1. /\ grid' = grid /\ form' = form /\ i' = i /\ check' = check /\ own' = own
      /\ enemy' = enemy /\ clicks' = clicks
  BY DEF Choose, Refuse, OpenPvp, vars
<1>2. /\ Ships(grid)' = Ships(grid) /\ Hits(grid)' = Hits(grid)
      /\ \A n \in 1..7 : Shape(n)' = Shape(n)
  BY <1>1 DEF Shape
<1>3. CASE Choose
  BY <1>1, <1>2, <1>3, SevenSizes
     DEF Choose, IInv, TypeOK, OwnBoardShown, FleetWhole, NothingPlayedYet, DrawnSoFar
<1>4. CASE Refuse
  BY <1>1, <1>2, <1>4, SevenSizes
     DEF Refuse, IInv, TypeOK, OwnBoardShown, FleetWhole, NothingPlayedYet, DrawnSoFar
<1>5. CASE OpenPvp
  <2>1. /\ Ships(grid) = UNION {Shape(n) : n \in DOMAIN Sizes}
        /\ \A m, n \in DOMAIN Sizes : m # n => Shape(m) \cap Shape(n) = {}
    BY <1>5, AcceptedFleet DEF OpenPvp
  <2>2. FleetWhole'
    BY <1>1, <1>2, <2>1, SevenSizes DEF FleetWhole
  <2> QED
    BY <1>1, <1>5, <2>2
       DEF OpenPvp, IInv, TypeOK, OwnBoardShown, NothingPlayedYet, DrawnSoFar
<1>6. CASE UNCHANGED vars
  <2>1. window' = window
    BY <1>6 DEF vars
  <2>2. TypeOK'
    BY <1>1, <2>1 DEF IInv, TypeOK
  <2>3. OwnBoardShown' /\ NothingPlayedYet'
    BY <1>1, <2>1 DEF IInv, OwnBoardShown, NothingPlayedYet
  <2>4. FleetWhole' /\ DrawnSoFar'
    BY <1>1, <2>1 DEF IInv, FleetWhole, DrawnSoFar, Shape
  <2> QED
    BY <2>2, <2>3, <2>4 DEF IInv
<1> QED
  BY <1>3, <1>4, <1>5, <1>6

-----------------------------------------------------------------------------
(* PvbWindow *)

LEMMA ReleasedStep == ASSUME IInv, NEW e \in Buttons, Released(e) PROVE IInv'
<1>1. PICK at \in Bombs : /\ grid' = dropBomb(grid, at[1], at[2])
                          /\ own' = Show(grid', at)
  BY DEF Released
<1>2. /\ window = "pvb" /\ window' = window /\ form' = form /\ i' = i
      /\ check' = check /\ clicks' \in 0..MaxClicks /\ enemy' \in SUBSET Buttons
      /\ grid \in Grids /\ own \in [Buttons -> {"plain", "green", "red"}]
  BY ClicksAssumption DEF Released, IInv, TypeOK
<1>3. at[1] \in 1..Side /\ at[2] \in 1..Side /\ <<at[2], at[1]>> \in Buttons
  BY BombsAssumption DEF Buttons
<1> DEFINE sq == <<at[2] - 1, at[1] - 1>>
<1>4. /\ grid' \in Grids /\ Ships(grid') = Ships(grid)
      /\ \A s \in Index : grid'[s] = IF s = sq /\ grid[s] = SHIP THEN HIT ELSE grid[s]
  BY <1>1, <1>2, <1>3, BombDropped
<1>5. own' \in [Buttons -> {"plain", "green", "red"}]
  BY <1>1, <1>2 DEF Show
<1>6. OwnBoardShown'
  <2> SUFFICES ASSUME NEW b \in Buttons
               PROVE  own'[b] = Colour(grid'[<<b[1] - 1, b[2] - 1>>])
    BY DEF OwnBoardShown, Colour
  <2> DEFINE s == <<b[1] - 1, b[2] - 1>>
  <2>1. s \in Index /\ own[b] = Colour(grid[s]) /\ sq \in Index
    BY <1>2, <1>3, SideAssumption DEF Buttons, Index, IInv, OwnBoardShown
  <2>2. own' = IF grid'[sq] = HIT THEN [own EXCEPT ![<<at[2], at[1]>>] = "red"] ELSE own
    BY <1>1 DEF Show, getSquare
  <2>3. CASE b = <<at[2], at[1]>>
    <3>1. s = sq
      BY <2>3
    <3> QED
      BY <1>2, <1>3, <1>4, <2>1, <2>2, <2>3, <3>1 DEF Colour, WATER, SHIP, HIT
  <2>4. CASE b # <<at[2], at[1]>>
    <3>1. s # sq
      BY <1>3, <2>4 DEF Buttons
    <3> QED
      BY <1>2, <1>4, <2>1, <2>2, <2>4, <3>1
  <2> QED
    BY <2>3, <2>4
<1>7. FleetWhole'
  <2>1. \A n \in DOMAIN Sizes : Shape(n)' = Shape(n)
    BY <1>2 DEF Shape
  <2> QED
    BY <1>2, <1>4, <2>1 DEF IInv, FleetWhole
<1> QED
  BY <1>2, <1>4, <1>5, <1>6, <1>7 DEF IInv, TypeOK, NothingPlayedYet, DrawnSoFar

\* Every handler releases a button that exists, whichever one it paints.
LEMMA HandlersRelease == on_pushButton_released => \E e \in Buttons : Released(e)
<1>1. \A r, c \in 1..10 : <<r, c>> \in Buttons
  BY TenByTen DEF Buttons
<1>2. Row1 => \E e \in Buttons : Released(e)
  BY <1>1 DEF Row1,
     e_1_1_released, e_1_2_released, e_1_3_released, e_1_4_released, e_1_5_released,
     e_1_6_released, e_1_7_released, e_1_8_released, e_1_9_released, e_1_10_released
<1>3. Row2 => \E e \in Buttons : Released(e)
  BY <1>1 DEF Row2,
     e_2_1_released, e_2_2_released, e_2_3_released, e_2_4_released, e_2_5_released,
     e_2_6_released, e_2_7_released, e_2_8_released, e_2_9_released, e_2_10_released
<1>4. Row3 => \E e \in Buttons : Released(e)
  BY <1>1 DEF Row3,
     e_3_1_released, e_3_2_released, e_3_3_released, e_3_4_released, e_3_5_released,
     e_3_6_released, e_3_7_released, e_3_8_released, e_3_9_released, e_3_10_released
<1>5. Row4 => \E e \in Buttons : Released(e)
  BY <1>1 DEF Row4,
     e_4_1_released, e_4_2_released, e_4_3_released, e_4_4_released, e_4_5_released,
     e_4_6_released, e_4_7_released, e_4_8_released, e_4_9_released, e_4_10_released
<1>6. Row5 => \E e \in Buttons : Released(e)
  BY <1>1 DEF Row5,
     e_5_1_released, e_5_2_released, e_5_3_released, e_5_4_released, e_5_5_released,
     e_5_6_released, e_5_7_released, e_5_8_released, e_5_9_released, e_5_10_released
<1>7. Row6 => \E e \in Buttons : Released(e)
  BY <1>1 DEF Row6,
     e_6_1_released, e_6_2_released, e_6_3_released, e_6_4_released, e_6_5_released,
     e_6_6_released, e_6_7_released, e_6_8_released, e_6_9_released, e_6_10_released
<1>8. Row7 => \E e \in Buttons : Released(e)
  BY <1>1 DEF Row7,
     e_7_1_released, e_7_2_released, e_7_3_released, e_7_4_released, e_7_5_released,
     e_7_6_released, e_7_7_released, e_7_8_released, e_7_9_released, e_7_10_released
<1>9. Row8 => \E e \in Buttons : Released(e)
  BY <1>1 DEF Row8,
     e_8_1_released, e_8_2_released, e_8_3_released, e_8_4_released, e_8_5_released,
     e_8_6_released, e_8_7_released, e_8_8_released, e_8_9_released, e_8_10_released
<1>10. Row9 => \E e \in Buttons : Released(e)
  BY <1>1 DEF Row9,
     e_9_1_released, e_9_2_released, e_9_3_released, e_9_4_released, e_9_5_released,
     e_9_6_released, e_9_7_released, e_9_8_released, e_9_9_released, e_9_10_released
<1>11. Row10 => \E e \in Buttons : Released(e)
  BY <1>1 DEF Row10,
     e_10_1_released, e_10_2_released, e_10_3_released, e_10_4_released, e_10_5_released,
     e_10_6_released, e_10_7_released, e_10_8_released, e_10_9_released, e_10_10_released
<1> QED
  BY <1>2, <1>3, <1>4, <1>5, <1>6, <1>7, <1>8, <1>9, <1>10, <1>11
     DEF on_pushButton_released

LEMMA StepIInv == IInv /\ [Next]_vars => IInv'
<1> SUFFICES ASSUME IInv, [Next]_vars PROVE IInv'
  OBVIOUS
<1>1. CASE on_pvpButton_clicked \/ on_pvbButton_clicked \/ Refuse \/ OpenPvp \/ UNCHANGED vars
  BY <1>1, OtherSteps DEF on_pvpButton_clicked, on_pvbButton_clicked
<1>2. CASE Submit
  BY <1>2, SubmitStep
<1>3. CASE AddNext
  BY <1>3, AddNextStep
<1>4. CASE OpenPvb
  BY <1>4, OpenPvbStep
<1>5. CASE on_pushButton_released
  BY <1>5, HandlersRelease, ReleasedStep
<1>6. CASE Idle
  BY <1>6, OtherSteps DEF Idle
<1> QED
  BY <1>1, <1>2, <1>3, <1>4, <1>5, <1>6 DEF Next

-----------------------------------------------------------------------------

\* Whatever forms are filled in and whatever buttons are released, board, form
\* and colours agree.
THEOREM Safety == Spec => []IInv
<1>1. Init => IInv
  BY InitIInv
<1>2. IInv /\ [Next]_vars => IInv'
  BY StepIInv
<1> QED
  BY <1>1, <1>2, PTL DEF Spec

\* All hundred handlers show the user's own board as it is, bomb after bomb.
THEOREM BoardIsShown == Spec => []OwnBoardShown
<1>1. IInv => OwnBoardShown
  BY DEF IInv
<1> QED
  BY <1>1, Safety, PTL

\* on_submit_released lets a game begin with the seven ships of one form only,
\* after any number of forms that were refused half-way.
THEOREM AcceptedFleetPlays == Spec => []FleetWhole
<1>1. IInv => FleetWhole
  BY DEF IInv
<1> QED
  BY <1>1, Safety, PTL
=============================================================================
