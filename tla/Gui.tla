--------------------------------- MODULE Gui ---------------------------------
(***************************************************************************)
(* The windows of src/BattleshipGui up to and including a game against the  *)
(* computer: MainWindow, SelectShipsWindow with its form of seven ships,    *)
(* and what every button of PvbWindow does when it is released.  Which      *)
(* button of the enemy's board each of them paints is in module PvbWindow.  *)
(*                                                                          *)
(* Qt's event loop is one thread: a handler runs to its end before the next *)
(* event, so a handler is a step, but for on_submit_released, whose loop    *)
(* over the ships is one step a ship.  PvpWindow opens and does nothing.    *)
(***************************************************************************)
EXTENDS Board, Sequences

CONSTANTS Forms,     \* what may be filled in: seven times <<x, y, direction>>
          Bombs,     \* where the bot may drop its bomb, <<x, y>>
          MaxClicks  \* bound of the model: how many bombs the user drops

\* The sizes that setSize gives the ships in the end.
Sizes == <<2, 2, 3, 3, 3, 5, 5>>

ASSUME FormsAssumption ==
    Forms \subseteq [DOMAIN Sizes -> (1..Side) \X (1..Side) \X Directions]
ASSUME BombsAssumption == Bombs \subseteq (1..Side) \X (1..Side)
ASSUME ClicksAssumption == MaxClicks \in Nat

VARIABLES window,  \* the one that is shown
          grid,    \* the board of SelectShipsWindow::u, lent to PvbWindow
          form,    \* the ships that were submitted last
          i,       \* on_submit_released's loop
          check,   \* every ship so far was valid
          own,     \* the colours of the buttons of the user's own board
          enemy,   \* the buttons of the enemy's board that are red
          clicks   \* bombs the user dropped

vars == <<window, grid, form, i, check, own, enemy, clicks>>

Buttons == (1..Side) \X (1..Side)   \* <<row, column>>, as the names have them

Init ==
    /\ window = "main"
    /\ grid = EmptyGrid
    /\ form = << >>
    /\ i = 1
    /\ check = TRUE
    /\ own = [b \in Buttons |-> "plain"]
    /\ enemy = {}
    /\ clicks = 0

-----------------------------------------------------------------------------
(* MainWindow *)

\* Both buttons store the choice through a pointer that was never set, which
\* may end the program; else the window for the ships opens.
Choose ==
    /\ window = "main"
    /\ window' \in {"select", "crashed"}
    /\ UNCHANGED <<grid, form, i, check, own, enemy, clicks>>

on_pvpButton_clicked == Choose
on_pvbButton_clicked == Choose

-----------------------------------------------------------------------------
(* SelectShipsWindow *)

resetGrid == EmptyGrid

\* A mutant: what an earlier submission drew stays.
SubmitUnreset ==
    /\ window = "select"
    /\ form' \in Forms
    /\ i' = 1 /\ check' = TRUE
    /\ window' = "submitting"
    /\ UNCHANGED <<grid, own, enemy, clicks>>

\* on_submit_released reads the form and clears the board.
Submit ==
    /\ window = "select"
    /\ form' \in Forms
    /\ grid' = resetGrid
    /\ i' = 1 /\ check' = TRUE
    /\ window' = "submitting"
    /\ UNCHANGED <<own, enemy, clicks>>

Shape(n) == Body(Sizes[n], form[n][3], form[n][2], form[n][1])

\* The loop draws every ship that fits, those after one that does not too.
AddNext ==
    LET x == form[i][1]  y == form[i][2]  d == form[i][3] IN
    /\ window = "submitting" /\ i \in DOMAIN Sizes
    /\ IF checkIfValid(grid, y, x, d, Sizes[i])
       THEN grid' = addShip(grid, Sizes[i], d, y, x) /\ UNCHANGED check
       ELSE check' = FALSE /\ UNCHANGED grid
    /\ i' = i + 1
    /\ UNCHANGED <<window, form, own, enemy, clicks>>

\* A ship was refused: the form stays, and so does what was drawn.
Refuse ==
    /\ window = "submitting" /\ i \notin DOMAIN Sizes
    /\ ~ check
    /\ window' = "select"
    /\ UNCHANGED <<grid, form, i, check, own, enemy, clicks>>

\* All ships are drawn.  The choice is read through the pointer MainWindow
\* never set: either game, or the end of the program.
OpenPvp ==
    /\ window = "submitting" /\ i \notin DOMAIN Sizes
    /\ check
    /\ window' \in {"pvp", "crashed"}
    /\ UNCHANGED <<grid, form, i, check, own, enemy, clicks>>

\* PvbWindow's constructor shows the user's ships.  Its setBot, which is to
\* return a BotAi, runs off its end without: that may end the program too.
OpenPvb ==
    /\ window = "submitting" /\ i \notin DOMAIN Sizes
    /\ check
    /\ window' \in {"pvb", "crashed"}
    /\ own' = [b \in Buttons |->
                  IF getSquare(grid, b[1] - 1, b[2] - 1) = SHIP THEN "green" ELSE own[b]]
    /\ UNCHANGED <<grid, form, i, check, enemy, clicks>>

-----------------------------------------------------------------------------
(* PvbWindow *)

\* A mutant: the button's row and column the other way round.
ShowTransposed(g, at) ==
    IF getSquare(g, at[2] - 1, at[1] - 1) = HIT
    THEN [own EXCEPT ![<<at[1], at[2]>>] = "red"] ELSE own

\* The colours after the bot's bomb at x and y, by the 100 ifs each handler ends
\* with: the button of row y and column x turns red if its square is hit.
Show(g, at) ==
    IF getSquare(g, at[2] - 1, at[1] - 1) = HIT
    THEN [own EXCEPT ![<<at[2], at[1]>>] = "red"] ELSE own

\* A button of the enemy's board is released.  Whichever it is, the bomb falls
\* on square (1,1) of a bot made for the purpose, whose fleet may or may not be
\* there; a hit paints the button e.  Then the window's own bot drops its bomb.
Released(e) ==
    /\ window = "pvb" /\ clicks < MaxClicks
    /\ enemy' \in {enemy, enemy \cup {e}}
    /\ \E at \in Bombs : /\ grid' = dropBomb(grid, at[1], at[2])
                         /\ own' = Show(grid', at)
    /\ clicks' = clicks + 1
    /\ UNCHANGED <<window, form, i, check>>

\* Nobody need press anything, and a window may have nothing to press.
Idle == window # "submitting" /\ UNCHANGED vars

-----------------------------------------------------------------------------
(* Properties *)

\* The variables hold values of their types.
TypeOK ==
    /\ window \in {"main", "select", "submitting", "pvp", "pvb", "crashed"}
    /\ grid \in Grids
    /\ form \in Forms \cup {<< >>}
    /\ window \in {"submitting", "pvp", "pvb"} => form \in Forms
    /\ i \in 1..Len(Sizes) + 1
    /\ check \in BOOLEAN
    /\ own \in [Buttons -> {"plain", "green", "red"}]
    /\ enemy \in SUBSET Buttons
    /\ clicks \in 0..MaxClicks

Colour(value) == IF value = WATER THEN "plain" ELSE IF value = SHIP THEN "green" ELSE "red"

\* While the user plays the bot, every button of the user's own board has the
\* colour of its square: the buttons are named by row and column from 1, the
\* squares counted from 0, the bombs named by column and row.
OwnBoardShown ==
    window = "pvb" =>
        \A b \in Buttons : own[b] = Colour(grid[<<b[1] - 1, b[2] - 1>>])

\* The game starts, and goes on, with the seven ships of the form that was
\* accepted, each whole and clear of the others, and with nothing else on the
\* board, whatever was drawn by forms that were refused before.
FleetWhole ==
    window \in {"pvp", "pvb"} =>
        /\ Ships(grid) = UNION {Shape(n) : n \in DOMAIN Sizes}
        /\ \A m, n \in DOMAIN Sizes : m # n => Shape(m) \cap Shape(n) = {}

\* Before the game nothing is hit and nothing is coloured.
NothingPlayedYet ==
    window \in {"main", "select", "submitting"} =>
        Hits(grid) = {} /\ \A b \in Buttons : own[b] = "plain"

\* As long as no ship was refused, the board has those tried so far.
DrawnSoFar ==
    window = "submitting" /\ check =>
        /\ Ships(grid) = UNION {Shape(n) : n \in 1..i - 1}
        /\ \A m, n \in 1..i - 1 : m # n => Shape(m) \cap Shape(n) = {}

\* The invariant with what the loop and the constructor of PvbWindow rely on.
IInv ==
    /\ TypeOK
    /\ OwnBoardShown
    /\ FleetWhole
    /\ NothingPlayedYet
    /\ DrawnSoFar
=============================================================================
