----------------------------- MODULE MCPvbWindow -----------------------------
(* The board of the program, ten by ten.  The forms: a fleet that fits, along
   every edge; one whose third ship crosses the first; one whose last ship
   leaves the board; and one with all ships on one place. *)
EXTENDS PvbWindow

Fits    == << <<1, 1, 1>>, <<10, 10, 2>>, <<3, 1, 1>>, <<10, 1, 3>>, <<5, 5, 4>>,
              <<1, 10, 4>>, <<1, 8, 2>> >>
Crosses == [Fits EXCEPT ![3] = <<3, 2, 3>>]
Leaves  == [Fits EXCEPT ![7] = <<1, 4, 2>>]
Stacked == [n \in DOMAIN Sizes |-> <<7, 7, 1>>]

MCForms == {Fits, Crosses, Leaves, Stacked}
MCBombs == {<<3, 2>>, <<2, 3>>, <<10, 1>>, <<1, 10>>, <<6, 5>>}
=============================================================================
