----------------------------- MODULE MCLocalGame -----------------------------
(* A board of three by three: the user places a ship of two squares and one of
   one, the bot twice one ship of one or two squares.  Ships may be asked for in
   every direction, across each other, over the edge and off the board.  The
   bombs can sink a fleet of either player, and miss. *)
EXTENDS LocalGame

MCFleet == <<2, 1>>
MCSizes == {1, 2}
MCPlaces == {<<1, 1, 1>>, <<2, 2, 2>>, <<3, 1, 3>>, <<1, 2, 4>>, <<3, 1, 4>>, <<0, 2, 4>>}
MCBombs == {<<1, 1>>, <<1, 2>>, <<2, 1>>, <<3, 1>>, <<3, 0>>}
=============================================================================
