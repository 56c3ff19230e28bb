------------------------------- MODULE MCGame -------------------------------
(* Two consumers and three messages of the two players, on a board of one
   square.  Boards and shots come with and without a byte to spare at the end,
   so that the byte the encoding overwrites matters at times: a shot without
   one arrives as 0, off the board. *)
EXTENDS Game, TLC

CONSTANTS k1, k2

MCConsumers == {k1, k2}
MCSymmetry == Permutations(MCConsumers)
MCClientId == [p \in Players |-> p + 1]
MCBoards == {<<0, WATER>>, <<0, WATER, 0>>}
MCShots == {<<1>>, <<1, 0>>}
MCGarbage == {0, WATER}
=============================================================================
