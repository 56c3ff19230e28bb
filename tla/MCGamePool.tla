----------------------------- MODULE MCGamePool -----------------------------
(* Three clients and two consumers, two games at once.  One of the clients is
   not patient: it may ask again while it waits or plays, so that somebody
   also asks when every game is taken.  Where games do not end and nobody
   asks twice, four clients fill both games.  A server for three clients has
   one consumer and one game. *)
EXTENDS GamePool, TLC

CONSTANTS c1, c2, c3, c4, k1, k2

MCThree == {c1, c2, c3}
MCFour == {c1, c2, c3, c4}
MCPatient == {c1, c2}
MCConsumers == {k1, k2}
MCOne == {k1}
MCNobody == {}
MCSymmetry == Permutations(MCFour) \cup Permutations(MCConsumers)
=============================================================================
