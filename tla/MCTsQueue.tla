------------------------------ MODULE MCTsQueue ------------------------------
(* Three consumers and four items: more items than sleepers, and a consumer
   that takes an item another was woken for. *)
EXTENDS TsQueue

CONSTANTS k1, k2, k3

MCConsumers == {k1, k2, k3}
=============================================================================
