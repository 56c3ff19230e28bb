---------------------------- MODULE MCClientPool ----------------------------
(* Four clients for three ids, so that the pool fills and ids are recycled. *)
EXTENDS ClientPool

CONSTANTS c1, c2, c3, c4

MCClients == {c1, c2, c3, c4}
MCNothing == {}
=============================================================================
