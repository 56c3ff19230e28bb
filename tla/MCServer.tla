------------------------------ MODULE MCServer ------------------------------
(* The server on small instances.
   Server_safety: two places, for which three clients come, so that the pool is full
     at times and ids are given again; peers leave in every way, also in the name of
     another client.
   Server_threads: four places, two producers and two consumers, and a peer that says
     anything twice.
   Server_play: two places and two peers that say twice that they are ready.
   Where liveness is checked the clients and threads are told apart.
   Server_timeouts, Server_window: small instances of what the code's comments say
     and the code does not do. *)
EXTENDS Server, TLC

CONSTANTS c1, c2, c3, p1, p2, k1, k2

MCOne == {c1}
MCTwo == {c1, c2}
MCThree == {c1, c2, c3}
MCOneProducer == {p1}
MCOneConsumer == {k1}
MCTwoProducers == {p1, p2}
MCTwoConsumers == {k1, k2}
MCOthersId == {1}  \* a client's, when there are several
MCFreeId == {2}    \* nobody's, when there is one client
MCNoId == {}
MCExit == {"exit"}
MCReady == {"ready"}
MCLeaving == {"exit", "error", "error_closed"}
MCSymmetry == Permutations(Clients) \cup Permutations(Producers) \cup Permutations(Consumers)
=============================================================================
