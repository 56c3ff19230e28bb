--------------------------- MODULE ClientRegistry ---------------------------
(***************************************************************************)
(* What client_pool promises to the server: a client that is let in gets an *)
(* id nobody else has, keeps it until it is removed, and one that is        *)
(* removed gives it back.  Which free id is handed out is left open.        *)
(***************************************************************************)
CONSTANTS Clients,   \* the clients that may ever be connected
          Ids        \* the ids there are to give

VARIABLE members     \* the client each id in use belongs to

Init == members = [i \in {} |-> {}]

Register(c) ==
    \E i \in Ids \ DOMAIN members :
        members' = [j \in DOMAIN members \cup {i} |->
                        IF j = i THEN c ELSE members[j]]

Unregister(i) ==
    /\ i \in DOMAIN members
    /\ members' = [j \in DOMAIN members \ {i} |-> members[j]]

Next == \/ \E c \in Clients : Register(c)
        \/ \E i \in Ids : Unregister(i)

Spec == Init /\ [][Next]_members
=============================================================================
