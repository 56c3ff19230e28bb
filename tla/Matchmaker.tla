------------------------------ MODULE Matchmaker ------------------------------
(***************************************************************************)
(* What game_pool promises to the clients that ask for a game: at most one  *)
(* waits; the next one to ask plays against it, in a game of their own      *)
(* under a number no other game has, which they keep until the game is      *)
(* removed.  Nobody is matched with a client that is gone, but one that     *)
(* asks again while it waits is matched with itself.  If every number is    *)
(* taken, both are sent away: the one that waited as well.                  *)
(*                                                                          *)
(* Which clients are there is not for the matchmaker to say: present may    *)
(* change in any way, with each step and between them.                      *)
(***************************************************************************)
CONSTANTS Clients,   \* the clients that may ever ask
          Ids        \* the numbers there are for games

VARIABLES waiting,   \* the client that waits for an opponent, if one does
          matches,   \* the players of each game, by its number
          present    \* the clients that are there

matchVars == <<waiting, matches, present>>

Match(c, d) == [one |-> c, two |-> d]

Init ==
    /\ waiting = {}
    /\ matches = [g \in {} |-> {}]
    /\ present \subseteq Clients

\* Nobody is there to play against: the client waits.
Wait(c) ==
    /\ waiting \cap present = {}
    /\ waiting' = {c}
    /\ UNCHANGED matches

\* The client and the one that waited play.
Begin(c) ==
    \E d \in waiting \cap present, g \in Ids \ DOMAIN matches :
        /\ waiting' = waiting \ {d}
        /\ matches' = [h \in DOMAIN matches \cup {g} |->
                          IF h = g THEN Match(c, d) ELSE matches[h]]

SendAway ==
    /\ waiting \cap present # {}
    /\ Ids \subseteq DOMAIN matches
    /\ waiting' = {}
    /\ UNCHANGED matches

End(g) ==
    /\ g \in DOMAIN matches
    /\ matches' = [h \in DOMAIN matches \ {g} |-> matches[h]]
    /\ UNCHANGED waiting

Next ==
    /\ present' \subseteq Clients
    /\ \/ \E c \in Clients : Wait(c) \/ Begin(c)
       \/ SendAway
       \/ \E g \in Ids : End(g)
       \/ UNCHANGED <<waiting, matches>>

Spec == Init /\ [][Next]_matchVars
=============================================================================
