--------------------------------- MODULE Game ---------------------------------
(***************************************************************************)
(* One game between two clients (GameServer/inc/game.h), played through the *)
(* messages of GameServer/shared/inc/message.h.  The consumer that made the *)
(* game announces it to both players without the game's mutex; afterwards   *)
(* any consumer may handle any player's message, one at a time under        *)
(* game_mutex, and each message it sends is a step other threads can see.   *)
(*                                                                          *)
(* A message is a signal and a payload of bytes.  Encoded and Parsed are    *)
(* what the constructors of game_message do to a payload: they keep a       *)
(* terminator in it on the way out and add one on the way in.               *)
(* Players address the game with its id once they have been told of it, in  *)
(* whatever order they like: the server does not keep turns.                *)
(***************************************************************************)
EXTENDS Integers, Sequences, FiniteSets

CONSTANTS Consumers,     \* the message consumer threads
          NoThread,
          ClientId,      \* map_c_to_p: the client id of players 0 and 1
          BoardSize,     \* squares run from 1 to BoardSize - 1
          BoardPayloads, \* what players send as a board
          ShotPayloads,  \* what players send as coordinates
          Uninitialized, \* what the squares hold in a new game
          MaxSends       \* bound of the model: messages of both players

Players == {0, 1}
Squares == 1..BoardSize - 1
WATER == 1
SHIP  == 2
OutOfBounds == 255
Terminator == 0

Bytes == 0..255

ASSUME ConsumersAssumption == IsFiniteSet(Consumers) /\ NoThread \notin Consumers
ASSUME BoardSizeAssumption == BoardSize \in Nat \ {0}
ASSUME IdsAssumption ==
    /\ ClientId \in [Players -> 1..254]
    /\ ClientId[0] # ClientId[1]
ASSUME PayloadAssumption ==
    /\ \A b \in BoardPayloads : b \in Seq(Bytes) /\ Len(b) >= BoardSize
    /\ \A s \in ShotPayloads : s \in Seq(Bytes) /\ Len(s) >= 1
ASSUME UninitializedAssumption == Uninitialized \subseteq Bytes

VARIABLES queue,    \* msg_queue: the messages of the two players
          inbox,    \* what each player was sent
          sent,     \* what each player sent
          boards,   \* player_boards
          mutex,    \* the owner of game_mutex
          pc, job,  \* what each consumer does, and for which message
          alive     \* the players whose client object exists

vars == <<queue, inbox, sent, boards, mutex, pc, job, alive>>

NoJob == [from |-> 0, sig |-> "none", payload |-> << >>]

-----------------------------------------------------------------------------
(* Payloads *)

\* create_message: one byte less than the payload is copied, and the
\* terminator stands for the last.
Encoded(payload) == [payload EXCEPT ![Len(payload)] = Terminator]

\* parse_message: the bytes that came, and a terminator behind them.
Parsed(bytes) == Append(bytes, Terminator)

Message(sig, payload) ==
    [sig |-> sig, payload |-> IF payload = << >> THEN << >> ELSE Encoded(payload)]

\* Payload byte i, from 0.
Byte(payload, i) == payload[i + 1]

-----------------------------------------------------------------------------
(* The players and their boards *)

c_to_p(c_id) == CHOOSE p \in Players : ClientId[p] = c_id

\* A player number or, as handle_message has it, a client id.
p_to_c(p_id) == IF p_id = 0 THEN 0 ELSE 1

get_square(p, index) ==
    IF index \in Squares THEN boards[p][index] ELSE OutOfBounds

\* What a payload says of every square but 0, which set_square refuses.
Row(payload) == [i \in Squares |-> Byte(payload, i)]

\* A mutant: the opponent's board is filled.
fill_opponents_board(p, payload) ==
    boards' = [boards EXCEPT ![1 - p] = Row(payload)]

\* A mutant: square 0 is not refused.
fill_whole_board(p, payload) ==
    boards' = [boards EXCEPT ![p] = [i \in 0..BoardSize - 1 |-> Byte(payload, i)]]

fill_player_board(p, payload) == boards' = [boards EXCEPT ![p] = Row(payload)]

\* A client that is gone is not sent anything.
Deliver(p, sig, payload) ==
    inbox' = IF p \in alive THEN [inbox EXCEPT ![p] = Append(@, Message(sig, payload))]
                            ELSE inbox

-----------------------------------------------------------------------------
(* The game is made by a consumer that has yet to announce it. *)
Init ==
    /\ queue = << >>
    /\ inbox = [p \in Players |-> << >>]
    /\ sent = [p \in Players |-> << >>]
    /\ boards \in [Players -> [Squares -> Uninitialized]]
    /\ mutex = NoThread
    /\ \E maker \in Consumers :
          pc = [k \in Consumers |-> IF k = maker THEN "announce_one" ELSE "idle"]
    /\ job = [k \in Consumers |-> NoJob]
    /\ alive = Players

Goto(k, at) == pc' = [pc EXCEPT ![k] = at]
At(k, at) == pc[k] = at

\* broadcast_message holds both clients and sends to one and then the other.
Announce(k) ==
    /\ \/ At(k, "announce_one") /\ Deliver(0, "created", << >>) /\ Goto(k, "announce_two")
       \/ At(k, "announce_two") /\ Deliver(1, "created", << >>) /\ Goto(k, "idle")
    /\ UNCHANGED <<queue, sent, boards, mutex, job, alive>>

\* A player that knows of the game sends its board or a shot.
PlayerSend(p, sig, payload) ==
    /\ p \in alive
    /\ \E n \in DOMAIN inbox[p] : inbox[p][n].sig = "created"
    /\ Len(sent[0]) + Len(sent[1]) < MaxSends
    /\ sent' = [sent EXCEPT ![p] = Append(@, Message(sig, payload))]
    /\ queue' = Append(queue, [from |-> ClientId[p], sig |-> sig,
                               payload |-> Parsed(Encoded(payload))])
    /\ UNCHANGED <<inbox, boards, mutex, pc, job, alive>>

\* The next message, and the look for its sender: nothing is done for one that
\* is gone, unless its id was given to another client.
TakeMessage(k) ==
    /\ At(k, "idle")
    /\ queue # << >>
    /\ queue' = Tail(queue)
    /\ \/ job' = [job EXCEPT ![k] = Head(queue)] /\ Goto(k, "lock")
       \/ c_to_p(Head(queue).from) \notin alive /\ UNCHANGED <<job, pc>>
    /\ UNCHANGED <<inbox, sent, boards, mutex, alive>>

\* A mutant: messages are handled without the mutex.
LockNothing(k) ==
    /\ At(k, "lock")
    /\ Goto(k, job[k].sig)
    /\ UNCHANGED <<queue, inbox, sent, boards, mutex, job, alive>>

Lock(k) ==
    /\ At(k, "lock")
    /\ mutex = NoThread
    /\ mutex' = k
    /\ Goto(k, job[k].sig)
    /\ UNCHANGED <<queue, inbox, sent, boards, job, alive>>

Unlock(k) ==
    /\ mutex' = NoThread
    /\ Goto(k, "idle")
    /\ job' = [job EXCEPT ![k] = NoJob]

Sender(k) == c_to_p(job[k].from)
Opponent(k) == 1 - Sender(k)

\* GAME_CREATED: the board of the player, who is then told its number.
TakeBoard(k) ==
    /\ At(k, "board")
    /\ fill_player_board(Sender(k), job[k].payload)
    /\ Goto(k, "number")
    /\ UNCHANGED <<queue, inbox, sent, mutex, job, alive>>

TellNumber(k) ==
    /\ At(k, "number")
    /\ IF Sender(k) = 0 THEN Deliver(p_to_c(0), "player_one", << >>)
                        ELSE Deliver(p_to_c(1), "player_two", << >>)
    /\ Unlock(k)
    /\ UNCHANGED <<queue, sent, boards, alive>>

\* GAME_COORDINATES: the verdict, from the shooter's own board.
Verdict(k) ==
    IF get_square(Sender(k), Byte(job[k].payload, 0)) = WATER THEN "miss" ELSE "hit"

\* It goes to "player" msg->from(), which is a client id,
TellShooter(k) ==
    /\ At(k, "shot")
    /\ Deliver(p_to_c(job[k].from), Verdict(k), << >>)
    /\ Goto(k, "tell")
    /\ UNCHANGED <<queue, sent, boards, mutex, job, alive>>

\* then to the opponent,
TellOpponent(k) ==
    /\ At(k, "tell")
    /\ Deliver(p_to_c(Opponent(k)), Verdict(k), << >>)
    /\ Goto(k, "relay")
    /\ UNCHANGED <<queue, sent, boards, mutex, job, alive>>

\* A mutant: the coordinates alone, without what parse_message put after them.
RelayByte(k) ==
    /\ At(k, "relay")
    /\ Deliver(p_to_c(Opponent(k)), "shot", SubSeq(job[k].payload, 1, 1))
    /\ Unlock(k)
    /\ UNCHANGED <<queue, sent, boards, alive>>

\* who also gets the coordinates, as they came.
Relay(k) ==
    /\ At(k, "relay")
    /\ Deliver(p_to_c(Opponent(k)), "shot", job[k].payload)
    /\ Unlock(k)
    /\ UNCHANGED <<queue, sent, boards, alive>>

\* A player is removed from the client pool, when no consumer holds it.
Expire(p) ==
    /\ p \in alive
    /\ \A k \in Consumers :
          /\ pc[k] \notin {"announce_one", "announce_two"}
          /\ pc[k] # "idle" => Sender(k) # p
    /\ alive' = alive \ {p}
    /\ UNCHANGED <<queue, inbox, sent, boards, mutex, pc, job>>

Handle(k) == \/ TakeBoard(k) \/ TellNumber(k)
             \/ TellShooter(k) \/ TellOpponent(k) \/ Relay(k)

Next ==
    \/ \E k \in Consumers : Announce(k) \/ TakeMessage(k) \/ Lock(k) \/ Handle(k)
    \/ \E p \in Players :
          \/ \E b \in BoardPayloads : PlayerSend(p, "board", b)
          \/ \E s \in ShotPayloads : PlayerSend(p, "shot", s)
          \/ Expire(p)

Spec == Init /\ [][Next]_vars

-----------------------------------------------------------------------------
(* Properties *)

\* The variables hold values of their types.
TypeOK ==
    /\ mutex \in Consumers \cup {NoThread}
    /\ pc \in [Consumers -> {"idle", "announce_one", "announce_two", "lock", "board",
                             "number", "shot", "tell", "relay"}]
    /\ boards \in [Players -> [Squares -> Bytes]]
    /\ alive \subseteq Players

\* The places of s that hold a message with one of the signals, and those with a
\* shot at square i.
Signed(s, sigs) == {n \in DOMAIN s : s[n].sig \in sigs}
ShotsAt(s, i) == {n \in Signed(s, {"shot"}) : Byte(s[n].payload, 0) = i}

\* Everything sent was handled, and both players are still there.
Quiet ==
    /\ queue = << >>
    /\ \A k \in Consumers : pc[k] = "idle"
    /\ alive = Players

\* Message n of an inbox has a verdict before it: only the announcement of the
\* game may come in between.
Reported(s, n) ==
    \E m \in 1..n - 1 :
        /\ s[m].sig \in {"hit", "miss"}
        /\ \A i \in m + 1..n - 1 : s[i].sig = "created"

\* A player reads the result of a shot and then its coordinates, whoever else
\* is sending to it.
ReportsWhole ==
    \A p \in Players : \A n \in Signed(inbox[p], {"shot"}) : Reported(inbox[p], n)

\* Each shot reaches the opponent once, with the coordinates the shooter sent.
ShotsAreRelayed ==
    Quiet => \A p \in Players, i \in Bytes :
        Cardinality(ShotsAt(sent[p], i)) = Cardinality(ShotsAt(inbox[1 - p], i))

\* A board ends up in its owner's row, one of those it sent, and the owner is
\* told its own number, once for each board.
BoardsAreTaken ==
    Quiet => \A p \in Players :
        LET mine    == Signed(sent[p], {"board"})
            numbers == Signed(inbox[p], {"player_one", "player_two"})
        IN  /\ Cardinality(numbers) = Cardinality(mine)
            /\ \A n \in numbers :
                  inbox[p][n].sig = IF p = 0 THEN "player_one" ELSE "player_two"
            /\ mine # {} => \E n \in mine : boards[p] = Row(sent[p][n].payload)

\* "When the server informs client that the clients turn was a hit"
\* (BattleShipGame/include/Grid.h:204): each player is told how its own shots
\* went, beside the results of its opponent's.
ShooterIsTold ==
    Quiet => \A p \in Players :
        Cardinality(Signed(inbox[p], {"hit", "miss"}))
            >= Cardinality(Signed(sent[0], {"shot"})) + Cardinality(Signed(sent[1], {"shot"}))
=============================================================================
