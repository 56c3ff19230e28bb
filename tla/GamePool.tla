------------------------------ MODULE GamePool ------------------------------
(***************************************************************************)
(* game_pool (GameServer/inc/gamepool.h, GameServer/src/gamepool.cpp): the  *)
(* vector of games, the free game ids, the count and the queue of ready     *)
(* clients; with the fields of client that it writes, status and game_id,   *)
(* and the message a consumer broadcasts once a game exists.                *)
(*                                                                          *)
(* add_ready_client runs in a writer section (PoolLock) and is one step,    *)
(* except that client::set_searching and client::set_in_game write two      *)
(* fields of a client that producers read without any lock: each write is a *)
(* step of its own.  A game and the ready queue hold weak pointers: a       *)
(* client that is removed from the client pool expires once no thread holds *)
(* it.                                                                      *)
(***************************************************************************)
EXTENDS Integers, Sequences, FiniteSets

CONSTANTS Clients,       \* client objects
          NoClient,
          Consumers,     \* the message consumer threads
          NoThread,
          MaxGames,      \* max_game_count
          PatientClients,\* those that send GAME_READY only while they are idle
          GamesEnd       \* somebody calls game_pool::remove (nobody does)

ASSUME MaxGamesAssumption == MaxGames \in Nat
ASSUME NoneAssumption == NoClient \notin Clients /\ NoThread \notin Consumers
ASSUME PatientAssumption == PatientClients \subseteq Clients
ASSUME GamesEndAssumption == GamesEnd \in BOOLEAN

VARIABLES games,        \* the pool: the players of each game
          free_games,   \* empty_queue, the free game ids, next one first
          game_count,
          ready_queue,  \* clients waiting for an opponent
          status,       \* client::status
          game_id,      \* client::game_id, 0 for none
          at,           \* what each consumer does in the pool
          deal,         \* the game each consumer is making
          section,      \* the consumer in the writer section, or NoThread
          alive,        \* the client objects not yet deleted
          crashed       \* a null client was dereferenced

gameVars == <<games, free_games, game_count, ready_queue, at, deal, section>>
vars == <<gameVars, status, game_id, alive, crashed>>

GameIds == 1..MaxGames
NoGame  == [one |-> NoClient, two |-> NoClient]
NoDeal  == [id |-> 0, one |-> NoClient, two |-> NoClient]
Statuses == {"idle", "searching", "in_game"}
Making  == {"status_one", "id_one", "status_two", "id_two", "store"}
Queueing == {"search_status", "search_id", "enqueue"}

Init ==
    /\ games = [g \in GameIds |-> NoGame]
    /\ free_games = [g \in GameIds |-> g]
    /\ game_count = 0
    /\ ready_queue = << >>
    /\ status = [c \in Clients |-> "idle"]
    /\ game_id = [c \in Clients |-> 0]
    /\ at = [t \in Consumers |-> "idle"]
    /\ deal = [t \in Consumers |-> NoDeal]
    /\ section = NoThread
    /\ alive = Clients
    /\ crashed = FALSE

\* The consumers that make a client wait, or make a game, or have made one and
\* not announced it yet.
Dealt == {t \in Consumers : at[t] # "idle"}

\* Strong pointers to c: the sender of the message for as long as it is
\* handled, the opponent until create_and_add_game returns.
Held(c) ==
    \E t \in Dealt : \/ deal[t].one = c
                     \/ deal[t].two = c /\ at[t] \in Making

-----------------------------------------------------------------------------
(* add_ready_client *)

\* A mutant: every client is made to wait.
AlwaysWaits(t, c) ==
    /\ deal' = [deal EXCEPT ![t] = [id |-> 0, one |-> c, two |-> NoClient]]
    /\ at' = [at EXCEPT ![t] = "search_status"]
    /\ section' = t
    /\ UNCHANGED <<status, game_id, free_games, game_count, ready_queue>>

\* Nobody waits: the client will.
StartsToWait(t, c) ==
    /\ ready_queue = << >>
    /\ deal' = [deal EXCEPT ![t] = [id |-> 0, one |-> c, two |-> NoClient]]
    /\ at' = [at EXCEPT ![t] = "search_status"]
    /\ section' = t
    /\ UNCHANGED <<status, game_id, free_games, game_count, ready_queue>>

\* The one that waited is gone: the client takes its place in the queue, and
\* keeps its status.  An opponent that expires a moment later, before
\* create_and_add_game locks its pointer, has the same effect.
ReplacesExpired(c) ==
    /\ ready_queue # << >>
    /\ Head(ready_queue) \notin alive
    /\ ready_queue' = Append(Tail(ready_queue), c)
    /\ UNCHANGED <<status, game_id, free_games, game_count, at, deal, section>>

\* A mutant: both clients are put back to wait for a game.
RequeuesBoth(c) ==
    /\ ready_queue # << >>
    /\ Head(ready_queue) \in alive
    /\ game_count >= MaxGames
    /\ ready_queue' = Append(ready_queue, c)
    /\ UNCHANGED <<status, game_id, free_games, game_count, at, deal, section>>

\* Every game is taken: the one that waited has left the queue for nothing.
FindsNoGame(c) ==
    /\ ready_queue # << >>
    /\ Head(ready_queue) \in alive
    /\ game_count >= MaxGames
    /\ ready_queue' = Tail(ready_queue)
    /\ UNCHANGED <<status, game_id, free_games, game_count, at, deal, section>>

\* A mutant: the one that waited stays in the queue.
StartsGamePeeking(t, c) ==
    /\ ready_queue # << >>
    /\ Head(ready_queue) \in alive
    /\ game_count < MaxGames
    /\ deal' = [deal EXCEPT ![t] = [id  |-> Head(free_games),
                                    one |-> c, two |-> Head(ready_queue)]]
    /\ free_games' = Tail(free_games)
    /\ game_count' = game_count + 1
    /\ at' = [at EXCEPT ![t] = "status_one"]
    /\ section' = t
    /\ UNCHANGED <<status, game_id, ready_queue>>

\* A mutant: the id of the game is not taken out of the list.
StartsGameKeepingId(t, c) ==
    /\ ready_queue # << >>
    /\ Head(ready_queue) \in alive
    /\ game_count < MaxGames
    /\ deal' = [deal EXCEPT ![t] = [id  |-> Head(free_games),
                                    one |-> c, two |-> Head(ready_queue)]]
    /\ ready_queue' = Tail(ready_queue)
    /\ game_count' = game_count + 1
    /\ at' = [at EXCEPT ![t] = "status_one"]
    /\ section' = t
    /\ UNCHANGED <<status, game_id, free_games>>

\* A game for the two: an id is taken and counted.
StartsGame(t, c) ==
    /\ ready_queue # << >>
    /\ Head(ready_queue) \in alive
    /\ game_count < MaxGames
    /\ deal' = [deal EXCEPT ![t] = [id  |-> Head(free_games),
                                    one |-> c, two |-> Head(ready_queue)]]
    /\ ready_queue' = Tail(ready_queue)
    /\ free_games' = Tail(free_games)
    /\ game_count' = game_count + 1
    /\ at' = [at EXCEPT ![t] = "status_one"]
    /\ section' = t
    /\ UNCHANGED <<status, game_id>>

\* A consumer handles the GAME_READY of a client it holds.
AddReadyClient(t, c) ==
    /\ at[t] = "idle"
    /\ section = NoThread
    /\ c \in alive
    /\ c \in PatientClients => /\ status[c] = "idle" /\ ~ Held(c)
                               /\ \A n \in DOMAIN ready_queue : ready_queue[n] # c
    /\ \/ StartsToWait(t, c) \/ ReplacesExpired(c)
       \/ FindsNoGame(c) \/ StartsGame(t, c)
    /\ UNCHANGED <<games, crashed>>

\* One write to a field of client c, and on to the next.
SetStatus(t, from, c, value, to) ==
    /\ at[t] = from
    /\ status' = [status EXCEPT ![c] = value]
    /\ at' = [at EXCEPT ![t] = to]
    /\ UNCHANGED <<games, free_games, game_count, ready_queue, deal, section,
                   game_id, crashed>>

SetGameId(t, from, c, value, to) ==
    /\ at[t] = from
    /\ game_id' = [game_id EXCEPT ![c] = value]
    /\ at' = [at EXCEPT ![t] = to]
    /\ UNCHANGED <<games, free_games, game_count, ready_queue, deal, section,
                   status, crashed>>

\* The two writes of set_searching.
SetSearching(t) ==
    \/ SetStatus(t, "search_status", deal[t].one, "searching", "search_id")
    \/ SetGameId(t, "search_id", deal[t].one, 0, "enqueue")

\* The client waits, and the lock goes out of scope.
Enqueue(t) ==
    /\ at[t] = "enqueue"
    /\ ready_queue' = Append(ready_queue, deal[t].one)
    /\ section' = NoThread
    /\ at' = [at EXCEPT ![t] = "idle"]
    /\ deal' = [deal EXCEPT ![t] = NoDeal]
    /\ UNCHANGED <<games, free_games, game_count, status, game_id, crashed>>

-----------------------------------------------------------------------------
(* create_and_add_game, once both clients are locked *)

\* A mutant: the second client is told no game id.
SetInGameOnce(t) ==
    \/ SetStatus(t, "status_one", deal[t].one, "in_game", "id_one")
    \/ SetGameId(t, "id_one", deal[t].one, deal[t].id, "status_two")
    \/ SetStatus(t, "status_two", deal[t].two, "in_game", "store")

\* The two writes of set_in_game, for one client and then for the other.
SetInGame(t) ==
    \/ SetStatus(t, "status_one", deal[t].one, "in_game", "id_one")
    \/ SetGameId(t, "id_one", deal[t].one, deal[t].id, "status_two")
    \/ SetStatus(t, "status_two", deal[t].two, "in_game", "id_two")
    \/ SetGameId(t, "id_two", deal[t].two, deal[t].id, "store")

\* The game is in the pool, and the lock goes out of scope.
StoreGame(t) ==
    /\ at[t] = "store"
    /\ games' = [games EXCEPT ![deal[t].id] = [one |-> deal[t].one, two |-> deal[t].two]]
    /\ section' = NoThread
    /\ at' = [at EXCEPT ![t] = "broadcast"]
    /\ UNCHANGED <<free_games, game_count, ready_queue, deal, status, game_id,
                   crashed>>

\* game::broadcast_message(GAME_CREATED) dereferences both pointers, valid or
\* not.
Broadcast(t) ==
    /\ at[t] = "broadcast"
    /\ crashed' = (crashed \/ \E c \in {deal[t].one, deal[t].two} : c \notin alive)
    /\ at' = [at EXCEPT ![t] = "idle"]
    /\ deal' = [deal EXCEPT ![t] = NoDeal]
    /\ UNCHANGED <<games, free_games, game_count, ready_queue, section, status,
                   game_id>>

-----------------------------------------------------------------------------
\* A mutant: any id is recycled, whether a game has it or not.
RemoveUnchecked(g) ==
    /\ section = NoThread
    /\ games' = [games EXCEPT ![g] = NoGame]
    /\ game_count' = game_count - 1
    /\ free_games' = Append(free_games, g)
    /\ UNCHANGED <<ready_queue, status, game_id, at, deal, section, crashed>>

\* game_pool::remove leaves the players' status and game_id as they are.
Remove(g) ==
    /\ section = NoThread
    /\ games[g] # NoGame
    /\ games' = [games EXCEPT ![g] = NoGame]
    /\ game_count' = game_count - 1
    /\ free_games' = Append(free_games, g)
    /\ UNCHANGED <<ready_queue, status, game_id, at, deal, section, crashed>>

\* The last strong pointer to a client is dropped.
Expire(c) ==
    /\ c \in alive
    /\ ~ Held(c)
    /\ alive' = alive \ {c}
    /\ UNCHANGED <<gameVars, status, game_id, crashed>>

\* The steps of a consumer that has started to make a client wait, or a game.
Deal(t) == \/ SetSearching(t) \/ Enqueue(t)
           \/ SetInGame(t) \/ StoreGame(t) \/ Broadcast(t)

\* The pool's own steps leave the deletion of clients to their owners.
Step(A) == ~ crashed /\ A /\ UNCHANGED alive

Next ==
    \/ \E t \in Consumers, c \in Clients : Step(AddReadyClient(t, c))
    \/ \E t \in Consumers : Step(Deal(t))
    \/ GamesEnd /\ \E g \in GameIds : Step(Remove(g))
    \/ ~ crashed /\ \E c \in Clients : Expire(c)

Spec == Init /\ [][Next]_vars

-----------------------------------------------------------------------------
(* Properties *)

Stored   == {g \in GameIds : games[g] # NoGame}
InMaking == {deal[t].id : t \in {u \in Consumers : at[u] \in Making}}

\* The variables hold values of their types.
TypeOK ==
    /\ games \in [GameIds -> [one : Clients \cup {NoClient}, two : Clients \cup {NoClient}]]
    /\ free_games \in Seq(GameIds)
    /\ game_count \in 0..MaxGames
    /\ ready_queue \in Seq(Clients)
    /\ status \in [Clients -> Statuses]
    /\ game_id \in [Clients -> 0..MaxGames]
    /\ at \in [Consumers -> Making \cup Queueing \cup {"idle", "broadcast"}]
    /\ deal \in [Consumers -> [id : 0..MaxGames, one : Clients \cup {NoClient},
                               two : Clients \cup {NoClient}]]
    /\ section \in Consumers \cup {NoThread}
    /\ alive \subseteq Clients
    /\ crashed \in BOOLEAN

\* A game id is free, in use, or given to the one game that is being made:
\* create_and_add_game tests the count and takes the front of the list.
GameIdsAccounted ==
    /\ game_count + Len(free_games) = MaxGames
    /\ \A m, n \in DOMAIN free_games : free_games[m] = free_games[n] => m = n
    /\ \A n \in DOMAIN free_games : free_games[n] \notin Stored \cup InMaking
    /\ Stored \cap InMaking = {}
    /\ \A g \in GameIds : g \notin Stored \cup InMaking
                           => \E n \in DOMAIN free_games : free_games[n] = g

\* At most one client waits: with two, add_ready_client would pair one and
\* leave the other for good.
OneWaits == Len(ready_queue) <= 1

\* The writer section is the consumer's that makes a client wait, for which the
\* queue is still empty, or that makes a game, for two clients and under an id
\* of the pool.
SectionIsTheMakers ==
    \A t \in Consumers :
        /\ section = t <=> at[t] \in Making \cup Queueing
        /\ at[t] \in Making => deal[t].id \in GameIds /\ {deal[t].one, deal[t].two} \subseteq Clients
        /\ at[t] \in Queueing => deal[t].one \in Clients /\ ready_queue = << >>

IInv ==
    /\ TypeOK
    /\ GameIdsAccounted
    /\ OneWaits
    /\ SectionIsTheMakers

BeingDealt(c) ==
    \E t \in Consumers : at[t] \in Making /\ c \in {deal[t].one, deal[t].two}

\* Whatever other clients ask for, and outside the moment a game is made, the
\* fields of a patient player agree with the pool: whoever is in a game has a
\* game to address, and its game_id names the one game it plays in.
PlayersKnowTheirGame ==
    \A c \in PatientClients :
        /\ status[c] = "in_game" /\ ~ BeingDealt(c) => game_id[c] # 0
        /\ \A g \in Stored : c \in {games[g].one, games[g].two}
              => status[c] = "in_game" /\ game_id[c] = g

\* A patient client that plays stays in its game: producers read its game_id
\* at any time to address the game.
StaysInGame ==
    [][\A c \in PatientClients : game_id[c] # 0 => game_id'[c] = game_id[c]]_vars

\* Seen from outside a client is matched when a number is taken for its game, with
\* the one that waited: whatever is written afterwards, step by step and under no
\* lock, is that match, and stays it.
Waiting == {ready_queue[n] : n \in DOMAIN ready_queue}
Matches == [g \in Stored \cup InMaking |->
               IF g \in Stored THEN games[g]
                               ELSE [one |-> deal[section].one, two |-> deal[section].two]]
Maker == INSTANCE Matchmaker WITH
    Ids <- GameIds, waiting <- Waiting, matches <- Matches, present <- alive
ImplementsMatchmaker == Maker!Spec

\* A client that asks gets a game, or else waits for one: "try to create a game
\* with an existing ready client, otherwise add client to the game pool ready
\* queue" (src/msgconsumer.cpp:62-63).
AskingIsAnswered ==
    [][\A t \in Consumers, c \in Clients :
          AddReadyClient(t, c) => at'[t] # "idle" \/ c \in Waiting']_vars

\* "Broadcasts a game message to both clients." (inc/game.h:213)
BroadcastReachesBoth == ~ crashed
=============================================================================
