# A verification of Battleship

This directory holds TLA+ models of the Battleship project in `src/`, the
configurations that check them with TLC, and theorems about them that TLAPS
checks. The core of the project is the multi-threaded game server in
`src/GameServer`; beside it there are a game on a console against the computer
and a Qt program with the same game in windows. All three are modelled. Paths
below are relative to `src/GameServer` unless they start with `src/`.

## 1. The system

| part | state | operations | who calls it |
|---|---|---|---|
| main thread, `src/server.cpp` | the connection in its handshake | `run` (accept, test the pool's size), `perform_handshake_procedure` | the process |
| `client_pool`, `inc/clientpool.h`, `src/clientpool.cpp` | `pool`, `empty_queue`, `client_count`, `cl_cache` | `create_and_add_client`, `remove`, `get`, `get_client_listings` | main thread, consumers |
| `game_pool`, `inc/gamepool.h`, `src/gamepool.cpp` | `pool`, `empty_queue`, `game_count`, `ready_queue` | `add_ready_client` (with `create_and_add_game`), `remove`, `get` | consumers |
| pool lock, the same text in both pools | `writer_mutex`, `reader_count`, `writer_condv` | `enter_reader_section`, `exit_reader_section`, the writer's lock and wait | every pool method |
| `client`, `inc/client.h` | `status`, `game_id`, `tout_count`, the stream and `stream_mux` | `receive`, `send`, `set_searching`, `set_in_game`, `timed_out` | producers, consumers, game pool |
| producers, `src/msgproducer.cpp` | the client in hand | `run`, `handle_receive_error` | a thread for every two places |
| consumers, `src/msgconsumer.cpp` | the message in hand | `run`, `handle_server_msg`, `handle_game_msg` | a thread for every two places |
| `ts_queue`, `inc/tsqueue.h` | `queue`, `queue_mutex`, `condv` | `add`, `remove` | main thread, producers, consumers, game pool |
| `game`, `inc/game.h` | two boards, two weak pointers, `map_c_to_p`, `game_mutex` | `broadcast_message`, `handle_message` | consumers |
| message codec, `shared/inc/message.h` | - | `create_message`, `parse_message`, `payload` | everybody |
| tcp streams, `shared/src/tcp*.cpp` | a socket | `receive` with and without a timeout, `send` | client |
| `Thread`, `src/thread.cpp` | `running`, `detached` | `start`, `join`, `detach` | server |
| boards, `Grid.h`, `Ship.h`, `Player.h` in `src/BattleShipGame/include` and beside the GUIs | an array of rows, the records of ships | `addShip`, `checkIfValid`, `dropBomb`, `didLose` | console game, GUI |
| console game, `GameMech.h`, `User.h`, `BotAi.h` in `src/BattleShipGame/include` | two players, the loop of turns | `getUserInput`, `getShipsFromUserConsole`, `generateAiShips`, `startPvBot` | its own `main` |
| GUI, `src/BattleshipGui` | the window, the form of ships, two boards of buttons | `on_submit_released`, one handler for each of a hundred squares | Qt |

How they interact. The main thread accepts a connection, exchanges three
messages with it and puts the new client into `c_queue`. A producer takes a
client from there, reads from it for up to a second, turns what it got into a
message in `msg_queue` and puts the client back. A consumer takes a message,
looks its sender up in the client pool by the id in the message and handles it:
it removes the client, echoes the message, lets the client wait for an opponent
or start a game, or hands the message to the client's game, which sends to both
players. Clients are shared pointers in the client pool; the queues, the game
pool and the games have weak ones.

The console game and the GUI stand alone: nothing in `src/` connects them to the
server. `GameMech` places the fleets and alternates bombs in one loop. In the GUI
`MainWindow` opens `SelectShipsWindow`, which fills the user's board from a form
and lends it to `PvbWindow`, whose hundred handlers let the bot bomb it.

What is hard here:

* *concurrency*: three kinds of threads, two hand-written readers-writers
  locks, four condition variables, fields of `client` read without any lock;
* *lifetime*: a client may be removed between any two steps of a thread that
  knows it by a weak pointer or by its id, and ids are used again;
* *failure and time*: a peer may close, vanish or say nothing at every point,
  and the code sees a closed stream, an error or a timeout;
* *order*: two consumers may handle two messages of one client in either order,
  and messages are not framed on the stream;
* *coordinates*: squares are named by column and row from 1, stored by row and
  column from 0, and converted anew in every method and in every `if` of the
  GUI's handlers; a ship's squares are computed once to check and once to draw.

What makes each part correct: the lock excludes writers from readers and
strands nobody; the pools hand an id to one owner at a time and their counts,
lists and caches agree; the queue loses and repeats nothing and wakes somebody
for every item; a client is read from by one producer at a time, is never
forgotten while it is in the pool, and leaves it when its connection is gone; a
game starts with two clients that know of it; every shot reaches the opponent,
and its result the shooter. On a board, ships lie whole and apart, a bomb strikes
the square that was named, a player has lost when the fleet is sunk, and the
window shows the board it stands for.

## 2. Modules

| module | models | implements |
|---|---|---|
| `PoolLock` | the readers-writers protocol at the grain of single atomic steps | `RWLock`, an abstract readers-writers lock |
| `ClientPool` | `client_pool`, one action for a method | `ClientRegistry`: a member has an id of its own until it leaves |
| `TsQueue` | `ts_queue` with its condition variable and spurious wakeups | `AtomicQueue`: a queue whose operations are single steps |
| `GamePool` | `game_pool`, with the fields of `client` it writes | `Matchmaker`: one client waits at most, and the next to ask plays against it in a game of their own |
| `Game` | one `game` and the payloads of its messages | - |
| `Server` | main thread, producers, consumers and peers around the pools | `Matchmaker`, through the `GamePool` it instantiates beside `ClientPool` |
| `Board` | `Grid` and the placement check, as operators | - |
| `LocalGame` | the console game, on boards of `Board` | - |
| `Gui` | the windows up to and in a game against the bot, on boards of `Board` | - |
| `PvbWindow` | the hundred handlers of the enemy's buttons, on top of `Gui` | - |

`MC*` modules give constants their values for TLC; `*_proofs` modules hold the
theorems. Operators whose comment starts with "A mutant" belong to no
specification. Each is the code with one plausible mistake in it; put in the
place of the operator it is named after, it makes a property fail, which shows
that the property is about the code.

The layers fit together as follows. `PoolLock` shows that a method of a pool has
the pool to itself, so `ClientPool` and `GamePool` make a method one step. The
exception are `client::set_in_game` and `set_searching`, whose two stores are read
by producers that hold no lock: `GamePool` makes each store a step. `TsQueue`
implements `AtomicQueue`, whose state is a sequence, so `Server` has its two
queues as sequences. `GamePool` implements `Matchmaker` by itself, and `Server`
does with the clients that some thread or the pool still holds for those that are
there. `GamePool` and `Game` have several consumers; `Server` has as many as the
code creates, which is one for two places. `LocalGame` and `Gui` are
single-threaded and share only `Board`.

### PoolLock

`pc[t]` follows a thread through one critical section. Reader: `reading` between
its two counts, then `leaving` (decremented, about to test) and `notifying`.
Writer: `testing` (owns the mutex), `blocking` (the predicate was false, not yet
asleep), `waiting`, `writing`. A writer that finds no reader goes from `testing`
to `writing`. `SpuriousWakeup` is the freedom the standard gives
`condition_variable::wait`; the wait with a predicate goes back to testing.
The wait's release of the mutex and its going to sleep are one step, as the
standard requires. `reader_count` has no initializer in either constructor:
`InitialReaderCounts` is what it may start with; the run and the theorems say what
the lock does if that is 0.

### ClientPool

The methods' early returns are guards, so a refused call is no step. An id is
the slot's index from 1. The bounds checks accept `max_client_count + 1`; that
slot is part of the model and `PastTheEnd` is what may be read from it. The
storage of all slots is reserved and never constructed: that the slots below the
last read as empty at the start, because fresh memory is zero, is an assumption of
`Init`. A cached listing is the client and the status it shows.

### TsQueue

Items are numbered in the order they are added. `Remove` is the call: it takes the
first item (`Take`), which may be the one another consumer was woken for, or
blocks (`Sleep`). `RemoveWoken` is the test after a wakeup: it takes or sleeps again.
Seen as an `AtomicQueue`, only what is in the list and what each consumer works
on remains; sleeping and waking are steps in which nothing happens.

### GamePool

`AddReadyClient` has the four outcomes of `add_ready_client`: the client waits,
takes the place of one that has expired, is sent away because every game is
taken (and the one that waited has lost its place), or starts a game. The last
leads through `SetInGame`'s four stores to `StoreGame`, all inside the writer
section, and then to `Broadcast` outside it; the first leads through
`SetSearching`'s two stores to `Enqueue`. `remove` on the queue of those that wait
would block if it were empty: the test before it is in the same writer section,
so the two are one step. `Expire` deletes a client that no
consumer holds. Patient clients ask only while they are idle; others ask at any
time. `GamesEnd` says whether somebody calls `game_pool::remove`: in this
repository nobody does.

The match is made when a game's id is taken: `Matches` is what the pool stores and
the game being made, and the four stores and `StoreGame` change nothing in it.
`Matchmaker` leaves the clients that are present to its environment. It does not
promise more than the code keeps: a client that asks twice is matched with itself,
and if every game is taken the one that waited is sent away too.

### Game

A game that has been made and not announced. `Announce` sends to one player
after the other without `game_mutex`; `TakeMessage` and `Lock` are a consumer on
its way into `handle_message`; each send inside is a step. A payload is a sequence of
bytes. `Encoded` and `Parsed` say what creating and parsing a message do to it:
the last byte becomes the terminator, and a terminator is added. Coordinates
arrive as sent because the two cancel when a message is passed on; a single byte
encoded with this library arrives as 0, which is off the board. `Row` is what a
payload says of the squares, of which `set_square` refuses square 0. Boards start
with what the memory held (`Uninitialized`).

### Server

A client value stands for a connection and the object that serves it. `Alive` is
not a variable: it is computed from who holds a strong pointer, which is what
decides whether `lock()` returns one.

What a peer sends is a letter: a kind, which stands for the type and the signal,
and the id it wrote as its own. `PeerKinds` has every case the code tells apart:
SERVER and GAME messages, an ERROR with either of the signals that the server uses
itself or with another, and a type that is none of these. The id is the peer's own
or one of `FromBytes` (`Writes`); nothing in the code compares the two, except in the
confirmation of the handshake (`Confirms`, `Mistakes`). GAME signals other than
GAME_READY are for the module `Game`, and do nothing here. `Read` takes the first
letter and perhaps those that came with it, which are lost. `Failed` is a read
error: the code takes its -1 for a timeout.

`Poll` is a producer's second of waiting. `Heard` is what `client::receive` may
return: the letter, or an ERROR it makes itself with the client's id. `Receive`
passes a message on as the peer wrote it; `ReceiveClosed`, `ReceiveTimeout` and
`ReceiveError` are the three branches of `handle_receive_error`, whoever made the
ERROR; `ReceiveUnknown` is the switch without a case for the type. A producer keeps
its pointer until `Drop`, after it has put the client back. `StreamFree` is the
mutex that `client::receive` holds while it waits.

Two history variables say what became of clients that are not read from any more.
`left_to_game` has those whose silence or end was told to their game, which does
nothing about it. It is not the same as playing: a player may ask for another
game afterwards, be searching, and is still not read from. `spoke_error` has those
that sent an ERROR of their own: with an unknown signal nobody is told, with
CONNECTION_CLOSED and another's id the other one is removed.

The slot past the last one is assumed to be empty here (`PastTheEnd`), and a
game's end is left to `GamePool`: nothing in the server calls it.

### Board

A board is one value: `Player::getGrid` copies the `Grid`, but the copy shares the
array of rows. `PartOf` and `PartIsValid` are the two separate computations of a
ship's squares, in `addShip` and in `checkIfValid`, for four directions. `hit` has
its arguments in the order of the code, column first. `EmptyGrid` is what the
constructor and `resetGrid` leave.

### LocalGame

`pc` follows `main`: the bot's constructor places a fleet, the user chooses the
game, the fleets are placed (`generateAiShips`, `getShipsFromUserConsole`, one
ship a step) and `Turn` is an iteration of `startPvBot`'s loop: both bombs fall,
and the loop's condition is tested before the next. `generateAiShips` runs twice,
because the code calls it in `BotAi`'s constructor and again in `startPvBot`; the
second fleet is drawn on the board of the first and takes over its records.
`bombed` is a history variable. What the user types and what `rand` draws come
from `Places` and `Bombs`, which hold squares off the board too; what the code
refuses it asks for again, which is no step.

### Gui and PvbWindow

A handler runs to its end before Qt delivers the next event and is a step; the
loop of `on_submit_released` is a step for each of the seven ships (`AddNext`), as
it draws the ships that fit even after one that did not, and clears the board
only at the next submission. Two things in this part are undefined in C++ and are
choices here: the game that was chosen is stored through an `int*` that was never
set and read through it later, so either game may open, or the program end
(`crashed`); and `setBot` returns nothing although it is declared to, which may end
it too.

`Released` is what the hundred handlers have in common: a bomb on square (1,1) of a
bot made on the spot, whose fleet may or may not be there, then the bomb of the
window's own bot, then the hundred `if`s that colour the user's buttons (`Show`).
`PvbWindow` has a definition for each handler with the button it paints, which
is another than the pressed one in sixty of them; no property is about it, as no
text says which one it should be. That one `Show` stands for all handlers was
checked on the text of `pvbwindow.cpp`: but for the name of the enemy button the
hundred handlers are the same, and each of their hundred `if`s is `Show` for its row
and column. `Idle` is a user who presses nothing.

## 3. What the runs check

| run | size | what it shows |
|---|---|---|
| `lock` | 3 threads, 472 states | readers and writers exclude each other, the protocol implements `RWLock`, and the mutex is always given back |
| `lock_stranded` | 3 threads | **violated**: a writer can sleep for good |
| `clients` | 4 clients, 3 ids, 7290 states | list, count, cache and pool agree after any calls; the pool implements `ClientRegistry` |
| `queue` | 3 consumers, 4 items, 968 states | items leave in order and once; no lost wakeup; the queue implements `AtomicQueue`; every item is taken |
| `games` | 3 clients, 2 consumers, 2 games, 135 776 states | ids are never shared, one client waits at most, patient players and their games agree and stay so, the pool implements `Matchmaker` |
| `games_broadcast` | 4 clients, 2 consumers | **violated**: the announcement dereferences a player that has expired |
| `server_safety` | 3 clients that leave by CLIENT_EXIT, an ERROR or silently, 2 places, 1.16 million states | the handshake never finds the pool full, a message that names its sender goes to its sender's account while the sender is in the pool, nobody in the pool is forgotten but who sent an ERROR itself |
| `server_threads` | 1 client that sends any two messages, 2 producers, 2 consumers, 149 109 states | a client is read from by one producer at a time and queued once; the pool's books hold with two removals of one client; nobody is forgotten when a read swallows a message; a client that closes leaves the pool; a peer that leaves during its handshake does not stop the server |
| `server_play` | 2 clients that ask twice, 315 211 states | clients are matched as `Matchmaker` says; nobody is forgotten but players whose game was told, and any other client that closes leaves the pool |
| `game` | 2 consumers, 3 messages, 789 342 states | a player reads a result with its coordinates behind it, shots are relayed once and unchanged, boards end up in their owners' rows |
| `console` | board of 3 by 3, 130 057 states | fleets are whole and apart, bombs hit what they name, the user loses exactly when the fleet is sunk |
| `gui` | the real board, 4 forms, 2 bombs, 9 278 states | a form that is refused leaves nothing behind in the game; the own board shows every square in its colour, whichever buttons are pressed |

`LockInvariant` of the run `lock` contains `Exclusion`, and `QueueInvariant` of
`queue` contains `Fifo`, `WorksOnItems` and `WokenEnough`: the runs check the
conjunction only. The inductive invariants of the other components (`IInv`) are
checked by no run, as the runs check the parts that say something; theorems state
each part.

`NobodyForgotten` is in all of the server's runs because each has another way of
losing a client: a full server with ids that are given again, several threads and
messages of every kind, players.

Five configurations are kept beside the runs. Each asks for what a comment or the
shape of the code promises, and TLC answers with a counterexample; section 5 says
what it means.

| configuration | module | property | TLC shows |
|---|---|---|---|
| `ClientPool_listing.cfg` | `MCClientPool` | `ListingsShowStatus` | listings do not follow the clients' status |
| `GamePool_full.cfg` | `MCGamePool` | `AskingIsAnswered` | who asks when every game is taken neither plays nor waits |
| `Game_shooter.cfg` | `MCGame` | `ShooterIsTold` | player one never hears how its shots went |
| `Server_timeouts.cfg` | `MCServer` | `ReportedPastTheLimit` | a silent client is reported at the limit of timeouts, not past it |
| `Server_window.cfg` | `MCServer` | `GameIsTold` | a player whose connection closes while it is put into its game is reported to game 0 |

### Bounds, and why they are enough

* Three threads in `PoolLock`: two writers asleep behind one reader is the
  smallest case in which a single `notify_one` is too few.
* Three ids and four clients in `ClientPool`: the pool is full at times, ids come
  back in another order than they were given, and one client is refused.
* `TsQueue`'s `MaxItems`: more items than consumers, so that a consumer overtakes
  a woken one and an item is added while nobody sleeps.
* Two games and two consumers in `GamePool`: an announcement overlaps the making
  of the next game, and an id is taken while another game has one. The impatient
  client can play against itself, which fills both games with three clients.
* `Server`: two places are the smallest pool the code can serve (it creates half
  as many threads of each kind). With a third client (`server_safety`) it is full
  and ids are given again. Four places (`server_threads`) have two threads of each
  kind; what that run checks is about one client, for which they compete, so it
  has one. `MaxSends` bounds what a peer says after the handshake. It is 2 in
  `server_threads` and `server_play`: a read can swallow a message, two consumers
  can have two messages of one client, a client asks again while it waits, is dealt
  a game or plays. It is 1 in `server_safety`, where the number of clients makes
  the states. `Kinds` is everything in `server_threads`, {ready} in `server_play`, and
  in `server_safety` the ways to leave: CLIENT_EXIT and an ERROR with an unknown
  signal or with CONNECTION_CLOSED. Beside the own id a peer may write another:
  `FromBytes` is {1} in `server_safety`, the id of another client or of nobody, and
  {2} in `server_threads`, nobody's. It is empty in `server_play`. `ToutLimit`
  stands for the code's value: 2 in `server_threads`, where both branches of the
  count are taken, else 1. The theorems have none of these bounds.
  Deadlock is not checked, since peers may stay silent for ever; in `GamePool`
  and `Game` all may be done.
* `Game`: three messages are enough for two shots of the two players at once and
  a board between them. `BoardSize` is 2: one square and the index 0 that is
  refused.
* `LocalGame`: a board of 3 by 3, a ship of two squares and one of one for the
  user, one ship in either of the bot's fleets. `Places` has every direction,
  places that cross and that leave the board; `Bombs` can sink a fleet of either
  player and miss. The theorems lift all of these bounds.
* `PvbWindow` has the code's ten rows of ten, since there is a handler for each.
  `MaxClicks` bounds the bombs: after two, a square was hit, missed, or bombed
  twice, by every pair of handlers. The forms are one that fits along every edge
  and one for each way of being refused; the bombs hit four ships of the fleet
  that is accepted and miss once.

### Fairness

`PoolLock` and `TsQueue` assume weak fairness of each thread's own steps, never of
a wakeup without reason or of the arrival of items: the operating system schedules
a thread that can run, and nothing else is promised.

`Server`'s `FairSpec` has weak fairness of the main thread, of each producer and
of each consumer, and none of a peer; `server_threads` and `server_play` use it.
It leaves out the steps that take a pool's writer lock (`Join`, `FailConfirm`,
`RemoveClient`, `Ready`): `lock_stranded` shows that such a call may sleep for
good. `ClosedIsRemoved` and `HandshakeEnds` therefore have a premise,
`LocksAreGranted`: no call waits for a writer lock for ever, and nothing has
crashed. `ClosedIsRemoved` also supposes that no peer keeps its handshake open for
ever, as the main thread holds that client's stream meanwhile and a consumer with
a message for the client waits for it. Waiting for any other mutex is a step that
is enabled only while the mutex is free. Weak fairness is enough for these: a
queue's mutex is held within one step, and a stream's can be taken from a waiting
consumer only by another read of that client, between which the client is in the
producers' queue; what peers send is bounded in the model, so a consumer waits for
finitely many messages.

## 4. What is proved

All theorems hold for every value of the constants that satisfies the named
assumptions, without a bound on states.

* `PoolLock_proofs`: `Safety` (the inductive invariant `LockInvariant`, which contains
  `Exclusion`; `ExclusiveSections` states it alone) and `Implementation` (the
  protocol implements `RWLock`), for a finite set of threads and a counter that
  starts at 0. Exclusion is not inductive: that a writer enters only when the counter is 0
  shows nothing unless the counter counts the threads that read
  (`CountsReaders`), which in turn needs that only the mutex's owner is at the
  test (`MutexOwner`).
* `ClientPool_proofs`: `Safety` and `Implementation`, for 1 to 254 places and if
  the slot past the end reads as empty (`NothingPastTheEnd`). `create_and_add_client`
  tests the count and takes the head of the list; that there is one needs
  `Occupancy`, and that it is free needs `FreeIds`. `FreeIdsAreFree`, `CountIsRight`
  and `ListingsAreCurrent` name the parts.
* `GamePool_proofs`: `Safety`, `GameIdsAreSafe` and `OneWaiter`, for any clients,
  consumers and number of games. The game being made has an id that is neither in
  the list nor in the pool; it is unique because its maker is alone in the writer
  section (`SectionIsTheMakers`). A list without repetition holds at most all ids
  (`ListFits`, from the pigeonhole theorem), which keeps the count from going
  below 0. `PlayersAndGamesAgree` and `PlayersStay` say what a patient player's
  `status` and `game_id` are worth. Their invariant (`PlayersInv`) follows both
  fields through the four writes of `set_in_game` and adds that whoever waits is
  not in a game and that nobody waits while a game is made, so that no client is
  dealt twice.
  `Implementation` shows that the pool implements `Matchmaker`. Only
  `add_ready_client` and `remove` map to steps of it. That the other steps of a
  game's making map to a stutter needs that its number is the maker's alone
  (`GameIdsAccounted`, `SectionIsTheMakers`), and that a number can be found free
  exactly when the count is below the limit needs that no number is ever lost: each
  is in the list, stored or in making.
* `TsQueue_proofs`: `Safety`, `FirstInFirstOut`, `NobodyWorksOnNothing`,
  `NoLostWakeup` and `Implementation` (the queue implements `AtomicQueue`), for a
  finite set of consumers.
* `Game_proofs`: `GameTypes`, `VerdictComesFirst`, `ShotsArriveOnce` and
  `BoardsFindTheirOwner`, for a finite set of consumers, boards of any size, any
  payloads long enough for their message and any number of messages. What holds
  when everything has been handled is not inductive. The invariant is a balance:
  what a player has sent is what came of it plus what is in the queue or in a
  consumer's hand (`ShotsBalance`, `BoardsBalance`), and whatever is on its way was
  sent by the player it names (`Genuine`), so that a row can only be filled with
  its owner's board (`RowsAreOwn`). The balances hold while both players are there:
  a shot at a player that is gone is lost. That a verdict comes right before its
  coordinates (`Reports`) rests on `game_mutex`: its owner is the one consumer
  between the two sends (`OneInside`); only the announcement, made without the
  mutex, may fall between them.
* `Server_proofs`: `Safety`, `OneReader`, `RoomForTheHandshake` and
  `MessagesFindTheirSender`, for any clients, messages, ids that peers write, and
  threads, and 1 to 254 places. `Safety` has the three parts of the inductive
  invariant, which need each other: `IInv` (handshake, queues and messages), `Books`
  (both pools) and `Counts` (timeouts). A client enters the producers' queue when its
  handshake ends and when a producer puts it back; that it is not in it already needs
  that whoever is queued or held was served before, and that the client of the
  handshake was not (`Handshake`, `Polling`). A message is looked up by an id, which
  may be anybody's: that one with its sender's own id leads to its sender rests on
  ids being given only in a handshake, to a client that has sent nothing yet, and on
  whoever is in the pool having the place of its id (`Mail`, `OwnIds`).

  The books of both pools hold inside the server. Their step lemmas are those of
  the pools' own modules, instantiated with what the server has in the place of
  their parameters. With them come `ServerTypes` and `OneWaitsInServer`.

  `NobodyIsForgotten` follows a client through the hands it passes: a queue, a
  producer, a message. The weak place is the end of that way, where a consumer
  resolves the sender of a message to remove it: the message is dropped if nobody
  has the id, and takes out another client if another one has it. So a resolved
  message must carry the id of the client it was resolved to (`Resolved`), whoever
  is in the pool has had its handshake's number (`Numbered`), and whoever is not
  below the limit of timeouts is not read from again (`Counts`). What others send
  under a client's id may take it out of the pool; it does not make it forgotten.
  `MatchmakerInServer` shows that the server implements `Matchmaker`, by the
  steps of `GamePool`'s proof.
* `LocalGame_proofs`: `Safety`, `FleetsStayOnBoard`, `OnlyBombedShipsAreHit` and
  `SunkMeansLost`, for boards of any side and any fleets. The placement check looks
  for ships, not for squares that were hit, so the invariant needs that none is
  hit while ships are placed (`NotBombedYet`), and that the user has no records
  yet which could be overwritten (`UserStillToPlace`). The facts about `Board`'s
  operators come first, above all `CheckedFits`: the squares `checkIfValid` looks
  at are those `addShip` writes, on the board and clear of other ships.
* `PvbWindow_proofs`: `Safety`, `BoardIsShown` and `AcceptedFleetPlays`, for any
  forms, bombs and number of clicks. At every turn of the submission's loop the
  board has the ships tried so far, if none was refused (`DrawnSoFar`), and before
  the game nothing is coloured (`NothingPlayedYet`).

Only model-checked: liveness (`MutexIsGivenBack`, `EveryItemTaken`,
`ClosedIsRemoved`, `HandshakeEnds`), because liveness under fairness is beyond the
prover. Every invariant, action property and refinement
that a passing run checks is a theorem as well.

## 5. Where the code departs from its documentation

Shown by a run:

1. `exit_reader_section` decrements and notifies outside the mutex, and notifies
   one of several writers: a writer can sleep for good (`lock_stranded`).
2. `broadcast_message` resets an expired pointer and then dereferences it
   (`games_broadcast`). One consumer is enough: the opponent may be kept alive
   only by a producer's pointer while its game is made.

Shown by one of the configurations beside the runs:

3. The verdict of a shot goes to `p_to_c(msg->from())`, a client id where a player
   number is meant, so always to player two (`Game_shooter.cfg`). It is also read from
   the shooter's own board.
4. The cached listing keeps the status a client had when it joined
   (`ClientPool_listing.cfg`).
5. With every game taken, a client that asks is neither given a game nor made to
   wait, and the one that waited has left the queue and stays "searching"
   (`GamePool_full.cfg`).
6. A silent client is given up at the limit of timeouts, where two comments say
   past it (`Server_timeouts.cfg`).
7. Between the two stores of `set_in_game` a producer sees a player of game 0, and
   reports its closed connection there (`Server_window.cfg`).

Seen in the models, without a configuration of their own:

* `CONNECTION_CLOSED` of a player is sent to its game, which ignores it; nobody
  removes the client, whose place is lost (`ClosedIsRemoved` and `NobodyForgotten`
  except the clients whose game was told).
* Messages name their sender by id. After `CLIENT_EXIT` has freed the id, the
  `CONNECTION_CLOSED` that follows can remove the client that got it next.
  `IdsResolve` says when this cannot happen: while the sender is in the pool.
* The id in a message is what its peer wrote, and nothing compares it with the
  client the message was read from.
* A peer's own message of type ERROR is handled like one that `receive` makes: with
  a signal that has no case, its client stays in the pool and is not read from.
* `reader_count` is not initialized; with anything but 0 a writer waits for
  readers that do not exist.
* The bounds checks accept one id too many; in `game_pool::get` the check has no
  effect at all.
* A client that asks for a game twice is paired with itself.
* A connection that fails instead of confirming passes for a confirmation, and
  one that says nothing keeps the main thread, which accepts nobody meanwhile.
* A player that is silent for a second is never read from again; another client
  that is given up for its silence stays in the pool.
* `client::receive` keeps the stream's mutex while it waits, and a consumer with
  something to send waits with it; in the handshake there is no timeout.
* Two consumers may handle a player's board after the shot it sent later.
* The console game's loop, `while (!u.didLose() || !b.didLose())`, goes on until
  both have lost; and the bot has two fleets on its board, one from its
  constructor, of which no record is left.
* Every handler of the GUI bombs square (1,1) of a bot it has just made, so the
  bot of the window never loses; sixty of the hundred paint another button than
  the one that was pressed (59 paint `e_1_1`, and (9,9) paints `e_9_8`).
* The chosen game is stored through an uninitialized pointer, and `setBot` has no
  return statement.

## 6. Not modelled

* Sockets beyond what a read returns: partial writes, SIGPIPE, name lookup.
* The bytes of listings and headers, debug output, command lines.
* Messages that name a game their sender does not play in, boards shorter than
  `BOARD_SIZE`, and messages without the payload they need: what the code does
  then is undefined. Beside the types, signals and ids of `Server`'s `PeerKinds` and
  `FromBytes`, peers in the models send what the protocol has.
* `set_idle`, `get_lock`, `get_with_lock`, `curr_p`: nothing calls or reads them.
* `Thread`: `start`, `join` and `detach` around pthreads; the server starts its
  threads once and joins none of them.
* In the console game: printing, `getGridStream`, `User::addHit` and the class
  `Square`, which no decision depends on. In the GUI: labels, the waits between two
  bombs, styling; `PvpWindow`, which opens and does nothing.
* The older copies of the same game in `src/Battleship` and
  `src/BattleShipGame/BattleShipGame`, and the copies of the message classes in
  `src/shared`. Generated documentation, build output and Qt forms.

## 7. Plan

Done, in this order: the pool lock, the client pool, the queue, the game pool,
the server around them, the game, the console game, the GUI; with the abstract
specifications of lock, registry, queue and matchmaker, and the theorems of
section 4.

Next:

1. `Thread`: `start`, `join`, `detach` and the destructor, and the flags they
   test.
2. An abstract specification of the game, a channel that reports shots, with `Game`
   as its implementation.
3. The pools' constructors, which count ids with an unsigned char.
