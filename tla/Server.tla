------------------------------- MODULE Server -------------------------------
(***************************************************************************)
(* The game server as a whole (GameServer/src/server.cpp, msgproducer.cpp,  *)
(* msgconsumer.cpp): the main thread accepts connections and performs the   *)
(* handshake, producers take turns at reading from the clients, consumers   *)
(* handle what was read.  They share the client pool (ClientPool), the game *)
(* pool (GamePool) and two blocking queues (TsQueue): c_queue holds weak    *)
(* pointers to the clients to be read from, msg_queue the messages.         *)
(*                                                                          *)
(* A client value is one client object and the connection it owns.  The     *)
(* object lives as long as the pool or some thread holds a strong pointer:  *)
(* Alive is computed from who holds what.                                   *)
(*                                                                          *)
(* stream is what the peer has sent and the server has not read: letters,   *)
(* of a kind (the type and the signal) and with the sender's id as the peer *)
(* wrote it, which nobody checks.  A read returns the first letter and may  *)
(* swallow more with it, because messages have no frame.                    *)
(***************************************************************************)
EXTENDS Integers, Sequences, FiniteSets

CONSTANTS Clients, NoClient,
          MaxClients,            \* max_connections
          Producers, Consumers,  \* the threads server::start creates
          NoThread,
          Kinds,                 \* what peers send once they have joined
          FromBytes,             \* ids that peers write for their own
          MaxSends,              \* bound of the model: how often they do
          ToutLimit              \* tout_count_limit of the producers

ASSUME ThreadsAssumption ==
    /\ Cardinality(Producers) = MaxClients \div 2
    /\ Cardinality(Consumers) = MaxClients \div 2
ASSUME PlacesAssumption == MaxClients \in 1..254
ASSUME NoClientAssumption == NoClient \notin Clients /\ NoThread \notin Consumers
ASSUME ToutLimitAssumption == ToutLimit \in Nat \ {0}

\* Messages of type SERVER: CLIENT_EXIT, CONNECTION_CLOSED, any other; of type GAME:
\* GAME_READY (the other signals are for the module Game).
ToConsumers == {"exit", "closed", "other", "ready"}

\* Messages of type ERROR: CONNECTION_CLOSED, CONNECTION_TIMED_OUT, any other.
Errors == {"error_closed", "error_timed_out", "error"}

\* A type that is none of these.
PeerKinds == ToConsumers \cup Errors \cup {"unknown"}

ASSUME KindsAssumption == Kinds \subseteq PeerKinds
ASSUME FromAssumption == FromBytes \subseteq 0..255

VARIABLES
    \* client_pool and game_pool
    pool, empty_queue, client_count, cl_cache, status,
    games, free_games, game_count, ready_queue, game_id, at, deal, section,
    crashed,      \* a null pointer was dereferenced
    \* the peers
    conn,         \* how far the server got with each connection
    peer,         \* what the other end did to it: open, closed, reset
    stream,       \* messages sent and not read
    sends,        \* messages sent after the handshake
    \* the threads
    mpc, joining, \* the main thread and the client of its handshake
    c_queue, msg_queue,
    ppc, hand,    \* the producers and the client each one holds
    job, ref,     \* the consumers' message, and the client they resolved
    id,           \* client::id, 0 before the object exists
    tout_count,   \* client::tout_count
    left_to_game, \* history: the clients whose game was told, and that are not read from
    spoke_error   \* history: those not read from after an ERROR that they sent

NoMsg == [kind |-> "none", from |-> 0, sender |-> NoClient]

InPool(c) == \E i \in 1..MaxClients : pool[i] = c

\* The objects some strong pointer refers to.
Alive == {c \in Clients :
    \/ InPool(c)
    \/ mpc = "confirm" /\ joining = c
    \/ \E p \in Producers : hand[p] = c
    \/ \E k \in Consumers : ref[k] = c \/ (deal[k].two = c /\ section = k)}

CP == INSTANCE ClientPool WITH PastTheEnd <- {}
GP == INSTANCE GamePool WITH
    MaxGames <- MaxClients \div 2, PatientClients <- {}, GamesEnd <- FALSE,
    alive <- Alive

poolVars  == <<pool, empty_queue, client_count, cl_cache>>
gameVars  == <<games, free_games, game_count, ready_queue, game_id, at, deal, section>>
mainVars  == <<mpc, joining, id>>
peerVars  == <<peer, stream, sends>>
prodVars  == <<ppc, hand, tout_count, left_to_game, spoke_error>>
consVars  == <<job, ref>>
vars == <<poolVars, status, gameVars, crashed, mainVars, conn, peerVars, prodVars,
          consVars, c_queue, msg_queue>>

Init ==
    /\ CP!Init
    /\ games = [g \in GP!GameIds |-> GP!NoGame]
    /\ free_games = [g \in GP!GameIds |-> g]
    /\ game_count = 0
    /\ ready_queue = << >>
    /\ game_id = [c \in Clients |-> 0]
    /\ at = [k \in Consumers |-> "idle"]
    /\ deal = [k \in Consumers |-> GP!NoDeal]
    /\ section = NoThread
    /\ crashed = FALSE
    /\ conn = [c \in Clients |-> "away"]
    /\ peer = [c \in Clients |-> "open"]
    /\ stream = [c \in Clients |-> << >>]
    /\ sends = [c \in Clients |-> 0]
    /\ mpc = "accept"
    /\ joining = NoClient
    /\ id = [c \in Clients |-> 0]
    /\ c_queue = << >>
    /\ msg_queue = << >>
    /\ ppc = [p \in Producers |-> "idle"]
    /\ hand = [p \in Producers |-> NoClient]
    /\ tout_count = [c \in Clients |-> 0]
    /\ left_to_game = {}
    /\ spoke_error = {}
    /\ job = [k \in Consumers |-> NoMsg]
    /\ ref = [k \in Consumers |-> NoClient]

-----------------------------------------------------------------------------
(* Streams *)

\* A read takes what has arrived; only the first letter is looked at.
Read(c) ==
    /\ stream[c] # << >>
    /\ \E n \in 1..Len(stream[c]) :
          stream' = [stream EXCEPT ![c] = SubSeq(@, n + 1, Len(@))]
    /\ UNCHANGED <<peer, sends>>

\* Nothing to read and the connection is gone.  A read that fails returns -1,
\* which the code takes for a timeout; the next one finds the end of file.
Ended(c) == stream[c] = << >> /\ peer[c] = "closed"
Failed(c) ==
    /\ stream[c] = << >>
    /\ peer[c] = "reset"
    /\ peer' = [peer EXCEPT ![c] = "closed"]
    /\ UNCHANGED <<stream, sends>>

\* Nothing came in time.
TimedOut(c) ==
    \/ Failed(c)
    \/ stream[c] = << >> /\ peer[c] = "open" /\ UNCHANGED peerVars

\* client::receive keeps stream_mux locked while it waits: a send to that
\* client waits too.
StreamFree(c) ==
    /\ ~ (mpc = "confirm" /\ joining = c)
    /\ \A p \in Producers : ~ (ppc[p] = "polling" /\ hand[p] = c)

-----------------------------------------------------------------------------
(* The peers *)

Connect(c) ==
    /\ conn[c] = "away"
    /\ conn' = [conn EXCEPT ![c] = "backlog"]
    /\ stream' = [stream EXCEPT ![c] = << >>]
    /\ UNCHANGED <<poolVars, status, gameVars, crashed, mainVars, peer, sends,
                   prodVars, consVars, c_queue, msg_queue>>

Letter(kind, from) == [kind |-> kind, from |-> from]

\* What a peer writes as its id: the one it was told, or another.
Writes(c) == FromBytes \cup {id[c]}

\* The request to join, of which only the kind is looked at; then the confirmation
\* of the id, of which only the id is; or something else.
Greet(c, kind, from) ==
    /\ peer[c] = "open"
    /\ stream[c] = << >>
    /\ \/ conn[c] \in {"backlog", "accepted"} /\ from = id[c]
       \/ conn[c] = "numbered" /\ kind = "other"
    /\ stream' = [stream EXCEPT ![c] = <<Letter(kind, from)>>]
    /\ UNCHANGED <<poolVars, status, gameVars, crashed, mainVars, conn, peer,
                   sends, prodVars, consVars, c_queue, msg_queue>>

PeerSend(c, kind, from) ==
    /\ conn[c] = "served"
    /\ c \in Alive
    /\ peer[c] = "open"
    /\ sends[c] < MaxSends
    /\ sends' = [sends EXCEPT ![c] = @ + 1]
    /\ stream' = [stream EXCEPT ![c] = Append(@, Letter(kind, from))]
    /\ UNCHANGED <<poolVars, status, gameVars, crashed, mainVars, conn, peer,
                   prodVars, consVars, c_queue, msg_queue>>

\* The peer closes, or is lost; a reset discards what was not read.
Leave(c, how) ==
    /\ conn[c] \notin {"away", "gone"}
    /\ conn[c] = "served" => c \in Alive
    /\ peer[c] = "open"
    /\ peer' = [peer EXCEPT ![c] = how]
    /\ stream' = [stream EXCEPT ![c] = IF how = "reset" THEN << >> ELSE @]
    /\ UNCHANGED <<poolVars, status, gameVars, crashed, mainVars, conn, sends,
                   prodVars, consVars, c_queue, msg_queue>>

-----------------------------------------------------------------------------
(* The main thread *)

\* A mutant: no look at the size of the pool.
AcceptAlways(c) ==
    /\ mpc = "accept"
    /\ conn[c] = "backlog"
    /\ conn' = [conn EXCEPT ![c] = "accepted"]
    /\ mpc' = "join"
    /\ joining' = c
    /\ UNCHANGED <<poolVars, status, gameVars, crashed, id, peerVars, prodVars,
                   consVars, c_queue, msg_queue>>

\* accept, and the look at the size of the pool: a full server says so and
\* drops the connection.
Accept(c) ==
    /\ mpc = "accept"
    /\ conn[c] = "backlog"
    /\ IF CP!Full
       THEN conn' = [conn EXCEPT ![c] = "gone"] /\ UNCHANGED <<mpc, joining>>
       ELSE /\ conn' = [conn EXCEPT ![c] = "accepted"]
            /\ mpc' = "join"
            /\ joining' = c
    /\ UNCHANGED <<poolVars, status, gameVars, crashed, id, peerVars, prodVars,
                   consVars, c_queue, msg_queue>>

Asks(c) == stream[c] # << >> /\ Head(stream[c]).kind = "join"

\* No join request within a second: the temporary client and its connection
\* are deleted.
Deny ==
    /\ mpc = "join"
    /\ ~ Asks(joining)
    /\ conn' = [conn EXCEPT ![joining] = "gone"]
    /\ mpc' = "accept"
    /\ joining' = NoClient
    /\ UNCHANGED <<poolVars, status, gameVars, crashed, id, peerVars, prodVars,
                   consVars, c_queue, msg_queue>>

\* A mutant: the id is the number of clients, not the one that was free.
JoinByCount ==
    /\ mpc = "join"
    /\ Asks(joining)
    /\ Read(joining)
    /\ IF CP!Full
       THEN crashed' = TRUE /\ UNCHANGED <<poolVars, status, id, conn>>
       ELSE /\ CP!CreateAndAddClient(joining)
            /\ id' = [id EXCEPT ![joining] = client_count']
            /\ conn' = [conn EXCEPT ![joining] = "numbered"]
            /\ UNCHANGED crashed
    /\ mpc' = "confirm"
    /\ UNCHANGED <<joining, gameVars, prodVars, consVars, c_queue, msg_queue>>

\* The client is created with an id and told so.  The pool returns nullptr if
\* it is full, which is dereferenced.
Join ==
    /\ mpc = "join"
    /\ Asks(joining)
    /\ Read(joining)
    /\ IF CP!Full
       THEN crashed' = TRUE /\ UNCHANGED <<poolVars, status, id, conn>>
       ELSE /\ CP!CreateAndAddClient(joining)
            /\ id' = [id EXCEPT ![joining] = Head(empty_queue)]
            /\ conn' = [conn EXCEPT ![joining] = "numbered"]
            /\ UNCHANGED crashed
    /\ mpc' = "confirm"
    /\ UNCHANGED <<joining, gameVars, prodVars, consVars, c_queue, msg_queue>>

\* A mutant: an id that is not in use is recycled as well.
RemoveIdUnchecked(i) == CP!RemoveUnchecked(i)

\* client_pool::remove, which refuses an id that is not in use.
RemoveId(i) ==
    IF pool[i] = NoClient THEN UNCHANGED <<poolVars, status>> ELSE CP!Remove(i)

EndHandshake(how) ==
    /\ mpc' = "accept"
    /\ joining' = NoClient
    /\ conn' = [conn EXCEPT ![joining] = how]

\* The next letter names the client's id, or another one.
Confirms(c) == stream[c] # << >> /\ Head(stream[c]).from = id[c]
Mistakes(c) == stream[c] # << >> /\ Head(stream[c]).from # id[c]

\* A mutant: an error of the connection is waited out.
ConfirmPatiently ==
    /\ mpc = "confirm"
    /\ Confirms(joining) /\ Read(joining)
    /\ c_queue' = Append(c_queue, joining)
    /\ EndHandshake("served")
    /\ UNCHANGED <<poolVars, status, gameVars, crashed, id, prodVars, consVars,
                   msg_queue>>

\* receive() without a timeout: a message with the client's id, which an error that
\* receive() makes carries as well.  The client goes to the producers.
Confirm ==
    /\ mpc = "confirm"
    /\ \/ Confirms(joining) /\ Read(joining)
       \/ Ended(joining) /\ UNCHANGED peerVars
       \/ Failed(joining)
    /\ c_queue' = Append(c_queue, joining)
    /\ EndHandshake("served")
    /\ UNCHANGED <<poolVars, status, gameVars, crashed, id, prodVars, consVars,
                   msg_queue>>

\* A message with another id: the client is removed from the pool.
FailConfirm ==
    /\ mpc = "confirm"
    /\ Mistakes(joining)
    /\ Read(joining)
    /\ RemoveId(id[joining])
    /\ EndHandshake("gone")
    /\ UNCHANGED <<gameVars, crashed, id, prodVars, consVars, c_queue, msg_queue>>

-----------------------------------------------------------------------------
(* A producer: client_message_producer::run *)

\* c_queue.remove().lock(): a client that was deleted is passed over.
TakeClient(p) ==
    /\ ppc[p] = "idle"
    /\ c_queue # << >>
    /\ c_queue' = Tail(c_queue)
    /\ IF Head(c_queue) \in Alive
       THEN /\ hand' = [hand EXCEPT ![p] = Head(c_queue)]
            /\ ppc' = [ppc EXCEPT ![p] = "polling"]
       ELSE UNCHANGED <<hand, ppc>>
    /\ UNCHANGED <<poolVars, status, gameVars, crashed, mainVars, conn, peerVars,
                   tout_count, left_to_game, spoke_error, consVars, msg_queue>>

\* The message is queued as the peer wrote it; sender, which it does not hold, is
\* the client it was read from.
Msg(c, kind, from) == [kind |-> kind, from |-> from, sender |-> c]

Produce(c, kind, from) == msg_queue' = Append(msg_queue, Msg(c, kind, from))

\* What client::receive returns: the letter that was read, or an ERROR of its own,
\* with the client's id.
Heard(c) ==
    IF stream[c] # << >> THEN {Head(stream[c])}
    ELSE {Letter(kind, id[c]) : kind \in {"error_closed", "error_timed_out"}}

ReceiveFrom(c, m) ==
    \/ Read(c)
    \/ Ended(c) /\ m.kind = "error_closed" /\ UNCHANGED peerVars
    \/ TimedOut(c) /\ m.kind = "error_timed_out"

\* What the producer does with the client it has read from: nothing more, or
\* put it back.
GiveUp(p) == ppc' = [ppc EXCEPT ![p] = "dropping"] /\ UNCHANGED hand
Again(p) == ppc' = [ppc EXCEPT ![p] = "readding"] /\ UNCHANGED hand

\* A message of type SERVER or GAME.
Receive(p, m) ==
    LET c == hand[p] IN
    /\ m.kind \in ToConsumers
    /\ ReceiveFrom(c, m)
    /\ Produce(c, m.kind, m.from)
    /\ tout_count' = [tout_count EXCEPT ![c] = 0]
    /\ Again(p)
    /\ UNCHANGED <<poolVars, status, gameVars, crashed, mainVars, conn, consVars,
                   left_to_game, spoke_error, c_queue>>

\* CONNECTION_CLOSED goes to the game of a client that plays, and else to the
\* consumer that removes the client it names.
ReceiveClosed(p, m) ==
    LET c == hand[p] IN
    /\ m.kind = "error_closed"
    /\ ReceiveFrom(c, m)
    /\ IF status[c] = "in_game"
       THEN /\ Produce(c, "game_closed", m.from)
            /\ left_to_game' = left_to_game \cup {c}
            /\ UNCHANGED spoke_error
       ELSE /\ Produce(c, "closed", m.from)
            /\ spoke_error' = IF m.from = id[c] THEN spoke_error ELSE spoke_error \cup {c}
            /\ UNCHANGED left_to_game
    /\ GiveUp(p)
    /\ UNCHANGED <<poolVars, status, gameVars, crashed, mainVars, conn, tout_count,
                   consVars, c_queue>>

\* CONNECTION_TIMED_OUT: a client that plays is given up at once, another one
\* when it has been silent too often.
ReceiveTimeout(p, m) ==
    LET c == hand[p] IN
    /\ m.kind = "error_timed_out"
    /\ ReceiveFrom(c, m)
    /\ IF status[c] = "in_game"
       THEN /\ Produce(c, "game_timed_out", m.from) /\ GiveUp(p)
            /\ left_to_game' = left_to_game \cup {c}
            /\ UNCHANGED tout_count
       ELSE /\ UNCHANGED left_to_game
            /\ tout_count' = [tout_count EXCEPT ![c] = @ + 1]
            /\ IF tout_count'[c] >= ToutLimit
               THEN Produce(c, "timed_out", id[c]) /\ GiveUp(p)
               ELSE Again(p) /\ UNCHANGED msg_queue
    /\ UNCHANGED <<poolVars, status, gameVars, crashed, mainVars, conn, consVars,
                   spoke_error, c_queue>>

\* Any other ERROR, which only a peer can send: nobody is told, and the client is
\* not put back.
ReceiveError(p, m) ==
    LET c == hand[p] IN
    /\ m.kind = "error"
    /\ ReceiveFrom(c, m)
    /\ spoke_error' = spoke_error \cup {c}
    /\ GiveUp(p)
    /\ UNCHANGED <<poolVars, status, gameVars, crashed, mainVars, conn, tout_count,
                   left_to_game, consVars, c_queue, msg_queue>>

\* No such type: the message is dropped, and the client still counts as silent.
ReceiveUnknown(p, m) ==
    /\ m.kind = "unknown"
    /\ ReceiveFrom(hand[p], m)
    /\ Again(p)
    /\ UNCHANGED <<poolVars, status, gameVars, crashed, mainVars, conn, tout_count,
                   left_to_game, spoke_error, consVars, c_queue, msg_queue>>

Poll(p) ==
    /\ ppc[p] = "polling"
    /\ \E m \in Heard(hand[p]) :
          \/ Receive(p, m) \/ ReceiveClosed(p, m) \/ ReceiveTimeout(p, m)
          \/ ReceiveError(p, m) \/ ReceiveUnknown(p, m)

\* A mutant: the client is not put back.
ReAddNothing(p) ==
    /\ ppc[p] = "readding"
    /\ GiveUp(p)
    /\ UNCHANGED <<poolVars, status, gameVars, crashed, mainVars, conn, peerVars,
                   tout_count, left_to_game, spoke_error, consVars, msg_queue, c_queue>>

\* A mutant: the client is put back and read from once more.
ReAddHolding(p) ==
    /\ ppc[p] = "readding"
    /\ c_queue' = Append(c_queue, hand[p])
    /\ ppc' = [ppc EXCEPT ![p] = "polling"]
    /\ UNCHANGED <<poolVars, status, gameVars, crashed, mainVars, conn, peerVars,
                   hand, tout_count, left_to_game, spoke_error, consVars,
                   msg_queue>>

\* The client goes to the end of the queue.
ReAdd(p) ==
    /\ ppc[p] = "readding"
    /\ c_queue' = Append(c_queue, hand[p])
    /\ GiveUp(p)
    /\ UNCHANGED <<poolVars, status, gameVars, crashed, mainVars, conn, peerVars,
                   tout_count, left_to_game, spoke_error, consVars, msg_queue>>

\* The end of the loop's body: the producer's pointer to the client goes.
Drop(p) ==
    /\ ppc[p] = "dropping"
    /\ hand' = [hand EXCEPT ![p] = NoClient]
    /\ ppc' = [ppc EXCEPT ![p] = "idle"]
    /\ UNCHANGED <<poolVars, status, gameVars, crashed, mainVars, conn, peerVars,
                   tout_count, left_to_game, spoke_error, consVars, c_queue, msg_queue>>

-----------------------------------------------------------------------------
(* A consumer: message_consumer::run *)

TakeMessage(k) ==
    /\ job[k] = NoMsg
    /\ msg_queue # << >>
    /\ job' = [job EXCEPT ![k] = Head(msg_queue)]
    /\ msg_queue' = Tail(msg_queue)
    /\ UNCHANGED <<poolVars, status, gameVars, crashed, mainVars, conn, peerVars,
                   prodVars, ref, c_queue>>

\* "get the sender from the pool": the client under the id in the message, or
\* nobody, and the message is dropped.
LookUp(k) ==
    /\ job[k] # NoMsg
    /\ ref[k] = NoClient
    /\ ref' = [ref EXCEPT ![k] = CP!Get(job[k].from)]
    /\ job' = [job EXCEPT ![k] = IF CP!Get(@.from) = NoClient THEN NoMsg ELSE @]
    /\ UNCHANGED <<poolVars, status, gameVars, crashed, mainVars, conn, peerVars,
                   prodVars, c_queue, msg_queue>>

Handles(k, kinds) == ref[k] # NoClient /\ job[k].kind \in kinds

Done(k) ==
    /\ job' = [job EXCEPT ![k] = NoMsg]
    /\ ref' = [ref EXCEPT ![k] = NoClient]

\* A mutant: a closed connection is left in the pool.
RemoveClientOnExit(k) ==
    /\ Handles(k, {"exit", "closed"})
    /\ IF job[k].kind = "exit" THEN RemoveId(id[ref[k]])
                              ELSE UNCHANGED <<poolVars, status>>
    /\ Done(k)
    /\ UNCHANGED <<gameVars, crashed, mainVars, conn, peerVars, prodVars, c_queue,
                   msg_queue>>

\* CLIENT_EXIT, or CONNECTION_CLOSED.
RemoveClient(k) ==
    /\ Handles(k, {"exit", "closed"})
    /\ RemoveId(id[ref[k]])
    /\ Done(k)
    /\ UNCHANGED <<gameVars, crashed, mainVars, conn, peerVars, prodVars, c_queue,
                   msg_queue>>

\* Any other server message is sent back to the client, that it was silent for
\* too long included.
Reply(k) ==
    /\ Handles(k, {"other", "timed_out"})
    /\ StreamFree(ref[k])
    /\ Done(k)
    /\ UNCHANGED <<poolVars, status, gameVars, crashed, mainVars, conn, peerVars,
                   prodVars, c_queue, msg_queue>>

\* GAME_READY: the client waits, or starts a game, or is sent away.
Ready(k) ==
    /\ Handles(k, {"ready"})
    /\ at[k] = "idle"
    /\ GP!AddReadyClient(k, ref[k])
    /\ IF at'[k] = "idle" THEN Done(k) ELSE UNCHANGED consVars
    /\ UNCHANGED <<poolVars, mainVars, conn, peerVars, prodVars, c_queue, msg_queue>>

MakeGame(k) ==
    /\ GP!SetSearching(k) \/ GP!SetInGame(k) \/ GP!StoreGame(k)
    /\ UNCHANGED <<poolVars, mainVars, conn, peerVars, prodVars, consVars, c_queue,
                   msg_queue>>

MakeWait(k) ==
    /\ GP!Enqueue(k)
    /\ Done(k)
    /\ UNCHANGED <<poolVars, mainVars, conn, peerVars, prodVars, c_queue, msg_queue>>

Announce(k) ==
    /\ StreamFree(deal[k].one) /\ StreamFree(deal[k].two)
    /\ GP!Broadcast(k)
    /\ Done(k)
    /\ UNCHANGED <<poolVars, mainVars, conn, peerVars, prodVars, c_queue, msg_queue>>

\* A game hears that a player's connection was closed or silent: it does
\* nothing, and neither does anybody else.
TellGame(k) ==
    /\ Handles(k, {"game_closed", "game_timed_out"})
    /\ Done(k)
    /\ UNCHANGED <<poolVars, status, gameVars, crashed, mainVars, conn, peerVars,
                   prodVars, c_queue, msg_queue>>

-----------------------------------------------------------------------------
Peers ==
    \E c \in Clients :
        \/ Connect(c)
        \/ \E kind \in {"join", "other"}, from \in Writes(c) : Greet(c, kind, from)
        \/ \E kind \in Kinds, from \in Writes(c) : PeerSend(c, kind, from)
        \/ \E how \in {"closed", "reset"} : Leave(c, how)

\* The steps of a thread that need no pool's writer lock, and those that do.
MainAlone == (\E c \in Clients : Accept(c)) \/ Deny \/ Confirm
Main == MainAlone \/ Join \/ FailConfirm

Producer(p) == TakeClient(p) \/ Poll(p) \/ ReAdd(p) \/ Drop(p)

ConsumerAlone(k) == \/ TakeMessage(k) \/ LookUp(k) \/ Reply(k) \/ MakeGame(k)
                    \/ MakeWait(k) \/ Announce(k) \/ TellGame(k)
Consumer(k) == ConsumerAlone(k) \/ RemoveClient(k) \/ Ready(k)

Running(A) == ~ crashed /\ A

Next ==
    \/ Running(Peers)
    \/ Running(Main)
    \/ \E p \in Producers : Running(Producer(p))
    \/ \E k \in Consumers : Running(Consumer(k))

Spec == Init /\ [][Next]_vars

\* The server's threads run, but a thread that wants a pool's writer lock may sleep
\* for good (PoolLock); peers need do nothing.
FairSpec ==
    /\ Spec
    /\ WF_vars(Running(MainAlone))
    /\ \A p \in Producers : WF_vars(Running(Producer(p)))
    /\ \A k \in Consumers : WF_vars(Running(ConsumerAlone(k)))

-----------------------------------------------------------------------------
(* Properties *)

\* The variables hold values of their types.
TypeOK ==
    /\ CP!TypeOK
    /\ conn \in [Clients -> {"away", "backlog", "accepted", "numbered", "served", "gone"}]
    /\ peer \in [Clients -> {"open", "closed", "reset"}]
    /\ mpc \in {"accept", "join", "confirm"}
    /\ joining \in Clients \cup {NoClient}
    /\ c_queue \in Seq(Clients)
    /\ ppc \in [Producers -> {"idle", "polling", "readding", "dropping"}]
    /\ hand \in [Producers -> Clients \cup {NoClient}]
    /\ ref \in [Consumers -> Clients \cup {NoClient}]
    /\ tout_count \in [Clients -> Nat]
    /\ left_to_game \subseteq Clients
    /\ spoke_error \subseteq Clients

Places(c) == {n \in DOMAIN c_queue : c_queue[n] = c}
Holders(c) == {p \in Producers : hand[p] = c /\ ppc[p] # "dropping"}

\* Only one producer at a time reads from a client, and it is queued once:
\* tout_count and the order of its messages rely on that, not on a lock.
ExclusivePolling ==
    \A c \in Clients :
        /\ \A m, n \in Places(c) : m = n
        /\ \A p, q \in Holders(c) : p = q
        /\ Places(c) = {} \/ Holders(c) = {}

\* The size looked at before the handshake is still good after it: the pool
\* has room for the client that asked to join.
HandshakeFits == mpc = "join" => ~ CP!Full

\* The game pool's promise, for the clients the server gives it, which ask
\* again while they wait or play.
OneWaits == GP!OneWaits

\* The matchmaker's promise, inside the server: clients come and go while a message
\* that speaks for them waits, is resolved and is handled, and are matched as if in
\* one step with one that is there.
ClientsAreMatched == GP!ImplementsMatchmaker

\* What may still take client c out of the pool or read from it: the queue of
\* the producers, a thread that holds it, or a message on its way.
Tended(c) ==
    \/ Places(c) # {} \/ Holders(c) # {}
    \/ mpc = "confirm" /\ joining = c
    \/ \E n \in DOMAIN msg_queue : /\ msg_queue[n].kind \in {"exit", "closed"}
                                   /\ msg_queue[n].from = id[c]
    \/ \E k \in Consumers : /\ job[k].kind \in {"exit", "closed"}
                            /\ job[k].from = id[c]

\* No client is forgotten: one that is in the pool is read from or about to be
\* removed, unless it was left to its game, was silent too often, or sent an ERROR of
\* its own.  What the client is doing now is no excuse, and nor is what others say
\* in its name.
NobodyForgotten ==
    \A c \in Clients :
        /\ InPool(c)
        /\ c \notin left_to_game \cup spoke_error
        /\ tout_count[c] < ToutLimit
        => Tended(c)

\* A message that names its sender goes to the account of its sender for as long as
\* the sender is in the pool: only when it has left may the id in the message,
\* looked up later, stand for the client that came after it.
IdsResolve ==
    \A k \in Consumers :
        ref[k] # NoClient /\ ref[k] # job[k].sender /\ InPool(job[k].sender)
            => job[k].from # id[job[k].sender]

\* The calls that wait for a pool's writer lock.
MainWantsPool ==
    \/ mpc = "join" /\ Asks(joining)
    \/ mpc = "confirm" /\ Mistakes(joining)
ConsumerWantsPool(k) ==
    \/ Handles(k, {"exit", "closed"})
    \/ Handles(k, {"ready"}) /\ at[k] = "idle"

\* While the server runs, every such call gets the lock at last.
LocksAreGranted ==
    /\ [](~ crashed)
    /\ []<>(~ MainWantsPool)
    /\ \A k \in Consumers : []<>(~ ConsumerWantsPool(k))

\* A client whose connection is closed leaves the pool, so that its id and its
\* place can be given to another, if calls of the pools come to an end and no peer
\* keeps the main thread waiting for its confirmation: that thread locks the stream
\* meanwhile, which a consumer with a message for that client waits for.
ClosedIsRemoved ==
    LocksAreGranted /\ []<>(mpc # "confirm") =>
        \A c \in Clients :
            InPool(c) /\ peer[c] = "closed"
                ~> \/ ~ InPool(c) \/ c \in left_to_game \cup spoke_error
                   \/ tout_count[c] >= ToutLimit

\* The main thread waits for a confirmation without a timeout and accepts nobody
\* meanwhile.  A peer that leaves instead of confirming does not keep it: the
\* handshake ends, with a client in the pool as if it had confirmed.
HandshakeEnds ==
    LocksAreGranted =>
        \A c \in Clients :
            conn[c] = "numbered" /\ peer[c] # "open" ~> conn[c] \in {"served", "gone"}

\* A client is reported silent when its "timeout count is greater than" the limit
\* (inc/client.h:380).
ReportedPastTheLimit ==
    \A n \in DOMAIN msg_queue :
        msg_queue[n].kind = "timed_out" => tout_count[msg_queue[n].sender] > ToutLimit

\* That a player's connection was closed is told to its game, which then has an id:
\* "propagate game_message to notify game_pool and client_pool"
\* (src/msgproducer.cpp:24).
GameIsTold ==
    [][\A c \in left_to_game' \ left_to_game :
          msg_queue'[Len(msg_queue')].kind = "game_closed" => game_id[c] # 0]_vars
=============================================================================
