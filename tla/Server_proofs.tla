---------------------------- MODULE Server_proofs ----------------------------
(***************************************************************************)
(* For any clients, threads, places and messages, whatever peers write into *)
(* them: only one producer reads from a client, a handshake finds room in   *)
(* the pool, a message that names its sender goes to the sender's account   *)
(* while the sender is in the pool, no client in the pool is forgotten, and *)
(* clients are matched as Matchmaker says.                                  *)
(*                                                                          *)
(* None of these is inductive.  A client gets into the queue of the         *)
(* producers at the end of its handshake and whenever a producer puts it    *)
(* back: that it is not there yet needs that whatever is queued or held has *)
(* been served before, and that the client of the handshake has not         *)
(* (Handshake).  A message carries an id that is looked up in the pool      *)
(* later (Mail): the client that stands there stands under its own id       *)
(* (OwnIds), because only a handshake gives ids, and to a client that has   *)
(* sent nothing to a consumer yet.  Both pools keep their books as they do  *)
(* by themselves (Books), with the clients that some thread holds for those *)
(* that are there.  That the message which takes a client out of the pool   *)
(* does so needs the ids once more (Resolved, Numbered), and that nobody is *)
(* read from who has been given up (Counts).                                *)
(***************************************************************************)
EXTENDS Server, TLAPS

AllKinds == PeerKinds \cup {"join", "game_closed", "timed_out", "game_timed_out"}

\* What is on the streams: a letter with any byte for the sender's id.
Letters  == [kind : AllKinds, from : 0..255]

\* Clients that have come to the producers, and the messages read from them.
Served   == {c \in Clients : conn[c] = "served"}
Messages == [kind : AllKinds, from : 0..255, sender : Served]

Handshake ==
    /\ conn \in [Clients -> {"away", "backlog", "accepted", "numbered", "served", "gone"}]
    /\ stream \in [Clients -> Seq(Letters)]
    /\ mpc \in {"accept", "join", "confirm"}
    /\ mpc # "accept" => joining \in Clients \ Served
    /\ client_count \in Int
    /\ HandshakeFits

Polling ==
    /\ c_queue \in Seq(Served)
    /\ ppc \in [Producers -> {"idle", "polling", "readding", "dropping"}]
    /\ hand \in [Producers -> Served \cup {NoClient}]
    /\ \A p \in Producers : hand[p] = NoClient <=> ppc[p] = "idle"
    /\ ExclusivePolling

OwnIds ==
    /\ pool \in [1..MaxClients + 1 -> Clients \cup {NoClient}]
    /\ id \in [Clients -> 0..255]
    /\ \A i \in 1..MaxClients + 1 : \A c \in Clients : pool[i] = c => id[c] = i

Mail ==
    /\ msg_queue \in Seq(Messages)
    /\ job \in [Consumers -> Messages \cup {NoMsg}]
    /\ ref \in [Consumers -> Clients \cup {NoClient}]
    /\ \A k \in Consumers : ref[k] # NoClient => job[k] # NoMsg
    /\ IdsResolve

IInv == Handshake /\ Polling /\ OwnIds /\ Mail

(* The two pools inside the server. *)

C == INSTANCE ClientPool_proofs WITH PastTheEnd <- {}
G == INSTANCE GamePool_proofs WITH
    MaxGames <- MaxClients \div 2, PatientClients <- {}, GamesEnd <- FALSE,
    alive <- Alive

Books == C!IInv /\ G!IInv

LEMMA PoolsFit ==
    /\ MaxClients \in 1..254 /\ NoClient \notin Clients /\ C!NothingPastTheEnd
    /\ MaxClients \div 2 \in Nat /\ NoThread \notin Consumers
    /\ {} \subseteq Clients /\ FALSE \in BOOLEAN
BY PlacesAssumption, NoClientAssumption DEF C!NothingPastTheEnd

LEMMA AliveAreClients == Alive \subseteq Clients /\ Alive' \subseteq Clients
BY DEF Alive

LEMMA InitIInv == Init => IInv
<1> SUFFICES ASSUME Init PROVE IInv
  OBVIOUS
<1> USE NoClientAssumption DEF Init, CP!Init, CP!Slots, CP!Ids
<1>1. Handshake
  BY DEF Handshake, HandshakeFits
<1>2. Polling
  BY DEF Polling, ExclusivePolling, Places, Holders
<1>3. OwnIds
  BY DEF OwnIds
<1>4. Mail
  BY DEF Mail, IdsResolve
<1> QED
  BY <1>1, <1>2, <1>3, <1>4 DEF IInv

-----------------------------------------------------------------------------
(* What does not disturb which part *)

\* Whoever has been served stays so, under the id it has.
Settled == Served \subseteq Served' /\ \A c \in Served : id'[c] = id[c]

LEMMA MessagesStay == ASSUME Settled PROVE Messages \subseteq Messages'
BY DEF Settled, Messages

LEMMA Unsettled == ASSUME UNCHANGED <<conn, id>> PROVE Settled
BY DEF Settled, Served

LEMMA HandshakeKept ==
    ASSUME Handshake, UNCHANGED <<conn, mpc, joining>>,
           stream' \in [Clients -> Seq(Letters)],
           client_count' = client_count \/ client_count' = client_count - 1
    PROVE  Handshake'
BY PlacesAssumption DEF Handshake, HandshakeFits, Served, CP!Full

LEMMA PollingKept ==
    ASSUME Polling, Settled, UNCHANGED <<c_queue, ppc, hand>>
    PROVE  Polling'
BY DEF Polling, Settled, ExclusivePolling, Places, Holders

LEMMA OwnIdsKept ==
    ASSUME OwnIds, UNCHANGED id,
           pool' = pool \/ \E i \in 1..MaxClients + 1 : pool' = [pool EXCEPT ![i] = NoClient]
    PROVE  OwnIds'
<1>1. pool' \in [1..MaxClients + 1 -> Clients \cup {NoClient}] /\ id' \in [Clients -> 0..255]
  BY DEF OwnIds
<1>2. ASSUME NEW i \in 1..MaxClients + 1, NEW c \in Clients, pool'[i] = c PROVE id'[c] = i
  BY <1>2, NoClientAssumption DEF OwnIds
<1> QED
  BY <1>1, <1>2 DEF OwnIds

\* A consumer that has resolved a sender may be wrong only about one that left.
LEMMA MailKept ==
    ASSUME Mail, Settled, UNCHANGED <<msg_queue, job, ref>>,
           \A c \in Served : InPool(c)' => InPool(c)
    PROVE  Mail'
<1>1. Messages \subseteq Messages'
  BY MessagesStay
<1>2. msg_queue' \in Seq(Messages') /\ job' \in [Consumers -> Messages' \cup {NoMsg}]
  BY <1>1 DEF Mail
<1>3. ASSUME NEW k \in Consumers, ref[k] # NoClient
      PROVE  job[k].sender \in Served
  BY <1>3, NoClientAssumption DEF Mail, Messages, NoMsg
<1>4. IdsResolve'
  BY <1>3 DEF Mail, IdsResolve, Settled
<1> QED
  BY <1>2, <1>4 DEF Mail

\* A read leaves letters on the streams.
LEMMA ReadKeepsLetters ==
    ASSUME Handshake, NEW c \in Clients, Read(c)
    PROVE  stream' \in [Clients -> Seq(Letters)] /\ Head(stream[c]) \in Letters
<1>1. stream[c] \in Seq(Letters) /\ stream[c] # << >>
  BY DEF Handshake, Read
<1>2. Head(stream[c]) \in Letters
  BY <1>1
<1>3. PICK n \in 1..Len(stream[c]) :
        stream' = [stream EXCEPT ![c] = SubSeq(@, n + 1, Len(@))]
  BY DEF Read
<1>4. SubSeq(stream[c], n + 1, Len(stream[c])) \in Seq(Letters)
  BY <1>1, <1>3
<1> QED
  BY <1>2, <1>3, <1>4 DEF Handshake

\* Removing a client only empties its place.
LEMMA RemoveIdStep ==
    ASSUME OwnIds, NEW i, RemoveId(i)
    PROVE  /\ \/ pool' = pool
              \/ \E n \in 1..MaxClients + 1 : pool' = [pool EXCEPT ![n] = NoClient]
           /\ client_count' = client_count \/ client_count' = client_count - 1
           /\ \A c \in Clients : InPool(c)' => InPool(c)
<1>1. CASE pool[i] = NoClient
  BY <1>1 DEF RemoveId, poolVars, InPool
<1>2. CASE pool[i] # NoClient
  <2>1. /\ i \in 1..MaxClients + 1
        /\ pool' = [pool EXCEPT ![i] = NoClient]
        /\ client_count' = client_count - 1
    BY <1>2 DEF RemoveId, CP!Remove, CP!InBounds, CP!Slots
  <2>2. \A c \in Clients : InPool(c)' => InPool(c)
    BY <2>1, PlacesAssumption, NoClientAssumption DEF OwnIds, InPool
  <2> QED
    BY <2>1, <2>2
<1> QED
  BY <1>1, <1>2

-----------------------------------------------------------------------------
(* The peers *)

LEMMA PeersStep == ASSUME IInv, Peers PROVE IInv'
<1>1. PICK c \in Clients :
        \/ Connect(c)
        \/ \E kind \in {"join", "other"}, from \in Writes(c) : Greet(c, kind, from)
        \/ \E kind \in Kinds, from \in Writes(c) : PeerSend(c, kind, from)
        \/ \E how \in {"closed", "reset"} : Leave(c, how)
  BY DEF Peers
<1>2. /\ UNCHANGED <<mpc, joining, id, client_count, pool, c_queue, ppc, hand,
                     msg_queue, job, ref>>
      /\ conn' = conn \/ (conn[c] = "away" /\ conn' = [conn EXCEPT ![c] = "backlog"])
  BY <1>1 DEF Connect, Greet, PeerSend, Leave, poolVars, mainVars, prodVars, consVars
<1>3. stream' \in [Clients -> Seq(Letters)]
  <2>1. stream[c] \in Seq(Letters) /\ stream \in [Clients -> Seq(Letters)]
    BY DEF IInv, Handshake
  <2>2. CASE Connect(c)
    BY <2>1, <2>2 DEF Connect
  <2>3. ASSUME NEW kind \in {"join", "other"}, NEW from \in Writes(c), Greet(c, kind, from)
        PROVE  stream' \in [Clients -> Seq(Letters)]
    <3>1. Letter(kind, from) \in Letters
      <4>1. kind \in AllKinds
        BY DEF AllKinds, PeerKinds, ToConsumers
      <4>2. id[c] \in 0..255
        BY DEF IInv, OwnIds
      <4>3. from \in 0..255
        BY <4>2, FromAssumption DEF Writes
      <4> QED
        BY <4>1, <4>3 DEF Letter, Letters
    <3>2. stream' = [stream EXCEPT ![c] = <<Letter(kind, from)>>]
      BY <2>3 DEF Greet
    <3>3. <<Letter(kind, from)>> \in Seq(Letters)
      BY <3>1
    <3> QED
      BY <2>1, <3>2, <3>3
  <2>4. ASSUME NEW kind \in Kinds, NEW from \in Writes(c), PeerSend(c, kind, from)
        PROVE  stream' \in [Clients -> Seq(Letters)]
    <3>1. Letter(kind, from) \in Letters
      <4>1. kind \in AllKinds
        BY KindsAssumption DEF AllKinds
      <4>2. id[c] \in 0..255
        BY DEF IInv, OwnIds
      <4>3. from \in 0..255
        BY <4>2, FromAssumption DEF Writes
      <4> QED
        BY <4>1, <4>3 DEF Letter, Letters
    <3>2. stream' = [stream EXCEPT ![c] = Append(@, Letter(kind, from))]
      BY <2>4 DEF PeerSend
    <3>3. Append(stream[c], Letter(kind, from)) \in Seq(Letters)
      BY <2>1, <3>1
    <3> QED
      BY <2>1, <3>2, <3>3
  <2>5. ASSUME NEW how \in {"closed", "reset"}, Leave(c, how)
        PROVE  stream' \in [Clients -> Seq(Letters)]
    BY <2>1, <2>5 DEF Leave
  <2> QED
    BY <1>1, <2>2, <2>3, <2>4, <2>5
<1>4. Settled /\ Served' = Served
  BY <1>2 DEF IInv, Handshake, Settled, Served
<1>5. Handshake'
  BY <1>2, <1>3, <1>4 DEF IInv, Handshake, HandshakeFits, CP!Full
<1>6. Polling'
  BY <1>2, <1>4, PollingKept DEF IInv
<1>7. OwnIds'
  BY <1>2, OwnIdsKept DEF IInv
<1>8. Mail'
  BY <1>2, <1>4, MailKept DEF IInv, InPool
<1> QED
  BY <1>5, <1>6, <1>7, <1>8 DEF IInv

-----------------------------------------------------------------------------
(* The main thread *)

\* Looking at a connection, or letting it go.
LEMMA AcceptStep ==
    ASSUME IInv, Deny \/ \E c \in Clients : Accept(c) PROVE IInv'
<1>1. /\ UNCHANGED <<id, client_count, pool, stream, c_queue, ppc, hand, msg_queue,
                     job, ref>>
      /\ Settled
  BY DEF Deny, Accept, IInv, Handshake, Settled, Served, poolVars, peerVars, prodVars,
         consVars
<1>2. Handshake'
  <2>1. CASE Deny
    BY <1>1, <2>1 DEF Deny, IInv, Handshake, HandshakeFits
  <2>2. ASSUME NEW c \in Clients, Accept(c) PROVE Handshake'
    BY <1>1, <2>2 DEF Accept, IInv, Handshake, HandshakeFits, Served, CP!Full
  <2> QED
    BY <2>1, <2>2
<1>3. Polling'
  BY <1>1, PollingKept DEF IInv
<1>4. OwnIds'
  BY <1>1, OwnIdsKept DEF IInv
<1>5. Mail'
  BY <1>1, MailKept DEF IInv, InPool
<1> QED
  BY <1>2, <1>3, <1>4, <1>5 DEF IInv

LEMMA JoinStep == ASSUME IInv, Books, Join PROVE IInv'
<1>1. /\ mpc = "join" /\ mpc' = "confirm"
      /\ joining \in Clients \ Served
      /\ Read(joining)
      /\ UNCHANGED <<joining, c_queue, ppc, hand, msg_queue, job, ref>>
  BY DEF Join, IInv, Handshake, prodVars, consVars
<1>2. ~ CP!Full
  BY <1>1 DEF IInv, Handshake, HandshakeFits
<1>3. /\ \A i \in 1..MaxClients + 1 : pool[i] # joining
      /\ pool' = [pool EXCEPT ![Head(empty_queue)] = joining]
      /\ client_count' = client_count + 1
      /\ id' = [id EXCEPT ![joining] = Head(empty_queue)]
      /\ conn' = [conn EXCEPT ![joining] = "numbered"]
  BY <1>2 DEF Join, CP!CreateAndAddClient, CP!Slots
<1>4. Settled /\ Served' = Served
  BY <1>1, <1>3 DEF IInv, Handshake, Settled, Served, OwnIds
<1>5. Handshake'
  <2>1. stream' \in [Clients -> Seq(Letters)]
    BY <1>1, ReadKeepsLetters DEF IInv
  <2>2. client_count' \in Int
    BY <1>3 DEF IInv, Handshake
  <2>3. conn' \in [Clients -> {"away", "backlog", "accepted", "numbered", "served", "gone"}]
    BY <1>1, <1>3 DEF IInv, Handshake
  <2>4. /\ mpc' \in {"accept", "join", "confirm"} /\ mpc' # "join"
        /\ mpc' # "accept" => joining' \in Clients \ Served'
    BY <1>1, <1>3, <1>4
  <2> QED
    BY <2>1, <2>2, <2>3, <2>4 DEF Handshake, HandshakeFits
<1>6. Polling'
  BY <1>1, <1>4, PollingKept DEF IInv
<1>7. OwnIds'
  <2>1. Head(empty_queue) \in 1..MaxClients
    <3>1. empty_queue \in Seq(1..MaxClients) /\ client_count + Len(empty_queue) = MaxClients
      BY DEF Books, C!IInv, C!TypeOK, C!Occupancy, C!Ids
    <3>2. client_count \in Int /\ client_count < MaxClients
      BY <1>2, PlacesAssumption DEF CP!Full, IInv, Handshake
    <3> QED
      BY <3>1, <3>2, PlacesAssumption
  <2>2. id' \in [Clients -> 0..255]
    <3>1. id \in [Clients -> 0..255]
      BY DEF IInv, OwnIds
    <3>2. ASSUME NEW i \in 1..MaxClients PROVE i \in 0..255
      BY PlacesAssumption
    <3> QED
      BY <1>3, <2>1, <3>1, <3>2
  <2> QED
    BY <1>1, <1>3, <2>2, NoClientAssumption DEF IInv, OwnIds
<1>8. Mail'
  <2>1. \A c \in Served : InPool(c)' => InPool(c)
    BY <1>1, <1>3, PlacesAssumption DEF IInv, OwnIds, InPool, Served
  <2> QED
    BY <1>1, <1>4, <2>1, MailKept DEF IInv
<1> QED
  BY <1>5, <1>6, <1>7, <1>8 DEF IInv

\* The handshake has ended well: the client is put into the queue, where it was not.
LEMMA ConfirmStep == ASSUME IInv, Confirm PROVE IInv'
<1>1. /\ joining \in Clients \ Served
      /\ mpc' = "accept"
      /\ conn' = [conn EXCEPT ![joining] = "served"]
      /\ c_queue' = Append(c_queue, joining)
      /\ UNCHANGED <<pool, client_count, id, ppc, hand, msg_queue, job, ref>>
  BY DEF Confirm, EndHandshake, IInv, Handshake, poolVars, prodVars, consVars
<1>2. Settled /\ Served' = Served \cup {joining}
  BY <1>1 DEF IInv, Handshake, Settled, Served
<1>3. Handshake'
  <2>1. stream' \in [Clients -> Seq(Letters)]
    BY <1>1, ReadKeepsLetters DEF IInv, Handshake, Confirm, Failed, peerVars
  <2> QED
    BY <1>1, <2>1 DEF IInv, Handshake, HandshakeFits
<1>4. Polling'
  <2>1. c_queue \in Seq(Served) /\ c_queue' \in Seq(Served')
    <3>1. c_queue \in Seq(Served) /\ c_queue \in Seq(Served')
      BY <1>2 DEF IInv, Polling
    <3> QED
      BY <1>1, <1>2, <3>1
  <2>2. /\ DOMAIN c_queue' = 1..Len(c_queue) + 1
        /\ \A n \in 1..Len(c_queue) : c_queue'[n] = c_queue[n] /\ c_queue[n] \in Served
        /\ c_queue'[Len(c_queue) + 1] = joining
        /\ Len(c_queue) \in Nat /\ DOMAIN c_queue = 1..Len(c_queue)
    BY <1>1, <2>1
  <2>3. ASSUME NEW c \in Clients, c # joining
        PROVE  Places(c)' = Places(c) /\ Holders(c)' = Holders(c)
    BY <1>1, <2>2, <2>3 DEF Places, Holders
  <2>4. ASSUME NEW c \in Clients, c = joining
        PROVE  Places(c)' = {Len(c_queue) + 1} /\ Holders(c)' = {}
    <3>1. Places(c)' = {Len(c_queue) + 1}
      BY <1>1, <2>2, <2>4 DEF Places
    <3>2. Holders(c)' = {}
      BY <1>1, <2>4, NoClientAssumption DEF IInv, Polling, Holders
    <3> QED
      BY <3>1, <3>2
  <2>5. ExclusivePolling'
    <3> SUFFICES ASSUME NEW c \in Clients
                 PROVE  /\ \A m, n \in Places(c)' : m = n
                        /\ \A p, q \in Holders(c)' : p = q
                        /\ Places(c)' = {} \/ Holders(c)' = {}
      BY DEF ExclusivePolling
    <3>1. CASE c = joining
      BY <1>1, <2>4, <3>1
    <3>2. CASE c # joining
      BY <2>3, <3>2 DEF IInv, Polling, ExclusivePolling
    <3> QED
      BY <3>1, <3>2
  <2> QED
    BY <1>1, <1>2, <2>1, <2>5 DEF IInv, Polling
<1>5. OwnIds'
  BY <1>1, OwnIdsKept DEF IInv
<1>6. Mail'
  BY <1>1, <1>2, MailKept DEF IInv, InPool
<1> QED
  BY <1>3, <1>4, <1>5, <1>6 DEF IInv

LEMMA FailConfirmStep == ASSUME IInv, FailConfirm PROVE IInv'
<1>1. /\ joining \in Clients \ Served
      /\ mpc' = "accept"
      /\ conn' = [conn EXCEPT ![joining] = "gone"]
      /\ Read(joining)
      /\ RemoveId(id[joining])
      /\ UNCHANGED <<id, c_queue, ppc, hand, msg_queue, job, ref>>
  BY DEF FailConfirm, EndHandshake, IInv, Handshake, prodVars, consVars
<1>2. Settled
  BY <1>1 DEF IInv, Handshake, Settled, Served
<1>3. /\ \/ pool' = pool
         \/ \E n \in 1..MaxClients + 1 : pool' = [pool EXCEPT ![n] = NoClient]
      /\ client_count' = client_count \/ client_count' = client_count - 1
      /\ \A c \in Served : InPool(c)' => InPool(c)
  BY <1>1, RemoveIdStep DEF IInv, Served
<1>4. Handshake'
  <2>1. stream' \in [Clients -> Seq(Letters)]
    BY <1>1, ReadKeepsLetters DEF IInv
  <2>2. client_count' \in Int
    BY <1>3 DEF IInv, Handshake
  <2>3. conn' \in [Clients -> {"away", "backlog", "accepted", "numbered", "served", "gone"}]
    BY <1>1, <1>3 DEF IInv, Handshake
  <2>4. /\ mpc' \in {"accept", "join", "confirm"} /\ mpc' # "join"
        /\ mpc' # "accept" => joining' \in Clients \ Served'
    BY <1>1, <1>3
  <2> QED
    BY <2>1, <2>2, <2>3, <2>4 DEF Handshake, HandshakeFits
<1>5. Polling'
  BY <1>1, <1>2, PollingKept DEF IInv
<1>6. OwnIds'
  BY <1>1, <1>3, OwnIdsKept DEF IInv
<1>7. Mail'
  BY <1>1, <1>2, <1>3, MailKept DEF IInv
<1> QED
  BY <1>4, <1>5, <1>6, <1>7 DEF IInv

-----------------------------------------------------------------------------
(* A producer *)

\* A step of a producer that reads nothing and produces nothing.
LEMMA HandlingStep ==
    ASSUME IInv, Polling', UNCHANGED <<poolVars, mainVars, conn, peerVars, consVars, msg_queue>>
    PROVE  IInv'
<1>1. /\ UNCHANGED <<pool, client_count, mpc, joining, id, conn, stream, job, ref, msg_queue>>
      /\ stream' \in [Clients -> Seq(Letters)]
  BY DEF IInv, Handshake, poolVars, mainVars, peerVars, consVars
<1>2. Settled
  BY <1>1, Unsettled
<1>3. Handshake'
  BY <1>1, HandshakeKept DEF IInv
<1>4. OwnIds'
  BY <1>1, OwnIdsKept DEF IInv
<1>5. Mail'
  BY <1>1, <1>2, MailKept DEF IInv, InPool
<1> QED
  BY <1>3, <1>4, <1>5 DEF IInv

\* The first client leaves the queue, where it stood once and nobody held it.
LEMMA TakeClientStep == ASSUME IInv, NEW p \in Producers, TakeClient(p) PROVE IInv'
<1> DEFINE h == Head(c_queue)
<1>1. /\ ppc[p] = "idle" /\ c_queue # << >> /\ c_queue' = Tail(c_queue)
      /\ \/ hand' = [hand EXCEPT ![p] = h] /\ ppc' = [ppc EXCEPT ![p] = "polling"]
         \/ UNCHANGED <<hand, ppc>>
      /\ UNCHANGED <<conn, poolVars, mainVars, peerVars, consVars, msg_queue>>
  BY DEF TakeClient
<1>2. /\ c_queue \in Seq(Served) /\ Len(c_queue) \in Nat \ {0} /\ h = c_queue[1]
      /\ h \in Served /\ c_queue' \in Seq(Served)
      /\ DOMAIN c_queue = 1..Len(c_queue) /\ DOMAIN c_queue' = 1..Len(c_queue) - 1
      /\ \A n \in 1..Len(c_queue) - 1 : c_queue'[n] = c_queue[n + 1]
  BY <1>1 DEF IInv, Polling
<1>3. Served' = Served /\ h \in Clients /\ h # NoClient
  BY <1>1, <1>2, NoClientAssumption DEF Served
<1>4. /\ ppc' \in [Producers -> {"idle", "polling", "readding", "dropping"}]
      /\ hand' \in [Producers -> Served \cup {NoClient}]
      /\ \A q \in Producers : hand'[q] = NoClient <=> ppc'[q] = "idle"
  BY <1>1, <1>2, <1>3 DEF IInv, Polling
<1>5. /\ Places(h) # {} /\ Holders(h) = {}
      /\ \A n \in 2..Len(c_queue) : c_queue[n] # h
  <2>1. /\ \A m, n \in Places(h) : m = n
        /\ Places(h) = {} \/ Holders(h) = {}
    BY <1>3 DEF IInv, Polling, ExclusivePolling
  <2>2. 1 \in Places(h)
    BY <1>2 DEF Places
  <2>3. \A n \in 2..Len(c_queue) : n \notin Places(h) /\ n \in DOMAIN c_queue
    BY <1>2, <2>1, <2>2
  <2> QED
    BY <2>1, <2>2, <2>3 DEF Places
<1> HIDE DEF h
<1>6. ExclusivePolling'
  <2> SUFFICES ASSUME NEW c \in Clients
               PROVE  /\ \A m, n \in Places(c)' : m = n
                      /\ \A q, r \in Holders(c)' : q = r
                      /\ Places(c)' = {} \/ Holders(c)' = {}
    BY DEF ExclusivePolling
  <2>1. \A n \in Places(c)' : n \in 1..Len(c_queue) - 1 /\ n + 1 \in Places(c)
    BY <1>2 DEF Places
  <2>2. /\ \A m, n \in Places(c) : m = n
        /\ \A q, r \in Holders(c) : q = r
        /\ Places(c) = {} \/ Holders(c) = {}
    BY DEF IInv, Polling, ExclusivePolling
  <2>3. \A m, n \in Places(c)' : m = n
    <3> SUFFICES ASSUME NEW m \in Places(c)', NEW n \in Places(c)' PROVE m = n
      OBVIOUS
    <3>1. m + 1 = n + 1 /\ m \in Int /\ n \in Int
      BY <1>2, <2>1, <2>2
    <3> QED
      BY <3>1
  <2>4. CASE c = h
    <3>1. Places(c)' = {}
      BY <1>2, <1>5, <2>4 DEF Places
    <3>2. \A q \in Holders(c)' : q = p
      BY <1>1, <1>5, <2>4 DEF Holders, IInv, Polling
    <3> QED
      BY <3>1, <3>2
  <2>5. CASE c # h
    <3>1. Holders(c)' \subseteq Holders(c)
      BY <1>1, <2>5 DEF Holders, IInv, Polling
    <3> QED
      BY <2>1, <2>2, <2>3, <3>1
  <2> QED
    BY <2>4, <2>5
<1> QED
  BY <1>1, <1>2, <1>3, <1>4, <1>6, HandlingStep DEF Polling

LEMMA DropStep == ASSUME IInv, NEW p \in Producers, Drop(p) PROVE IInv'
<1>1. /\ ppc[p] = "dropping" /\ c_queue' = c_queue
      /\ hand' = [hand EXCEPT ![p] = NoClient] /\ ppc' = [ppc EXCEPT ![p] = "idle"]
      /\ UNCHANGED <<conn, poolVars, mainVars, peerVars, consVars, msg_queue>>
  BY DEF Drop
<1>2. Served' = Served
  BY <1>1 DEF Served
<1>3. ASSUME NEW c \in Clients
      PROVE  Places(c)' = Places(c) /\ Holders(c)' \subseteq Holders(c)
  BY <1>1, NoClientAssumption DEF Places, Holders, IInv, Polling
<1>4. ExclusivePolling'
  <2>1. \A c \in Clients : Places(c)' = Places(c) /\ Holders(c)' \subseteq Holders(c)
    BY <1>3
  <2> QED
    BY <2>1 DEF IInv, Polling, ExclusivePolling
<1> QED
  BY <1>1, <1>2, <1>4, HandlingStep DEF IInv, Polling

\* The client is put back: the producer held it, so it was not in the queue.
LEMMA ReAddStep == ASSUME IInv, NEW p \in Producers, ReAdd(p) PROVE IInv'
<1>1. PICK h \in Served : h = hand[p] /\ h \in Clients
  BY DEF ReAdd, IInv, Polling, Served
<1>2. /\ ppc[p] = "readding" /\ c_queue' = Append(c_queue, h)
      /\ hand' = hand /\ ppc' = [ppc EXCEPT ![p] = "dropping"]
      /\ UNCHANGED <<conn, poolVars, mainVars, peerVars, consVars, msg_queue>>
  BY <1>1 DEF ReAdd, GiveUp
<1>3. Served' = Served
  BY <1>2 DEF Served
<1>4. /\ c_queue' \in Seq(Served)
      /\ Len(c_queue) \in Nat /\ DOMAIN c_queue = 1..Len(c_queue)
      /\ DOMAIN c_queue' = 1..Len(c_queue) + 1
      /\ \A n \in 1..Len(c_queue) : c_queue'[n] = c_queue[n]
      /\ c_queue'[Len(c_queue) + 1] = h
  BY <1>1, <1>2 DEF IInv, Polling
<1>5. /\ Holders(h) = {p} /\ Places(h) = {}
  <2>1. p \in Holders(h)
    BY <1>1, <1>2 DEF Holders
  <2> QED
    BY <1>1, <2>1 DEF IInv, Polling, ExclusivePolling
<1>6. ExclusivePolling'
  <2> SUFFICES ASSUME NEW c \in Clients
               PROVE  /\ \A m, n \in Places(c)' : m = n
                      /\ \A q, r \in Holders(c)' : q = r
                      /\ Places(c)' = {} \/ Holders(c)' = {}
    BY DEF ExclusivePolling
  <2>1. CASE c = h
    <3>1. \A n \in Places(c)' : n = Len(c_queue) + 1
      BY <1>4, <1>5, <2>1 DEF Places
    <3>2. Holders(c)' = {}
      <4>1. ASSUME NEW q \in Holders(c)' PROVE FALSE
        <5>1. q \in Holders(h) /\ ppc'[q] # "dropping"
          BY <1>2, <2>1 DEF Holders, IInv, Polling
        <5> QED
          BY <1>2, <1>5, <5>1 DEF IInv, Polling
      <4> QED
        BY <4>1
    <3> QED
      BY <3>1, <3>2
  <2>2. CASE c # h
    <3>1. Places(c)' = Places(c)
      BY <1>4, <2>2 DEF Places
    <3>2. Holders(c)' \subseteq Holders(c)
      BY <1>2 DEF Holders, IInv, Polling
    <3> QED
      BY <3>1, <3>2 DEF IInv, Polling, ExclusivePolling
  <2> QED
    BY <2>1, <2>2
<1>7. /\ ppc' \in [Producers -> {"idle", "polling", "readding", "dropping"}]
      /\ \A q \in Producers : hand'[q] = NoClient <=> ppc'[q] = "idle"
  BY <1>2 DEF IInv, Polling
<1> QED
  BY <1>2, <1>3, <1>4, <1>6, <1>7, HandlingStep DEF IInv, Polling

\* What a producer has heard of the client it holds, and what it does then.
LEMMA PollIs ==
    ASSUME IInv, NEW p \in Producers, Poll(p)
    PROVE  \E h \in Served, m \in Letters :
              /\ h \in Clients /\ h = hand[p] /\ ppc[p] = "polling"
              /\ ReceiveFrom(h, m)
              /\ stream' \in [Clients -> Seq(Letters)]
              /\ stream[h] # << >> \/ m.from = id[h]
              /\ \/ Receive(p, m) \/ ReceiveClosed(p, m) \/ ReceiveTimeout(p, m)
                 \/ ReceiveError(p, m) \/ ReceiveUnknown(p, m)
<1>1. ppc[p] = "polling"
  BY DEF Poll
<1>2. PICK h \in Served : h = hand[p] /\ h \in Clients
  BY <1>1 DEF IInv, Polling, Served
<1>3. PICK m \in Heard(h) :
        \/ Receive(p, m) \/ ReceiveClosed(p, m) \/ ReceiveTimeout(p, m)
        \/ ReceiveError(p, m) \/ ReceiveUnknown(p, m)
  BY <1>2 DEF Poll
<1>4. ReceiveFrom(h, m)
  BY <1>2, <1>3 DEF Receive, ReceiveClosed, ReceiveTimeout, ReceiveError, ReceiveUnknown
<1>5. CASE stream[h] # << >>
  <2>1. Read(h)
    BY <1>4, <1>5 DEF ReceiveFrom, Ended, TimedOut, Failed
  <2>2. m = Head(stream[h])
    BY <1>5 DEF Heard
  <2>3. m \in Letters /\ stream' \in [Clients -> Seq(Letters)]
    BY <1>2, <2>1, <2>2, ReadKeepsLetters DEF IInv
  <2> QED
    BY <1>1, <1>2, <1>3, <1>4, <1>5, <2>3
<1>6. CASE stream[h] = << >>
  <2>1. UNCHANGED stream
    BY <1>4, <1>6 DEF ReceiveFrom, Read, TimedOut, Failed, peerVars
  <2>2. PICK kind \in {"error_closed", "error_timed_out"} : m = Letter(kind, id[h])
    BY <1>6 DEF Heard
  <2>3. m \in Letters /\ m.from = id[h]
    BY <1>2, <2>2 DEF IInv, OwnIds, Letter, Letters, AllKinds, PeerKinds, Errors
  <2> QED
    BY <1>1, <1>2, <1>3, <1>4, <2>1, <2>3 DEF IInv, Handshake
<1> QED
  BY <1>5, <1>6

\* A message that is produced comes behind the others.
LEMMA Produced ==
    ASSUME IInv, NEW p \in Producers, NEW h \in Served, NEW m \in Letters, h = hand[p],
           \/ Receive(p, m) \/ ReceiveClosed(p, m) \/ ReceiveTimeout(p, m)
           \/ ReceiveError(p, m) \/ ReceiveUnknown(p, m)
    PROVE  \/ msg_queue' = msg_queue
           \/ \E msg \in Messages : msg_queue' = Append(msg_queue, msg)
<1>1. h \in Clients /\ id[h] \in 0..255 /\ m.kind \in AllKinds /\ m.from \in 0..255
  BY DEF Served, IInv, OwnIds, Letters
<1>2. \A kind \in AllKinds, from \in 0..255 : Msg(h, kind, from) \in Messages
  BY DEF Messages, Msg
<1>3. {"game_closed", "closed", "timed_out", "game_timed_out"} \subseteq AllKinds
  BY DEF AllKinds, PeerKinds, ToConsumers
<1>4. CASE Receive(p, m)
  BY <1>1, <1>2, <1>4 DEF Receive, Produce
<1>5. CASE ReceiveClosed(p, m)
  BY <1>1, <1>2, <1>3, <1>5 DEF ReceiveClosed, Produce
<1>6. CASE ReceiveTimeout(p, m)
  BY <1>1, <1>2, <1>3, <1>6 DEF ReceiveTimeout, Produce
<1>7. CASE ReceiveError(p, m) \/ ReceiveUnknown(p, m)
  BY <1>7 DEF ReceiveError, ReceiveUnknown
<1> QED
  BY <1>4, <1>5, <1>6, <1>7

\* What a producer does with what it has heard.
LEMMA ReadingStep == ASSUME IInv, NEW p \in Producers, Poll(p) PROVE IInv'
<1>1. PICK h \in Served, m \in Letters :
        /\ h \in Clients /\ h = hand[p] /\ ppc[p] = "polling"
        /\ stream' \in [Clients -> Seq(Letters)]
        /\ \/ Receive(p, m) \/ ReceiveClosed(p, m) \/ ReceiveTimeout(p, m)
           \/ ReceiveError(p, m) \/ ReceiveUnknown(p, m)
  BY PollIs
<1>2. /\ \E to \in {"readding", "dropping"} : ppc' = [ppc EXCEPT ![p] = to]
      /\ UNCHANGED <<hand, c_queue, pool, client_count, conn, mpc, joining, id, job, ref>>
  BY <1>1 DEF Receive, ReceiveClosed, ReceiveTimeout, ReceiveError, ReceiveUnknown, GiveUp,
              Again, poolVars, mainVars, consVars
<1>3. Settled /\ Served' = Served
  BY <1>2, Unsettled DEF Served
<1>4. Handshake'
  BY <1>1, <1>2, HandshakeKept DEF IInv
<1>5. Polling'
  <2>1. \A c \in Clients : Places(c)' = Places(c) /\ Holders(c)' \subseteq Holders(c)
    BY <1>1, <1>2 DEF Places, Holders, IInv, Polling
  <2>2. ExclusivePolling'
    BY <2>1 DEF IInv, Polling, ExclusivePolling
  <2>3. /\ ppc' \in [Producers -> {"idle", "polling", "readding", "dropping"}]
        /\ \A q \in Producers : hand'[q] = NoClient <=> ppc'[q] = "idle"
    BY <1>1, <1>2 DEF IInv, Polling
  <2> QED
    BY <1>2, <1>3, <2>2, <2>3 DEF IInv, Polling
<1>6. OwnIds'
  BY <1>2, OwnIdsKept DEF IInv
<1>7. Mail'
  <2>1. Messages' = Messages
    BY <1>3 DEF Messages
  <2>2. msg_queue' \in Seq(Messages')
    <3>1. msg_queue \in Seq(Messages)
      BY DEF IInv, Mail
    <3>2. \/ msg_queue' = msg_queue
          \/ \E msg \in Messages : msg_queue' = Append(msg_queue, msg)
      BY <1>1, Produced
    <3> QED
      BY <2>1, <3>1, <3>2
  <2>3. IdsResolve'
    BY <1>2 DEF IInv, Mail, IdsResolve, InPool
  <2> QED
    BY <1>2, <2>1, <2>2, <2>3 DEF IInv, Mail
<1> QED
  BY <1>4, <1>5, <1>6, <1>7 DEF IInv

-----------------------------------------------------------------------------
(* A consumer *)

\* A consumer leaves the main thread, the producers and the streams alone, and at
\* most takes a client out of the pool.
LEMMA ConsumerStep ==
    ASSUME IInv, Mail',
           UNCHANGED <<mainVars, conn, peerVars, prodVars, c_queue>>,
           UNCHANGED poolVars \/ \E i : RemoveId(i)
    PROVE  IInv'
<1>1. /\ UNCHANGED <<mpc, joining, id, conn, stream, c_queue, ppc, hand>>
      /\ stream' \in [Clients -> Seq(Letters)]
  BY DEF IInv, Handshake, mainVars, peerVars, prodVars
<1>2. Settled
  BY <1>1, Unsettled
<1>3. /\ \/ pool' = pool
         \/ \E n \in 1..MaxClients + 1 : pool' = [pool EXCEPT ![n] = NoClient]
      /\ client_count' = client_count \/ client_count' = client_count - 1
  <2>1. CASE UNCHANGED poolVars
    BY <2>1 DEF poolVars
  <2>2. ASSUME NEW i, RemoveId(i)
        PROVE  /\ \/ pool' = pool
                  \/ \E n \in 1..MaxClients + 1 : pool' = [pool EXCEPT ![n] = NoClient]
               /\ client_count' = client_count \/ client_count' = client_count - 1
    BY <2>2, RemoveIdStep DEF IInv
  <2> QED
    BY <2>1, <2>2
<1>4. Handshake'
  BY <1>1, <1>3, HandshakeKept DEF IInv
<1>5. Polling'
  BY <1>1, <1>2, PollingKept DEF IInv
<1>6. OwnIds'
  BY <1>1, <1>3, OwnIdsKept DEF IInv
<1> QED
  BY <1>4, <1>5, <1>6 DEF IInv

LEMMA TakeMessageStep == ASSUME IInv, NEW k \in Consumers, TakeMessage(k) PROVE IInv'
<1>1. /\ job[k] = NoMsg /\ msg_queue # << >>
      /\ job' = [job EXCEPT ![k] = Head(msg_queue)] /\ msg_queue' = Tail(msg_queue)
      /\ UNCHANGED <<ref, poolVars, mainVars, conn, peerVars, prodVars, c_queue>>
  BY DEF TakeMessage
<1>2. Messages' = Messages
  BY <1>1 DEF Messages, Served, mainVars
<1>3. Head(msg_queue) \in Messages /\ Tail(msg_queue) \in Seq(Messages)
  BY <1>1 DEF IInv, Mail
<1>4. \A m \in Messages : m # NoMsg
  BY DEF Messages, NoMsg, AllKinds, PeerKinds, ToConsumers, Errors
<1>5. \A j \in Consumers : ref[j] # NoClient => job'[j] = job[j]
  BY <1>1 DEF IInv, Mail
<1>6. IdsResolve'
  BY <1>1, <1>5 DEF IInv, Mail, IdsResolve, InPool, poolVars, mainVars
<1>7. Mail'
  BY <1>1, <1>2, <1>3, <1>5, <1>6 DEF IInv, Mail
<1> QED
  BY <1>1, <1>7, ConsumerStep

\* The client under the id in the message: the sender, if that is its id and it has
\* not left.
LEMMA LookUpStep == ASSUME IInv, NEW k \in Consumers, LookUp(k) PROVE IInv'
<1> DEFINE found == CP!Get(job[k].from)
<1>1. /\ job[k] # NoMsg /\ ref[k] = NoClient
      /\ ref' = [ref EXCEPT ![k] = found]
      /\ job' = [job EXCEPT ![k] = IF found = NoClient THEN NoMsg ELSE @]
      /\ UNCHANGED <<msg_queue, poolVars, mainVars, conn, peerVars, prodVars, c_queue>>
  BY DEF LookUp
<1>2. Messages' = Messages
  BY <1>1 DEF Messages, Served, mainVars
<1>3. job[k].sender \in Clients
  BY <1>1 DEF IInv, Mail, Messages, Served
<1>4. found \in Clients \cup {NoClient}
  BY DEF IInv, OwnIds, CP!Get, CP!InBounds, CP!Slots
<1>5. InPool(job[k].sender) /\ job[k].from = id[job[k].sender] => found = job[k].sender
  <2> SUFFICES ASSUME NEW i \in 1..MaxClients, pool[i] = job[k].sender,
                      job[k].from = id[job[k].sender]
               PROVE  found = job[k].sender
    BY DEF InPool
  <2>1. i \in 1..MaxClients + 1
    BY PlacesAssumption
  <2>2. job[k].from = i
    BY <1>3, <2>1 DEF IInv, OwnIds
  <2> QED
    BY <2>1, <2>2 DEF CP!Get, CP!InBounds, CP!Slots
<1> HIDE DEF found
<1>6. /\ job' \in [Consumers -> Messages \cup {NoMsg}]
      /\ ref' \in [Consumers -> Clients \cup {NoClient}]
      /\ \A j \in Consumers : ref'[j] # NoClient => job'[j] = job[j] /\ job'[j] # NoMsg
  BY <1>1, <1>4 DEF IInv, Mail
<1>7. IdsResolve'
  <2> SUFFICES ASSUME NEW j \in Consumers, ref'[j] # NoClient, ref'[j] # job[j].sender,
                      InPool(job[j].sender)
               PROVE  job[j].from # id[job[j].sender]
    BY <1>1, <1>6 DEF IdsResolve, InPool, poolVars, mainVars
  <2>1. CASE j = k
    BY <1>1, <1>5, <1>6, <2>1 DEF IInv, Mail
  <2>2. CASE j # k
    BY <1>1, <1>6, <2>2 DEF IInv, Mail, IdsResolve
  <2> QED
    BY <2>1, <2>2
<1>8. Mail'
  BY <1>1, <1>2, <1>6, <1>7 DEF IInv, Mail
<1> QED
  BY <1>1, <1>8, ConsumerStep

\* A message has been handled, or another step has been taken on its behalf.
LEMMA HandleStep ==
    ASSUME IInv, NEW k \in Consumers, Done(k) \/ UNCHANGED consVars,
           UNCHANGED <<mainVars, conn, peerVars, prodVars, c_queue, msg_queue>>,
           UNCHANGED poolVars \/ \E i : RemoveId(i)
    PROVE  IInv'
<1>1. Messages' = Messages
  BY DEF Messages, Served, mainVars
<1>2. \A c \in Clients : InPool(c)' => InPool(c)
  <2>1. CASE UNCHANGED poolVars
    BY <2>1 DEF poolVars, InPool
  <2>2. ASSUME NEW i, RemoveId(i) PROVE \A c \in Clients : InPool(c)' => InPool(c)
    BY <2>2, RemoveIdStep DEF IInv
  <2> QED
    BY <2>1, <2>2
<1>3. /\ job' \in [Consumers -> Messages \cup {NoMsg}]
      /\ ref' \in [Consumers -> Clients \cup {NoClient}]
      /\ \A j \in Consumers :
            ref'[j] # NoClient => ref'[j] = ref[j] /\ job'[j] = job[j] /\ job[j] # NoMsg
  BY DEF IInv, Mail, Done, consVars
<1>4. ASSUME NEW j \in Consumers, ref'[j] # NoClient, ref'[j] # job'[j].sender,
             InPool(job[j].sender)'
      PROVE  job'[j].from # id'[job'[j].sender]
  <2>1. ref[j] # NoClient /\ ref[j] # job[j].sender /\ job'[j] = job[j] /\ job[j] # NoMsg
    BY <1>3, <1>4
  <2>2. job[j].sender \in Clients
    BY <2>1 DEF IInv, Mail, Messages, Served
  <2>3. InPool(job[j].sender)
    BY <1>2, <1>4, <2>1, <2>2 DEF InPool
  <2> QED
    BY <2>1, <2>3 DEF IInv, Mail, IdsResolve, mainVars
<1>5. IdsResolve'
  BY <1>4 DEF IdsResolve
<1>6. Mail'
  BY <1>1, <1>3, <1>5 DEF IInv, Mail
<1> QED
  BY <1>6, ConsumerStep

-----------------------------------------------------------------------------
LEMMA NextIInv == IInv /\ Books /\ [Next]_vars => IInv'
<1> SUFFICES ASSUME IInv, Books, [Next]_vars PROVE IInv'
  OBVIOUS
<1>1. CASE Peers
  BY <1>1, PeersStep
<1>2. CASE Main
  BY <1>2, AcceptStep, JoinStep, ConfirmStep, FailConfirmStep DEF Main, MainAlone
<1>3. ASSUME NEW p \in Producers, Producer(p) PROVE IInv'
  BY <1>3, TakeClientStep, ReadingStep, ReAddStep, DropStep DEF Producer
<1>4. ASSUME NEW k \in Consumers, Consumer(k) PROVE IInv'
  <2>1. CASE TakeMessage(k)
    BY <2>1, TakeMessageStep
  <2>2. CASE LookUp(k)
    BY <2>2, LookUpStep
  <2>3. CASE RemoveClient(k)
    BY <2>3, HandleStep DEF RemoveClient
  <2>4. CASE Reply(k) \/ TellGame(k)
    BY <2>4, HandleStep DEF Reply, TellGame
  <2>5. CASE Ready(k)
    BY <2>5, HandleStep DEF Ready
  <2>6. CASE MakeGame(k) \/ MakeWait(k)
    BY <2>6, HandleStep DEF MakeGame, MakeWait
  <2>7. CASE Announce(k)
    BY <2>7, HandleStep DEF Announce
  <2> QED
    BY <1>4, <2>1, <2>2, <2>3, <2>4, <2>5, <2>6, <2>7 DEF Consumer, ConsumerAlone
<1>5. CASE UNCHANGED vars
  <2>1. /\ UNCHANGED <<poolVars, mainVars, conn, peerVars, consVars, msg_queue>>
        /\ UNCHANGED <<c_queue, ppc, hand>>
    BY <1>5 DEF vars, prodVars
  <2>2. Polling'
    BY <2>1, Unsettled, PollingKept DEF IInv, mainVars
  <2> QED
    BY <2>1, <2>2, HandlingStep
<1> QED
  BY <1>1, <1>2, <1>3, <1>4, <1>5 DEF Next, Running

-----------------------------------------------------------------------------
(* Each pool keeps its own books, as its own module proves, whatever the other *)
(* parts do.                                                                   *)

\* create_and_add_client, as the main thread calls it.
LEMMA ClientJoins ==
    ASSUME C!IInv, NEW c \in Clients, CP!CreateAndAddClient(c) PROVE C!IInv'
<1>1. C!CreateAndAddClient(c)
  BY DEF CP!CreateAndAddClient, C!CreateAndAddClient, CP!Full, C!Full, CP!Slots, C!Slots,
         CP!Listing, C!Listing
<1> QED
  BY <1>1, PoolsFit, C!CreateStep

\* Clients leave the pool, or stay, and their status is written by others.
LEMMA ClientsKept ==
    ASSUME C!IInv, status' \in [Clients -> C!Statuses],
           UNCHANGED poolVars \/ \E i : RemoveId(i) /\ UNCHANGED status
    PROVE  C!IInv'
<1>1. CASE UNCHANGED poolVars
  <2>1. UNCHANGED <<pool, empty_queue, client_count, cl_cache>>
    BY <1>1 DEF poolVars
  <2>2. C!Used' = C!Used
    BY <2>1 DEF C!Used
  <2> QED
    BY <2>1, <2>2 DEF C!IInv, C!TypeOK, C!FreeIds, C!Occupancy, C!CacheFollowsPool,
       C!LastSlotUnused
<1>2. ASSUME NEW i, RemoveId(i), ~ UNCHANGED poolVars PROVE C!IInv'
  <2>1. C!Remove(i)
    BY <1>2 DEF RemoveId, CP!Remove, C!Remove, CP!InBounds, C!InBounds, CP!Slots, C!Slots,
       CP!EmptyListing, C!EmptyListing
  <2> QED
    BY <2>1, PoolsFit, C!RemoveStep
<1> QED
  BY <1>1, <1>2

\* A step that does nothing in the game pool.
LEMMA GamesKept ==
    ASSUME G!IInv, UNCHANGED <<gameVars, crashed>>, status' \in [Clients -> G!Statuses]
    PROVE  G!IInv'
<1>1. UNCHANGED <<games, free_games, game_count, ready_queue, game_id, at, deal, section, crashed>>
  BY DEF gameVars
<1>2. G!TypeOK' /\ G!OneWaits'
  BY <1>1, AliveAreClients DEF G!IInv, G!TypeOK, G!OneWaits
<1> QED
  BY <1>1, <1>2, PoolsFit, G!QuietStep

\* The steps of a consumer in the game pool are the pool's own.
LEMMA PoolSteps ==
    ASSUME NEW k
    PROVE  /\ \A c : GP!AddReadyClient(k, c) => G!AddReadyClient(k, c)
           /\ GP!SetSearching(k) => G!SetSearching(k)
           /\ GP!Enqueue(k) => G!Enqueue(k)
           /\ GP!SetInGame(k) => G!SetInGame(k)
           /\ GP!StoreGame(k) => G!StoreGame(k)
           /\ GP!Broadcast(k) => G!Broadcast(k)
<1>1. ASSUME NEW c, GP!AddReadyClient(k, c) PROVE G!AddReadyClient(k, c)
  BY <1>1 DEF GP!AddReadyClient, G!AddReadyClient, GP!StartsToWait, G!StartsToWait,
     GP!ReplacesExpired, G!ReplacesExpired, GP!FindsNoGame, G!FindsNoGame,
     GP!StartsGame, G!StartsGame, GP!Held, G!Held
<1>2. /\ GP!SetInGame(k) => G!SetInGame(k)
      /\ GP!SetSearching(k) => G!SetSearching(k)
  BY DEF GP!SetInGame, G!SetInGame, GP!SetSearching, G!SetSearching, GP!SetStatus, G!SetStatus,
         GP!SetGameId, G!SetGameId
<1>3. /\ GP!StoreGame(k) => G!StoreGame(k)
      /\ GP!Enqueue(k) => G!Enqueue(k)
  BY DEF GP!StoreGame, G!StoreGame, GP!Enqueue, G!Enqueue, GP!NoDeal, G!NoDeal
<1>4. GP!Broadcast(k) => G!Broadcast(k)
  BY DEF GP!Broadcast, G!Broadcast, GP!NoDeal, G!NoDeal
<1> QED
  BY <1>1, <1>2, <1>3, <1>4

LEMMA GamesStep ==
    ASSUME G!IInv, NEW k \in Consumers,
           \/ \E c \in Clients : GP!AddReadyClient(k, c)
           \/ GP!SetSearching(k) \/ GP!Enqueue(k)
           \/ GP!SetInGame(k) \/ GP!StoreGame(k) \/ GP!Broadcast(k)
    PROVE  G!IInv'
<1> USE PoolsFit, AliveAreClients
<1>1. ASSUME NEW c \in Clients, GP!AddReadyClient(k, c) PROVE G!IInv'
  BY <1>1, PoolSteps, G!AddReadyStep
<1>2. ASSUME GP!SetSearching(k) \/ GP!SetInGame(k) PROVE G!IInv'
  BY <1>2, PoolSteps, G!WriteStep
<1>3. ASSUME GP!StoreGame(k) PROVE G!IInv'
  BY <1>3, PoolSteps, G!StoreGameStep
<1>4. ASSUME GP!Broadcast(k) PROVE G!IInv'
  BY <1>4, PoolSteps, G!BroadcastStep
<1>5. ASSUME GP!Enqueue(k) PROVE G!IInv'
  BY <1>5, PoolSteps, G!EnqueueStep
<1> QED
  BY <1>1, <1>2, <1>3, <1>4, <1>5

LEMMA InitBooks == Init => Books
<1> SUFFICES ASSUME Init PROVE Books
  OBVIOUS
<1>1. C!Init
  BY DEF Init, CP!Init, C!Init, CP!Slots, C!Slots, CP!Ids, C!Ids, CP!EmptyListing, C!EmptyListing
<1>2. C!IInv
  BY <1>1, PoolsFit, C!InitIInv
<1>3. /\ games = [g \in G!GameIds |-> G!NoGame] /\ free_games = [g \in G!GameIds |-> g]
      /\ deal = [k \in Consumers |-> G!NoDeal] /\ status = [c \in Clients |-> "idle"]
  BY DEF Init, CP!Init, GP!GameIds, G!GameIds, GP!NoGame, G!NoGame, GP!NoDeal, G!NoDeal
<1>4. G!IInv
  BY <1>3, PoolsFit, AliveAreClients, G!EmptyPool DEF Init
<1> QED
  BY <1>2, <1>4 DEF Books

LEMMA BooksKept ==
    ASSUME Books, UNCHANGED <<status, gameVars, crashed>>,
           UNCHANGED poolVars \/ \E i : RemoveId(i)
    PROVE  Books'
<1>1. status \in [Clients -> C!Statuses] /\ status \in [Clients -> G!Statuses]
  BY DEF Books, C!IInv, C!TypeOK, G!IInv, G!TypeOK
<1>2. C!IInv'
  BY <1>1, ClientsKept DEF Books
<1>3. G!IInv'
  BY <1>1, GamesKept DEF Books
<1> QED
  BY <1>2, <1>3 DEF Books

LEMMA NextBooks == IInv /\ Books /\ [Next]_vars => Books'
<1> SUFFICES ASSUME IInv, Books, [Next]_vars PROVE Books'
  OBVIOUS
<1>1. CASE Peers
  BY <1>1, BooksKept DEF Peers, Connect, Greet, PeerSend, Leave
<1>2. CASE Main
  <2>1. CASE Deny \/ Confirm \/ \E c \in Clients : Accept(c)
    BY <2>1, BooksKept DEF Deny, Confirm, Accept
  <2>2. CASE FailConfirm
    <3>1. UNCHANGED <<status, gameVars, crashed>> /\ RemoveId(id[joining])
      BY <2>2 DEF FailConfirm, RemoveId, CP!Remove
    <3> QED
      BY <3>1, BooksKept
  <2>3. CASE Join
    <3>1. joining \in Clients /\ CP!CreateAndAddClient(joining) /\ UNCHANGED <<gameVars, crashed>>
      BY <2>3 DEF Join, IInv, Handshake, HandshakeFits
    <3>2. C!IInv'
      BY <3>1, ClientJoins DEF Books
    <3>3. status' \in [Clients -> G!Statuses]
      BY <3>2 DEF C!IInv, C!TypeOK, C!Statuses, G!Statuses
    <3> QED
      BY <3>1, <3>2, <3>3, GamesKept DEF Books
  <2> QED
    BY <1>2, <2>1, <2>2, <2>3 DEF Main, MainAlone
<1>3. ASSUME NEW p \in Producers, Producer(p) PROVE Books'
  BY <1>3, BooksKept DEF Producer, TakeClient, Poll, Receive, ReceiveClosed, ReceiveTimeout,
     ReceiveError, ReceiveUnknown, ReAdd, Drop
<1>4. ASSUME NEW k \in Consumers, Consumer(k) PROVE Books'
  <2>1. CASE TakeMessage(k) \/ LookUp(k) \/ Reply(k) \/ TellGame(k)
    BY <2>1, BooksKept DEF TakeMessage, LookUp, Reply, TellGame
  <2>2. CASE RemoveClient(k)
    <3>1. UNCHANGED <<status, gameVars, crashed>> /\ RemoveId(id[ref[k]])
      BY <2>2 DEF RemoveClient, RemoveId, CP!Remove
    <3> QED
      BY <3>1, BooksKept
  <2>3. CASE Ready(k) \/ MakeGame(k) \/ MakeWait(k) \/ Announce(k)
    <3>1. \/ \E c \in Clients : GP!AddReadyClient(k, c)
          \/ GP!SetSearching(k) \/ GP!Enqueue(k)
          \/ GP!SetInGame(k) \/ GP!StoreGame(k) \/ GP!Broadcast(k)
      BY <2>3 DEF Ready, Handles, MakeGame, MakeWait, Announce, IInv, Mail
    <3>2. UNCHANGED poolVars
      BY <2>3 DEF Ready, MakeGame, MakeWait, Announce
    <3>3. G!IInv'
      BY <3>1, GamesStep DEF Books
    <3>4. status' \in [Clients -> C!Statuses]
      BY <3>3 DEF G!IInv, G!TypeOK, C!Statuses, G!Statuses
    <3> QED
      BY <3>2, <3>3, <3>4, ClientsKept DEF Books
  <2> QED
    BY <1>4, <2>1, <2>2, <2>3 DEF Consumer, ConsumerAlone
<1>5. CASE UNCHANGED vars
  BY <1>5, BooksKept DEF vars
<1> QED
  BY <1>1, <1>2, <1>3, <1>4, <1>5 DEF Next, Running

-----------------------------------------------------------------------------
(* Timeouts: whoever may be read from again has not been silent too often. *)

Counts ==
    /\ peer \in [Clients -> {"open", "closed", "reset"}]
    /\ joining \in Clients \cup {NoClient}
    /\ tout_count \in [Clients -> Nat]
    /\ left_to_game \subseteq Clients /\ spoke_error \subseteq Clients
    /\ \A c \in Clients :
          c \notin Served \/ Places(c) # {} \/ Holders(c) # {} => tout_count[c] < ToutLimit

LEMMA InitCounts == Init => Counts
BY ToutLimitAssumption DEF Init, Counts

\* Nobody is counted, and nobody who was served already comes to be read from.
LEMMA CountsKept ==
    ASSUME Counts, UNCHANGED tout_count, left_to_game' \subseteq Clients,
           spoke_error' \subseteq Clients,
           peer' \in [Clients -> {"open", "closed", "reset"}],
           joining' \in Clients \cup {NoClient},
           \A c \in Clients : c \notin Served' \/ Places(c)' # {} \/ Holders(c)' # {}
                               => c \notin Served \/ Places(c) # {} \/ Holders(c) # {}
    PROVE  Counts'
BY DEF Counts

LEMMA ReadKeepsPeers ==
    ASSUME peer \in [Clients -> {"open", "closed", "reset"}], NEW c \in Clients,
           Read(c) \/ Failed(c) \/ TimedOut(c)
    PROVE  peer' \in [Clients -> {"open", "closed", "reset"}]
BY DEF Read, Failed, TimedOut, peerVars

\* A producer that counts one timeout more either lets go of the client or has
\* not reached the limit; whoever it lets go of may have been silent too often.
LEMMA PollCounts ==
    ASSUME IInv, Counts, NEW p \in Producers, Poll(p) PROVE Counts'
<1>1. PICK h \in Served, m \in Letters :
        /\ h \in Clients /\ h = hand[p] /\ ppc[p] = "polling" /\ ReceiveFrom(h, m)
        /\ \/ Receive(p, m) \/ ReceiveClosed(p, m) \/ ReceiveTimeout(p, m)
           \/ ReceiveError(p, m) \/ ReceiveUnknown(p, m)
  BY PollIs
<1>2. /\ UNCHANGED <<hand, c_queue, joining, conn>>
      /\ \E to \in {"readding", "dropping"} : ppc' = [ppc EXCEPT ![p] = to]
      /\ left_to_game' \in {left_to_game, left_to_game \cup {h}}
      /\ spoke_error' \in {spoke_error, spoke_error \cup {h}}
  BY <1>1 DEF Receive, ReceiveClosed, ReceiveTimeout, ReceiveError, ReceiveUnknown, GiveUp,
              Again, mainVars
<1>3. \/ UNCHANGED tout_count
      \/ tout_count' = [tout_count EXCEPT ![h] = 0]
      \/ /\ tout_count' = [tout_count EXCEPT ![h] = @ + 1]
         /\ ppc' = [ppc EXCEPT ![p] = "dropping"] \/ ~ (tout_count'[h] >= ToutLimit)
  <2>1. CASE ReceiveTimeout(p, m)
    BY <1>1, <2>1 DEF ReceiveTimeout, GiveUp
  <2>2. CASE ~ ReceiveTimeout(p, m)
    BY <1>1, <2>2 DEF Receive, ReceiveClosed, ReceiveError, ReceiveUnknown
  <2> QED
    BY <2>1, <2>2
<1>4. peer' \in [Clients -> {"open", "closed", "reset"}]
  BY <1>1, ReadKeepsPeers DEF Counts, ReceiveFrom, peerVars
<1>5. /\ Served' = Served
      /\ \A c \in Clients : Places(c)' = Places(c) /\ Holders(c)' \subseteq Holders(c)
  BY <1>1, <1>2 DEF Served, Places, Holders, IInv, Polling
<1>6. p \in Holders(h) /\ Places(h) = {} /\ \A q \in Holders(h) : q = p
  <2>1. p \in Holders(h)
    BY <1>1 DEF Holders
  <2> QED
    BY <1>1, <2>1 DEF IInv, Polling, ExclusivePolling
<1>7. tout_count \in [Clients -> Nat] /\ tout_count[h] \in Nat /\ tout_count[h] < ToutLimit
  BY <1>1, <1>6 DEF Counts
<1>8. /\ tout_count' \in [Clients -> Nat]
      /\ \A c \in Clients : c # h => tout_count'[c] = tout_count[c]
  BY <1>1, <1>3, <1>7
<1>9. Holders(h)' # {} => tout_count'[h] < ToutLimit
  <2>1. CASE ppc' = [ppc EXCEPT ![p] = "dropping"]
    BY <1>5, <1>6, <1>1, <2>1 DEF Holders, IInv, Polling
  <2>2. CASE ~ (tout_count'[h] >= ToutLimit)
    BY <1>1, <1>8, <2>2, ToutLimitAssumption
  <2>3. CASE UNCHANGED tout_count \/ tout_count' = [tout_count EXCEPT ![h] = 0]
    BY <1>1, <1>7, <2>3, ToutLimitAssumption
  <2> QED
    BY <1>3, <2>1, <2>2, <2>3
<1>10. ASSUME NEW c \in Clients, c \notin Served' \/ Places(c)' # {} \/ Holders(c)' # {}
       PROVE  tout_count'[c] < ToutLimit
  <2>1. CASE c = h
    BY <1>1, <1>5, <1>6, <1>9, <1>10, <2>1
  <2>2. CASE c # h
    BY <1>5, <1>8, <1>10, <2>2 DEF Counts
  <2> QED
    BY <2>1, <2>2
<1>11. /\ joining' \in Clients \cup {NoClient}
       /\ left_to_game' \subseteq Clients /\ spoke_error' \subseteq Clients
  BY <1>1, <1>2 DEF Counts
<1> QED
  BY <1>4, <1>8, <1>10, <1>11 DEF Counts

\* The client at the front of the queue has not been silent too often.
LEMMA TakeClientCounts ==
    ASSUME IInv, Counts, NEW p \in Producers, TakeClient(p) PROVE Counts'
<1> DEFINE h == Head(c_queue)
<1>1. /\ c_queue # << >> /\ c_queue' = Tail(c_queue)
      /\ UNCHANGED <<hand, ppc>> \/ hand' = [hand EXCEPT ![p] = h]
      /\ UNCHANGED <<peer, joining, conn, tout_count, left_to_game, spoke_error>>
  BY DEF TakeClient, peerVars, mainVars
<1>2. /\ c_queue \in Seq(Served) /\ 1 \in DOMAIN c_queue /\ h = c_queue[1]
      /\ \A n \in DOMAIN c_queue' : n + 1 \in DOMAIN c_queue /\ c_queue'[n] = c_queue[n + 1]
  BY <1>1 DEF IInv, Polling
<1>3. Served' = Served
  BY <1>1 DEF Served
<1>4. Places(h) # {}
  BY <1>2 DEF Places
<1> HIDE DEF h
<1>5. ASSUME NEW c \in Clients PROVE Places(c)' # {} => Places(c) # {}
  BY <1>2 DEF Places
<1>6. ASSUME NEW c \in Clients PROVE Holders(c)' # {} => Holders(c) # {} \/ c = h
  <2>1. CASE c # h /\ hand' = [hand EXCEPT ![p] = h]
    <3>1. \A q \in Producers : hand'[q] = c => q # p /\ hand[q] = c
      BY <2>1 DEF IInv, Polling
    <3>2. \A q \in Producers : q # p => ppc'[q] = ppc[q]
      BY DEF TakeClient, IInv, Polling
    <3> QED
      BY <3>1, <3>2 DEF Holders
  <2>2. CASE UNCHANGED <<hand, ppc>>
    BY <2>2 DEF Holders
  <2> QED
    BY <1>1, <2>1, <2>2
<1> QED
  BY <1>1, <1>3, <1>4, <1>5, <1>6, CountsKept DEF Counts

\* The main thread and the peers: the client of the handshake has not been served,
\* so it starts without a timeout.
LEMMA MainCounts == ASSUME IInv, Counts, Peers \/ Main PROVE Counts'
<1>1. /\ UNCHANGED <<tout_count, left_to_game, spoke_error, ppc, hand>>
      /\ \A c \in Clients : Holders(c)' = Holders(c)
  BY DEF Peers, Connect, Greet, PeerSend, Leave, Main, MainAlone, Accept, Deny, Join, Confirm,
         FailConfirm, prodVars, Holders
<1>2. peer' \in [Clients -> {"open", "closed", "reset"}]
  <2>1. CASE Peers
    BY <2>1 DEF Peers, Connect, Greet, PeerSend, Leave, Counts
  <2>2. CASE Deny \/ \E c \in Clients : Accept(c)
    BY <2>2 DEF Deny, Accept, peerVars, Counts
  <2>3. CASE Join \/ Confirm \/ FailConfirm
    <3>1. joining \in Clients
      BY <2>3 DEF Join, Confirm, FailConfirm, IInv, Handshake
    <3>2. Read(joining) \/ Failed(joining) \/ peer' = peer
      BY <2>3 DEF Join, Confirm, FailConfirm, peerVars
    <3> QED
      BY <3>1, <3>2, ReadKeepsPeers DEF Counts
  <2> QED
    BY <2>1, <2>2, <2>3 DEF Main, MainAlone
<1>3. joining' \in Clients \cup {NoClient}
  BY DEF Counts, Peers, Connect, Greet, PeerSend, Leave, Main, MainAlone, Accept, Deny, Join, Confirm,
         FailConfirm, EndHandshake, mainVars
<1>4. CASE Confirm
  <2>1. /\ joining \in Clients \ Served /\ c_queue \in Seq(Served)
        /\ conn' = [conn EXCEPT ![joining] = "served"]
        /\ c_queue' = Append(c_queue, joining)
    BY <1>4 DEF Confirm, EndHandshake, IInv, Handshake, Polling
  <2>2. \A c \in Clients : c # joining => (c \in Served' <=> c \in Served)
    BY <2>1 DEF Served, IInv, Handshake
  <2>3. \A c \in Clients : c # joining => Places(c)' \subseteq Places(c)
    BY <2>1 DEF Places
  <2> QED
    BY <1>1, <1>2, <1>3, <2>1, <2>2, <2>3, CountsKept DEF Counts
<1>5. CASE ~ Confirm
  <2>1. c_queue' = c_queue
    BY <1>5 DEF Peers, Connect, Greet, PeerSend, Leave, Main, MainAlone, Accept, Deny, Join,
       FailConfirm
  <2>2. Served' = Served
    <3>1. CASE Peers
      BY <3>1 DEF Peers, Connect, Greet, PeerSend, Leave, Served, IInv, Handshake
    <3>2. CASE \E c \in Clients : Accept(c)
      BY <3>2 DEF Accept, Served, IInv, Handshake
    <3>3. CASE Deny \/ Join \/ FailConfirm
      <4>1. /\ joining \in Clients \ Served
            /\ conn' = conn \/ \E how \in {"gone", "numbered"} : conn' = [conn EXCEPT ![joining] = how]
        BY <3>3 DEF Deny, Join, FailConfirm, EndHandshake, IInv, Handshake
      <4> QED
        BY <4>1 DEF Served, IInv, Handshake
    <3> QED
      BY <1>5, <3>1, <3>2, <3>3 DEF Main, MainAlone
  <2>3. \A c \in Clients : Places(c)' = Places(c)
    BY <2>1 DEF Places
  <2> QED
    BY <1>1, <1>2, <1>3, <2>2, <2>3, CountsKept DEF Counts
<1> QED
  BY <1>4, <1>5

\* A client that is put back or let go was held by the producer.
LEMMA ProducerCounts == ASSUME IInv, Counts, NEW p \in Producers, Producer(p) PROVE Counts'
<1>1. ASSUME ReAdd(p) \/ Drop(p) PROVE Counts'
  <2>1. PICK h \in Served \cup {NoClient} : h = hand[p]
    BY DEF IInv, Polling
  <2>2. /\ UNCHANGED <<tout_count, peer, joining, conn, left_to_game, spoke_error>>
        /\ \/ ReAdd(p) /\ c_queue' = Append(c_queue, h) /\ h \in Clients
           \/ c_queue' = c_queue
        /\ hand' = hand \/ hand' = [hand EXCEPT ![p] = NoClient]
        /\ \E to \in {"dropping", "idle"} : ppc' = [ppc EXCEPT ![p] = to]
    <3>1. CASE ReAdd(p)
      BY <2>1, <3>1 DEF ReAdd, GiveUp, mainVars, peerVars, IInv, Polling, Served
    <3>2. CASE Drop(p)
      BY <2>1, <3>2 DEF Drop, mainVars, peerVars
    <3> QED
      BY <1>1, <3>1, <3>2
  <2>3. Served' = Served
    BY <2>2 DEF Served
  <2>4. \A c \in Clients : Holders(c)' \subseteq Holders(c)
    <3>1. hand'[p] = hand[p] => ppc'[p] = "dropping" \/ hand[p] = NoClient
      BY <1>1 DEF ReAdd, Drop, GiveUp, IInv, Polling
    <3> QED
      BY <2>2, <3>1, NoClientAssumption DEF Holders, IInv, Polling
  <2>5. ASSUME NEW c \in Clients PROVE Places(c)' # {} => Places(c) # {} \/ Holders(c) # {}
    <3>1. CASE c_queue' = c_queue
      BY <3>1 DEF Places
    <3>2. CASE ReAdd(p) /\ c_queue' = Append(c_queue, h)
      <4>1. CASE c = h
        BY <2>1, <3>2, <4>1 DEF ReAdd, Holders
      <4>2. CASE c # h
        <5>1. c_queue \in Seq(Served) /\ Append(c_queue, h) \in Seq(Served \cup {h})
          BY DEF IInv, Polling
        <5> QED
          BY <3>2, <4>2, <5>1 DEF Places
      <4> QED
        BY <4>1, <4>2
    <3> QED
      BY <2>2, <3>1, <3>2
  <2> QED
    BY <2>2, <2>3, <2>4, <2>5, CountsKept DEF Counts
<1> QED
  BY <1>1, TakeClientCounts, PollCounts DEF Producer

LEMMA NextCounts == IInv /\ Counts /\ [Next]_vars => Counts'
<1> SUFFICES ASSUME IInv, Counts, [Next]_vars PROVE Counts'
  OBVIOUS
<1>1. ASSUME UNCHANGED <<peer, joining, conn, prodVars, c_queue>> PROVE Counts'
  <2>1. \A c \in Clients : Places(c)' = Places(c) /\ Holders(c)' = Holders(c)
    BY <1>1 DEF Places, Holders, prodVars
  <2> QED
    BY <1>1, <2>1, CountsKept DEF Counts, Served, prodVars
<1>2. ASSUME NEW k \in Consumers, Consumer(k) PROVE UNCHANGED <<peer, joining, conn, prodVars, c_queue>>
  BY <1>2 DEF Consumer, ConsumerAlone, TakeMessage, LookUp, RemoveClient, Reply, Ready,
              MakeGame, MakeWait, Announce, TellGame, mainVars, peerVars
<1>3. CASE UNCHANGED vars
  BY <1>1, <1>3 DEF vars, mainVars, peerVars
<1> QED
  BY <1>1, <1>2, <1>3, MainCounts, ProducerCounts DEF Next, Running

\* The invariant of the server: what a handshake, the producers' queue, the ids
\* and the messages promise each other, with the books of both pools and the
\* timeouts counted.
THEOREM Safety == Spec => [](IInv /\ Books /\ Counts)
BY InitIInv, InitBooks, InitCounts, NextIInv, NextBooks, NextCounts, PTL DEF Spec

\* A client is read from by one producer at a time and is queued once, whatever
\* the threads of server::start and the peers do: client::tout_count and the order
\* of a client's messages have no other protection.
THEOREM OneReader == Spec => []ExclusivePolling
<1>1. IInv => ExclusivePolling
  BY DEF IInv, Polling
<1> QED
  BY <1>1, Safety, PTL

\* perform_handshake_procedure uses what create_and_add_client returns without a
\* look: the pool is never full then, since nobody but the main thread adds to it.
THEOREM RoomForTheHandshake == Spec => []HandshakeFits
<1>1. IInv => HandshakeFits
  BY DEF IInv, Handshake
<1> QED
  BY <1>1, Safety, PTL

\* message_consumer::run handles a message that holds its sender's id for the sender
\* while that is in the pool, although ids are given again and peers may write any.
THEOREM MessagesFindTheirSender == Spec => []IdsResolve
<1>1. IInv => IdsResolve
  BY DEF IInv, Mail
<1> QED
  BY <1>1, Safety, PTL

\* The variables hold values of their types: the bookkeeping of both pools inside
\* the server, as consumers that resolved the same client remove it once more.
THEOREM ServerTypes == Spec => []TypeOK
<1>1. ASSUME IInv, Books, Counts PROVE TypeOK
  <2>1. CP!TypeOK
    BY <1>1 DEF Books, C!IInv, C!TypeOK, CP!TypeOK, C!Slots, CP!Slots, C!Ids, CP!Ids,
       C!Statuses, CP!Statuses
  <2>2. c_queue \in Seq(Clients) /\ hand \in [Producers -> Clients \cup {NoClient}]
    BY <1>1 DEF IInv, Polling, Served
  <2> QED
    BY <1>1, <2>1, <2>2 DEF TypeOK, IInv, Handshake, Polling, Mail, Counts
<1> QED
  BY <1>1, Safety, PTL

\* At most one client waits for an opponent, although in the server, other than in
\* the runs of the game pool by itself, clients ask again while they wait or play,
\* and leave at any time.
THEOREM OneWaitsInServer == Spec => []OneWaits
<1>1. Books => OneWaits
  BY DEF Books, G!IInv, G!OneWaits, OneWaits, GP!OneWaits
<1> QED
  BY <1>1, Safety, PTL

-----------------------------------------------------------------------------
(* Nobody is forgotten.  A message that takes a client out of the pool does so *)
(* only if the consumer that resolved its sender still has the right id, and   *)
(* is not taken for handled before: Resolved.  The pool holds the clients that *)
(* have a number, and the handshake is about one that has none yet: Numbered.  *)

Numbered ==
    /\ \A c \in Clients : InPool(c) => conn[c] \in {"numbered", "served"}
    /\ mpc = "join" => conn[joining] = "accepted"

Resolved ==
    \A k \in Consumers :
        /\ ref[k] # NoClient => /\ conn[ref[k]] \in {"numbered", "served", "gone"}
                                /\ id[ref[k]] = job[k].from
        /\ at[k] # "idle" => ref[k] # NoClient /\ job[k].kind = "ready"

Remembered == Numbered /\ Resolved /\ NobodyForgotten

LEMMA InitRemembered == Init => Remembered
<1> SUFFICES ASSUME Init PROVE Remembered
  OBVIOUS
<1>1. \A c \in Clients : ~ InPool(c)
  BY PlacesAssumption, NoClientAssumption DEF Init, CP!Init, CP!Slots, InPool
<1> QED
  BY <1>1 DEF Init, Remembered, Numbered, Resolved, NobodyForgotten

\* Where a message to remove a client may be.
Removing(c) ==
    \/ \E n \in DOMAIN msg_queue : /\ msg_queue[n].kind \in {"exit", "closed"}
                                   /\ msg_queue[n].from = id[c]
    \/ \E k \in Consumers : /\ job[k].kind \in {"exit", "closed"}
                            /\ job[k].from = id[c]

LEMMA TendedIs ==
    \A c : Tended(c) <=> \/ Places(c) # {} \/ Holders(c) # {}
                         \/ mpc = "confirm" /\ joining = c
                         \/ Removing(c)
BY DEF Tended, Removing

LEMMA TendedIsPrimed ==
    \A c : Tended(c)' <=> \/ Places(c)' # {} \/ Holders(c)' # {}
                          \/ mpc' = "confirm" /\ joining' = c
                          \/ Removing(c)'
BY DEF Tended, Removing

\* A client in the pool stands in it under its own id.
LEMMA PlaceIsOwn ==
    ASSUME OwnIds, NEW c \in Clients, InPool(c)
    PROVE  id[c] \in 1..MaxClients /\ pool[id[c]] = c /\ c # NoClient
<1>1. PICK i \in 1..MaxClients : pool[i] = c
  BY DEF InPool
<1>2. i \in 1..MaxClients + 1
  BY PlacesAssumption
<1> QED
  BY <1>1, <1>2, NoClientAssumption DEF OwnIds

LEMMA RemovedIsOut ==
    ASSUME OwnIds, NEW c \in Clients, RemoveId(id[c]), UNCHANGED id PROVE ~ InPool(c)'
<1>1. SUFFICES ASSUME NEW i \in 1..MaxClients, pool'[i] = c PROVE FALSE
  BY DEF InPool
<1>2. i \in 1..MaxClients + 1 /\ c # NoClient
  BY PlacesAssumption, NoClientAssumption
<1>3. CASE pool[id[c]] = NoClient
  <2>1. pool[i] = c
    BY <1>1, <1>3 DEF RemoveId, poolVars
  <2> QED
    BY <1>2, <1>3, <2>1 DEF OwnIds
<1>4. CASE pool[id[c]] # NoClient
  <2>1. id[c] \in 1..MaxClients + 1 /\ pool' = [pool EXCEPT ![id[c]] = NoClient]
    BY <1>4 DEF RemoveId, CP!Remove, CP!InBounds, CP!Slots
  <2>2. i # id[c] /\ pool[i] = c
    BY <1>1, <1>2, <2>1 DEF OwnIds
  <2> QED
    BY <1>2, <2>2 DEF OwnIds
<1> QED
  BY <1>3, <1>4

-----------------------------------------------------------------------------
(* The peers and the main thread: what is sent and handled stays as it is. *)

LEMMA OutsideResolved ==
    ASSUME Mail, Resolved, UNCHANGED <<ref, job, at>>,
           \A c \in Clients : conn[c] \in {"numbered", "served", "gone"} =>
               conn'[c] \in {"numbered", "served", "gone"} /\ id'[c] = id[c]
    PROVE  Resolved'
BY DEF Mail, Resolved

LEMMA OutsideTended ==
    ASSUME UNCHANGED <<msg_queue, job, hand, ppc>>, NEW c \in Clients, id'[c] = id[c], Tended(c),
           Places(c) # {} => Places(c)' # {},
           mpc = "confirm" /\ joining = c =>
              \/ mpc' = "confirm" /\ joining' = c
              \/ Places(c)' # {}
    PROVE  Tended(c)'
<1>1. Holders(c)' = Holders(c) /\ Removing(c) = Removing(c)'
  BY DEF Holders, Removing
<1> QED
  BY <1>1, TendedIs, TendedIsPrimed

LEMMA PeersRemember == ASSUME IInv, Remembered, Peers PROVE Remembered'
<1>1. /\ UNCHANGED <<pool, mpc, joining, id, ref, job, at, msg_queue, c_queue, hand, ppc,
                     tout_count, left_to_game, spoke_error>>
      /\ \/ conn' = conn
         \/ \E c \in Clients : conn[c] = "away" /\ conn' = [conn EXCEPT ![c] = "backlog"]
  BY DEF Peers, Connect, Greet, PeerSend, Leave, poolVars, gameVars, mainVars, prodVars, consVars
<1>2. \A c \in Clients : conn'[c] = conn[c] \/ conn[c] = "away"
  BY <1>1 DEF IInv, Handshake
<1>3. Numbered'
  BY <1>1, <1>2 DEF Remembered, Numbered, InPool, IInv, Handshake
<1>4. Resolved'
  BY <1>1, <1>2, OutsideResolved DEF IInv, Remembered
<1>5. ASSUME NEW c \in Clients, InPool(c)', c \notin left_to_game' \cup spoke_error', tout_count'[c] < ToutLimit
      PROVE  Tended(c)'
  <2>1. Tended(c)
    BY <1>1, <1>5 DEF Remembered, NobodyForgotten, InPool
  <2>2. Places(c)' = Places(c)
    BY <1>1 DEF Places
  <2> QED
    BY <1>1, <2>1, <2>2, OutsideTended
<1> QED
  BY <1>3, <1>4, <1>5 DEF Remembered, NobodyForgotten

LEMMA AcceptRemembers ==
    ASSUME IInv, Remembered, Deny \/ \E c \in Clients : Accept(c) PROVE Remembered'
<1>1. /\ UNCHANGED <<pool, id, ref, job, at, msg_queue, c_queue, hand, ppc,
                     tout_count, left_to_game, spoke_error>>
      /\ mpc # "confirm"
  BY DEF Deny, Accept, poolVars, gameVars, prodVars, consVars
<1>2. PICK c \in Clients :
        /\ conn[c] \in {"backlog", "accepted"}
        /\ \/ conn' = [conn EXCEPT ![c] = "gone"] /\ mpc' # "join"
           \/ conn' = [conn EXCEPT ![c] = "accepted"] /\ mpc' = "join" /\ joining' = c
  <2>1. CASE Deny
    BY <2>1 DEF Deny, IInv, Handshake, Remembered, Numbered
  <2>2. ASSUME NEW a \in Clients, Accept(a) PROVE
        /\ conn[a] \in {"backlog", "accepted"}
        /\ \/ conn' = [conn EXCEPT ![a] = "gone"] /\ mpc' # "join"
           \/ conn' = [conn EXCEPT ![a] = "accepted"] /\ mpc' = "join" /\ joining' = a
    BY <2>2 DEF Accept
  <2> QED
    BY <2>1, <2>2
<1>3. Numbered'
  BY <1>1, <1>2 DEF Remembered, Numbered, InPool, IInv, Handshake
<1>4. Resolved'
  BY <1>1, <1>2, OutsideResolved DEF IInv, Handshake, Remembered
<1>5. ASSUME NEW d \in Clients, InPool(d)', d \notin left_to_game' \cup spoke_error', tout_count'[d] < ToutLimit
      PROVE  Tended(d)'
  <2>1. Tended(d)
    BY <1>1, <1>5 DEF Remembered, NobodyForgotten, InPool
  <2>2. Places(d)' = Places(d)
    BY <1>1 DEF Places
  <2> QED
    BY <1>1, <2>1, <2>2, OutsideTended
<1> QED
  BY <1>3, <1>4, <1>5 DEF Remembered, NobodyForgotten

LEMMA JoinRemembers == ASSUME IInv, Remembered, Join PROVE Remembered'
<1>1. /\ mpc = "join" /\ mpc' = "confirm" /\ joining \in Clients /\ conn[joining] = "accepted"
      /\ UNCHANGED <<joining, ref, job, at, msg_queue, c_queue, hand, ppc, tout_count, left_to_game, spoke_error>>
      /\ ~ CP!Full
  BY DEF Join, gameVars, prodVars, consVars, IInv, Handshake, HandshakeFits, Remembered, Numbered
<1>2. /\ pool' = [pool EXCEPT ![Head(empty_queue)] = joining]
      /\ id' = [id EXCEPT ![joining] = Head(empty_queue)]
      /\ conn' = [conn EXCEPT ![joining] = "numbered"]
  BY <1>1 DEF Join, CP!CreateAndAddClient
<1>3. \A c \in Clients : c # joining => id'[c] = id[c] /\ conn'[c] = conn[c]
  BY <1>2 DEF IInv, OwnIds, Handshake
<1>4. \A c \in Clients : c # joining /\ InPool(c)' => InPool(c)
  BY <1>2, PlacesAssumption DEF InPool, IInv, OwnIds
<1>5. Numbered'
  BY <1>1, <1>2, <1>3, <1>4 DEF Remembered, Numbered, IInv, Handshake
<1>6. Resolved'
  BY <1>1, <1>3, OutsideResolved DEF IInv, Remembered
<1>7. ASSUME NEW c \in Clients, InPool(c)', c \notin left_to_game' \cup spoke_error', tout_count'[c] < ToutLimit
      PROVE  Tended(c)'
  <2>1. CASE c = joining
    BY <1>1, <2>1 DEF Tended
  <2>2. CASE c # joining
    <3>1. Tended(c)
      BY <1>1, <1>4, <1>7, <2>2 DEF Remembered, NobodyForgotten
    <3>2. Places(c)' = Places(c)
      BY <1>1 DEF Places
    <3> QED
      BY <1>1, <1>3, <2>2, <3>1, <3>2, OutsideTended
  <2> QED
    BY <2>1, <2>2
<1> QED
  BY <1>5, <1>6, <1>7 DEF Remembered, NobodyForgotten

\* The client of the handshake goes to the queue, or out of the pool.
LEMMA ConfirmRemembers == ASSUME IInv, Remembered, Confirm \/ FailConfirm PROVE Remembered'
<1> PICK j \in Clients : j = joining
  BY DEF Confirm, FailConfirm, IInv, Handshake
<1>1. /\ mpc' = "accept"
      /\ UNCHANGED <<id, ref, job, at, msg_queue, hand, ppc, tout_count, left_to_game, spoke_error>>
      /\ \/ /\ conn' = [conn EXCEPT ![j] = "served"] /\ UNCHANGED pool
            /\ c_queue' = Append(c_queue, j)
         \/ /\ conn' = [conn EXCEPT ![j] = "gone"] /\ RemoveId(id[j])
            /\ UNCHANGED c_queue
  BY DEF Confirm, FailConfirm, EndHandshake, poolVars, gameVars, prodVars, consVars, IInv, Handshake
<1>2. \A c \in Clients : InPool(c)' => InPool(c)
  <2>1. CASE UNCHANGED pool
    BY <2>1 DEF InPool
  <2>2. CASE RemoveId(id[j])
    BY <2>2, RemoveIdStep DEF IInv
  <2> QED
    BY <1>1, <2>1, <2>2
<1>3. conn'[j] = "gone" => ~ InPool(j)'
  BY <1>1, RemovedIsOut DEF IInv, Handshake
<1>4. Numbered'
  BY <1>1, <1>2, <1>3 DEF Remembered, Numbered, IInv, Handshake
<1>5. Resolved'
  BY <1>1, OutsideResolved DEF IInv, Handshake, Remembered
<1>6. c_queue' = Append(c_queue, j) =>
          /\ \A n \in DOMAIN c_queue : n \in DOMAIN c_queue' /\ c_queue'[n] = c_queue[n]
          /\ Len(c_queue) + 1 \in DOMAIN c_queue' /\ c_queue'[Len(c_queue) + 1] = j
  <2>1. c_queue \in Seq(Clients) /\ Append(c_queue, j) \in Seq(Clients)
    BY <1>1 DEF IInv, Polling, Served
  <2> QED
    BY <1>1, <2>1
<1>7. ASSUME NEW c \in Clients, InPool(c)', c \notin left_to_game' \cup spoke_error', tout_count'[c] < ToutLimit
      PROVE  Tended(c)'
  <2>1. Tended(c)
    BY <1>1, <1>2, <1>7 DEF Remembered, NobodyForgotten
  <2>2. Places(c) # {} => Places(c)' # {}
    BY <1>1, <1>6 DEF Places
  <2>3. c = j => Places(c)' # {}
    <3>1. SUFFICES ASSUME c = j PROVE Places(c)' # {}
      OBVIOUS
    <3>2. c_queue' = Append(c_queue, j)
      BY <1>1, <1>3, <1>7, <3>1 DEF IInv, Handshake
    <3> QED
      BY <1>6, <3>1, <3>2 DEF Places
  <2> QED
    BY <1>1, <2>1, <2>2, <2>3, OutsideTended
<1> QED
  BY <1>4, <1>5, <1>7 DEF Remembered, NobodyForgotten

-----------------------------------------------------------------------------
(* A producer: whoever it lets go of is queued, left to its game, silent too    *)
(* often, or about to be removed.                                               *)

LEMMA ProducerRemembersIf ==
    ASSUME IInv, Remembered, NEW p \in Producers, Producer(p),
           \A c \in Clients :
              InPool(c) /\ Tended(c) /\ c \notin left_to_game' \cup spoke_error'
              /\ tout_count'[c] < ToutLimit
                  => \/ Places(c)' # {} \/ Holders(c)' # {} \/ Removing(c)'
                     \/ mpc = "confirm" /\ joining = c,
           \A c \in Clients : c \notin left_to_game' \cup spoke_error' /\ tout_count'[c] < ToutLimit =>
              \/ c \notin left_to_game \cup spoke_error /\ tout_count[c] < ToutLimit
              \/ Holders(c) # {}
    PROVE  Remembered'
<1>1. UNCHANGED <<pool, mpc, joining, id, conn, ref, job, at>>
  BY DEF Producer, TakeClient, Poll, Receive, ReceiveClosed, ReceiveTimeout, ReceiveError,
         ReceiveUnknown, ReAdd, Drop, poolVars, gameVars, mainVars, consVars
<1>2. Numbered' /\ Resolved'
  BY <1>1 DEF Remembered, Numbered, Resolved, InPool
<1>3. ASSUME NEW c \in Clients, InPool(c)', c \notin left_to_game' \cup spoke_error', tout_count'[c] < ToutLimit
      PROVE  Tended(c)'
  <2>1. InPool(c)
    BY <1>1, <1>3 DEF InPool
  <2>2. Tended(c)
    BY <1>3, <2>1 DEF Remembered, NobodyForgotten, Tended
  <2> QED
    BY <1>1, <1>3, <2>1, <2>2, TendedIsPrimed
<1> QED
  BY <1>2, <1>3 DEF Remembered, NobodyForgotten

LEMMA TakeClientRemembers ==
    ASSUME IInv, Remembered, NEW p \in Producers, TakeClient(p) PROVE Remembered'
<1> DEFINE h == Head(c_queue)
<1>1. /\ ppc[p] = "idle" /\ c_queue # << >> /\ c_queue' = Tail(c_queue)
      /\ \/ hand' = [hand EXCEPT ![p] = h] /\ ppc' = [ppc EXCEPT ![p] = "polling"]
         \/ UNCHANGED <<hand, ppc>> /\ h \notin Alive
      /\ UNCHANGED <<job, msg_queue, id, tout_count, left_to_game, spoke_error>>
  BY DEF TakeClient, mainVars, consVars
<1>2. /\ c_queue \in Seq(Served) /\ h = c_queue[1]
      /\ \A n \in DOMAIN c_queue :
            n # 1 => n - 1 \in DOMAIN c_queue' /\ c_queue'[n - 1] = c_queue[n]
  BY <1>1 DEF IInv, Polling
<1> HIDE DEF h
<1>3. ASSUME NEW c \in Clients, InPool(c), Tended(c)
      PROVE  \/ Places(c)' # {} \/ Holders(c)' # {} \/ Removing(c)'
             \/ mpc = "confirm" /\ joining = c
  <2>1. Holders(c) \subseteq Holders(c)'
    BY <1>1, NoClientAssumption DEF Holders, IInv, Polling
  <2>2. CASE Places(c) # {}
    <3>1. PICK n \in DOMAIN c_queue : c_queue[n] = c
      BY <2>2 DEF Places
    <3>2. CASE n = 1
      <4>1. h = c /\ h \in Alive
        BY <1>2, <1>3, <3>1, <3>2 DEF Alive
      <4>2. p \in Holders(c)'
        BY <1>1, <4>1 DEF Holders, IInv, Polling
      <4> QED
        BY <4>2
    <3>3. CASE n # 1
      BY <1>2, <3>1, <3>3 DEF Places
    <3> QED
      BY <3>2, <3>3
  <2>3. Removing(c)' = Removing(c)
    BY <1>1 DEF Removing
  <2> QED
    BY <1>3, <2>1, <2>2, <2>3, TendedIs
<1> QED
  BY <1>1, <1>3, ProducerRemembersIf DEF Producer

\* A message that says that its sender is closed removes the sender.
LEMMA ProducedStays ==
    ASSUME IInv, NEW h \in Served, NEW msg \in Messages, NEW c \in Clients,
           UNCHANGED <<id, job>>, msg_queue' = Append(msg_queue, msg)
    PROVE  /\ Removing(c) => Removing(c)'
           /\ msg.kind = "closed" /\ msg.from = id[h] => Removing(h)'
<1>1. msg_queue \in Seq(Messages) /\ msg_queue' \in Seq(Messages)
  BY DEF IInv, Mail
<1>2. /\ \A n \in DOMAIN msg_queue : n \in DOMAIN msg_queue' /\ msg_queue'[n] = msg_queue[n]
      /\ Len(msg_queue) + 1 \in DOMAIN msg_queue' /\ msg_queue'[Len(msg_queue) + 1] = msg
  BY <1>1
<1>3. Removing(c) => Removing(c)'
  BY <1>2 DEF Removing
<1>4. msg.kind = "closed" /\ msg.from = id[h] => Removing(h)'
  BY <1>2 DEF Removing
<1> QED
  BY <1>3, <1>4

LEMMA ReadingRemembers ==
    ASSUME IInv, Counts, Remembered, NEW p \in Producers, Poll(p) PROVE Remembered'
<1>1. PICK h \in Served, m \in Letters :
        /\ h \in Clients /\ h = hand[p] /\ ppc[p] = "polling"
        /\ \/ Receive(p, m) \/ ReceiveClosed(p, m) \/ ReceiveTimeout(p, m)
           \/ ReceiveError(p, m) \/ ReceiveUnknown(p, m)
  BY PollIs
<1>2. /\ UNCHANGED <<hand, c_queue, id, job>>
      /\ \E to \in {"readding", "dropping"} : ppc' = [ppc EXCEPT ![p] = to]
      /\ left_to_game' \in {left_to_game, left_to_game \cup {h}}
      /\ spoke_error' \in {spoke_error, spoke_error \cup {h}}
      /\ tout_count' = tout_count \/ \E n : tout_count' = [tout_count EXCEPT ![h] = n]
  BY <1>1 DEF Receive, ReceiveClosed, ReceiveTimeout, ReceiveError, ReceiveUnknown, GiveUp,
              Again, mainVars, consVars
<1>3. p \in Holders(h)
  BY <1>1 DEF Holders
<1>4. ASSUME NEW c \in Clients
      PROVE  Places(c)' = Places(c) /\ (c # h => Holders(c)' = Holders(c))
  BY <1>1, <1>2 DEF Places, Holders, IInv, Polling
<1>5. \/ msg_queue' = msg_queue
      \/ \E msg \in Messages : msg_queue' = Append(msg_queue, msg)
  BY <1>1, Produced
<1>6. ASSUME NEW c \in Clients, Removing(c) PROVE Removing(c)'
  <2>1. CASE msg_queue' = msg_queue
    BY <1>2, <1>6, <2>1 DEF Removing
  <2> QED
    BY <1>2, <1>5, <1>6, <2>1, ProducedStays
<1>7. \/ h \in left_to_game' \cup spoke_error' \/ ~ (tout_count'[h] < ToutLimit)
      \/ ppc'[p] = "readding" \/ Removing(h)'
  <2>1. CASE Receive(p, m) \/ ReceiveUnknown(p, m)
    BY <2>1 DEF Receive, ReceiveUnknown, Again, IInv, Polling
  <2>2. CASE ReceiveError(p, m)
    BY <1>1, <2>2 DEF ReceiveError
  <2>3. CASE ReceiveClosed(p, m) /\ status[h] # "in_game"
    <3>1. CASE m.from = id[h]
      <4>1. msg_queue' = Append(msg_queue, Msg(h, "closed", m.from))
        BY <1>1, <2>3 DEF ReceiveClosed, Produce
      <4>2. /\ Msg(h, "closed", m.from) \in Messages
            /\ Msg(h, "closed", m.from).kind = "closed"
            /\ Msg(h, "closed", m.from).from = id[h]
        BY <3>1 DEF Messages, Msg, Letters, AllKinds, PeerKinds, ToConsumers
      <4> QED
        BY <1>1, <1>2, <4>1, <4>2, ProducedStays
    <3>2. CASE m.from # id[h]
      BY <1>1, <2>3, <3>2 DEF ReceiveClosed
    <3> QED
      BY <3>1, <3>2
  <2>4. CASE (ReceiveClosed(p, m) \/ ReceiveTimeout(p, m)) /\ status[h] = "in_game"
    BY <1>1, <2>4 DEF ReceiveClosed, ReceiveTimeout
  <2>5. CASE ReceiveTimeout(p, m) /\ status[h] # "in_game"
    <3>1. CASE tout_count'[h] >= ToutLimit
      <4>1. tout_count' = [tout_count EXCEPT ![h] = @ + 1]
        BY <1>1, <2>5 DEF ReceiveTimeout
      <4>2. tout_count[h] \in Int /\ tout_count'[h] = tout_count[h] + 1
        BY <1>1, <4>1 DEF Counts
      <4> QED
        BY <3>1, <4>2, ToutLimitAssumption
    <3>2. CASE ~ (tout_count'[h] >= ToutLimit)
      BY <1>1, <2>5, <3>2 DEF ReceiveTimeout, Again, IInv, Polling
    <3> QED
      BY <3>1, <3>2
  <2> QED
    BY <1>1, <2>1, <2>2, <2>3, <2>4, <2>5
<1>8. ppc'[p] = "readding" => Holders(h)' # {}
  BY <1>1, <1>2 DEF Holders
<1>9. ASSUME NEW c \in Clients, Tended(c), c \notin left_to_game' \cup spoke_error',
             tout_count'[c] < ToutLimit
      PROVE  \/ Places(c)' # {} \/ Holders(c)' # {} \/ Removing(c)'
             \/ mpc = "confirm" /\ joining = c
  <2>1. CASE c = h
    BY <1>7, <1>8, <1>9, <2>1
  <2>2. CASE c # h
    BY <1>4, <1>6, <1>9, <2>2, TendedIs
  <2> QED
    BY <2>1, <2>2
<1>10. ASSUME NEW c \in Clients, c \notin left_to_game' \cup spoke_error',
              tout_count'[c] < ToutLimit
       PROVE  \/ c \notin left_to_game \cup spoke_error /\ tout_count[c] < ToutLimit
              \/ Holders(c) # {}
  <2>1. CASE c = h
    BY <1>3, <2>1
  <2>2. CASE c # h
    <3>1. tout_count'[c] = tout_count[c]
      BY <1>2, <2>2 DEF Counts
    <3>2. c \notin left_to_game \cup spoke_error
      BY <1>2, <1>10
    <3> QED
      BY <1>10, <3>1, <3>2
  <2> QED
    BY <2>1, <2>2
<1> QED
  BY <1>9, <1>10, ProducerRemembersIf DEF Producer

LEMMA PuttingBackRemembers ==
    ASSUME IInv, Remembered, NEW p \in Producers, ReAdd(p) \/ Drop(p) PROVE Remembered'
<1>1. UNCHANGED <<job, msg_queue, id, tout_count, left_to_game, spoke_error>>
  BY DEF ReAdd, Drop, mainVars, consVars
<1>2. ASSUME NEW c \in Clients, Tended(c)
      PROVE  \/ Places(c)' # {} \/ Holders(c)' # {} \/ Removing(c)'
             \/ mpc = "confirm" /\ joining = c
  <2>1. Removing(c)' = Removing(c)
    BY <1>1 DEF Removing
  <2>2. CASE Drop(p)
    <3>1. Places(c)' = Places(c) /\ Holders(c) \subseteq Holders(c)'
      BY <2>2 DEF Drop, Places, Holders, IInv, Polling
    <3> QED
      BY <1>2, <2>1, <3>1, TendedIs
  <2>3. CASE ReAdd(p)
    <3>1. PICK h \in Served : h = hand[p]
      BY <2>3 DEF ReAdd, IInv, Polling
    <3>2. /\ c_queue' = Append(c_queue, h) /\ hand' = hand
          /\ ppc' = [ppc EXCEPT ![p] = "dropping"]
      BY <2>3, <3>1 DEF ReAdd, GiveUp
    <3>3. c_queue \in Seq(Served) /\ c_queue' \in Seq(Served)
      BY <3>2 DEF IInv, Polling
    <3>4. /\ \A n \in DOMAIN c_queue : n \in DOMAIN c_queue' /\ c_queue'[n] = c_queue[n]
          /\ Len(c_queue) + 1 \in DOMAIN c_queue' /\ c_queue'[Len(c_queue) + 1] = h
      BY <3>2, <3>3
    <3>5. /\ Places(c) # {} => Places(c)' # {}
          /\ c = h => Places(c)' # {}
      BY <3>4 DEF Places
    <3>6. c # h => Holders(c)' = Holders(c)
      BY <3>1, <3>2 DEF Holders, IInv, Polling
    <3> QED
      BY <1>2, <2>1, <3>5, <3>6, TendedIs
  <2> QED
    BY <2>2, <2>3
<1> QED
  BY <1>1, <1>2, ProducerRemembersIf DEF Producer

-----------------------------------------------------------------------------
(* A consumer: a message to remove a client is handled only by removing it. *)

LEMMA ConsumerRemembersIf ==
    ASSUME IInv, Remembered, Resolved', NEW k \in Consumers, Consumer(k),
           \A c \in Clients : InPool(c)' /\ Removing(c) => Removing(c)'
    PROVE  Remembered'
<1>1. UNCHANGED <<mpc, joining, id, conn, c_queue, ppc, hand, tout_count, left_to_game, spoke_error>>
  BY DEF Consumer, ConsumerAlone, TakeMessage, LookUp, RemoveClient, Reply, Ready, MakeGame,
         MakeWait, Announce, TellGame, mainVars, prodVars
<1>2. \A c \in Clients : InPool(c)' => InPool(c)
  <2>1. CASE UNCHANGED pool
    BY <2>1 DEF InPool
  <2>2. CASE ~ UNCHANGED pool
    <3>1. RemoveClient(k)
      BY <2>2 DEF Consumer, ConsumerAlone, TakeMessage, LookUp, Reply, Ready, MakeGame, MakeWait,
         Announce, TellGame, poolVars
    <3> QED
      BY <3>1, RemoveIdStep DEF RemoveClient, IInv
  <2> QED
    BY <2>1, <2>2
<1>3. Numbered'
  BY <1>1, <1>2 DEF Remembered, Numbered
<1>4. ASSUME NEW c \in Clients, InPool(c)', c \notin left_to_game' \cup spoke_error', tout_count'[c] < ToutLimit
      PROVE  Tended(c)'
  <2>1. Tended(c)
    BY <1>1, <1>2, <1>4 DEF Remembered, NobodyForgotten
  <2>2. Places(c)' = Places(c) /\ Holders(c)' = Holders(c)
    BY <1>1 DEF Places, Holders
  <2> QED
    BY <1>1, <1>4, <2>1, <2>2, TendedIs, TendedIsPrimed
<1> QED
  BY <1>3, <1>4 DEF Remembered, NobodyForgotten

LEMMA TakeMessageRemembers ==
    ASSUME IInv, Remembered, NEW k \in Consumers, TakeMessage(k) PROVE Remembered'
<1>1. /\ job[k] = NoMsg /\ msg_queue # << >>
      /\ job' = [job EXCEPT ![k] = Head(msg_queue)] /\ msg_queue' = Tail(msg_queue)
      /\ UNCHANGED <<ref, at, conn, id>>
  BY DEF TakeMessage, gameVars, mainVars
<1>2. \A j \in Consumers : job'[j] = job[j] \/ (j = k /\ job[j] = NoMsg)
  BY <1>1 DEF IInv, Mail
<1>3. ASSUME NEW j \in Consumers
      PROVE  /\ ref'[j] # NoClient => /\ conn'[ref'[j]] \in {"numbered", "served", "gone"}
                                      /\ id'[ref'[j]] = job'[j].from
             /\ at'[j] # "idle" => ref'[j] # NoClient /\ job'[j].kind = "ready"
  <2>1. ref[j] # NoClient => job[j] # NoMsg
    BY DEF IInv, Mail
  <2> QED
    BY <1>1, <1>2, <2>1 DEF Remembered, Resolved
<1>4. Resolved'
  BY <1>3 DEF Resolved
<1>5. /\ msg_queue[1] = Head(msg_queue)
      /\ \A n \in DOMAIN msg_queue :
            n # 1 => n - 1 \in DOMAIN msg_queue' /\ msg_queue'[n - 1] = msg_queue[n]
  BY <1>1 DEF IInv, Mail
<1>6. ASSUME NEW c \in Clients, Removing(c) PROVE Removing(c)'
  <2>1. ASSUME NEW n \in DOMAIN msg_queue, msg_queue[n].kind \in {"exit", "closed"},
               msg_queue[n].from = id[c]
        PROVE  Removing(c)'
    <3>1. CASE n = 1
      <4>1. job'[k] = msg_queue[n]
        BY <1>1, <1>5, <3>1 DEF IInv, Mail
      <4> QED
        BY <1>1, <2>1, <4>1 DEF Removing
    <3>2. CASE n # 1
      BY <1>1, <1>5, <2>1, <3>2 DEF Removing
    <3> QED
      BY <3>1, <3>2
  <2>2. ASSUME NEW j \in Consumers, job[j].kind \in {"exit", "closed"}, job[j].from = id[c]
        PROVE  Removing(c)'
    BY <1>1, <1>2, <2>2 DEF Removing, NoMsg
  <2> QED
    BY <1>6, <2>1, <2>2 DEF Removing
<1> QED
  BY <1>4, <1>6, ConsumerRemembersIf DEF Consumer, ConsumerAlone

\* The look-up finds whoever is in the pool under the id, so no message to remove
\* such a client is dropped.
LEMMA LookUpRemembers ==
    ASSUME IInv, Books, Remembered, NEW k \in Consumers, LookUp(k) PROVE Remembered'
<1> DEFINE found == CP!Get(job[k].from)
<1>1. /\ job[k] # NoMsg /\ ref[k] = NoClient
      /\ ref' = [ref EXCEPT ![k] = found]
      /\ job' = [job EXCEPT ![k] = IF found = NoClient THEN NoMsg ELSE @]
      /\ UNCHANGED <<msg_queue, at, conn, id>>
  BY DEF LookUp, gameVars, mainVars
<1>2. found # NoClient =>
        found \in Clients /\ id[found] = job[k].from /\ conn[found] \in {"numbered", "served", "gone"}
  <2> SUFFICES ASSUME found # NoClient
               PROVE  found \in Clients /\ id[found] = job[k].from
                      /\ conn[found] \in {"numbered", "served", "gone"}
    OBVIOUS
  <2>1. job[k].from \in 1..MaxClients + 1 /\ found = pool[job[k].from] /\ found \in Clients
    BY DEF CP!Get, CP!InBounds, CP!Slots, IInv, OwnIds
  <2>2. id[found] = job[k].from
    BY <2>1 DEF IInv, OwnIds
  <2>3. conn[found] \in {"numbered", "served", "gone"}
    <3>1. job[k].from \in 1..MaxClients
      BY <2>1, PlacesAssumption, NoClientAssumption DEF Books, C!IInv, C!LastSlotUnused
    <3>2. InPool(found)
      BY <2>1, <3>1 DEF InPool
    <3> QED
      BY <2>1, <3>2 DEF Remembered, Numbered
  <2> QED
    BY <2>1, <2>2, <2>3
<1>3. ASSUME NEW c \in Clients, InPool(c), job[k].from = id[c] PROVE found # NoClient
  <2>1. id[c] \in 1..MaxClients /\ pool[id[c]] = c /\ c # NoClient
    BY <1>3, PlaceIsOwn DEF IInv
  <2> QED
    BY <1>3, <2>1, PlacesAssumption DEF CP!Get, CP!InBounds, CP!Slots
<1> HIDE DEF found
<1>4. ASSUME NEW j \in Consumers
      PROVE  /\ ref'[j] # NoClient => /\ conn'[ref'[j]] \in {"numbered", "served", "gone"}
                                      /\ id'[ref'[j]] = job'[j].from
             /\ at'[j] # "idle" => ref'[j] # NoClient /\ job'[j].kind = "ready"
  <2>1. CASE j = k
    <3>1. ref'[j] = found /\ (found # NoClient => job'[j] = job[k]) /\ at'[j] = "idle"
      BY <1>1, <2>1 DEF IInv, Mail, Remembered, Resolved
    <3> QED
      BY <1>1, <1>2, <3>1
  <2>2. CASE j # k
    BY <1>1, <2>2 DEF IInv, Mail, Remembered, Resolved
  <2> QED
    BY <2>1, <2>2
<1>5. Resolved'
  BY <1>4 DEF Resolved
<1>6. ASSUME NEW c \in Clients, InPool(c)', Removing(c) PROVE Removing(c)'
  <2>1. InPool(c)
    BY <1>6 DEF LookUp, poolVars, InPool
  <2>2. \A j \in Consumers : job[j].from = id[c] => job'[j] = job[j]
    BY <1>1, <1>3, <2>1 DEF IInv, Mail
  <2> QED
    BY <1>1, <1>6, <2>2 DEF Removing
<1> QED
  BY <1>5, <1>6, ConsumerRemembersIf DEF Consumer, ConsumerAlone

LEMMA RemoveClientRemembers ==
    ASSUME IInv, Remembered, NEW k \in Consumers, RemoveClient(k) PROVE Remembered'
<1>1. /\ ref[k] # NoClient /\ job[k].kind \in {"exit", "closed"}
      /\ RemoveId(id[ref[k]])
      /\ job' = [job EXCEPT ![k] = NoMsg] /\ ref' = [ref EXCEPT ![k] = NoClient]
      /\ UNCHANGED <<msg_queue, at, conn, id>>
  BY DEF RemoveClient, Handles, Done, gameVars, mainVars
<1>2. id[ref[k]] = job[k].from /\ at[k] = "idle"
  BY <1>1 DEF Remembered, Resolved
<1>3. Resolved'
  BY <1>1, <1>2 DEF Remembered, Resolved, IInv, Mail
<1>4. ASSUME NEW c \in Clients, InPool(c)', Removing(c) PROVE Removing(c)'
  <2>1. job[k].from # id[c]
    BY <1>1, <1>2, <1>4, RemovedIsOut DEF IInv
  <2>2. \A j \in Consumers : job[j].from = id[c] => job'[j] = job[j]
    BY <1>1, <2>1 DEF IInv, Mail
  <2> QED
    BY <1>1, <1>4, <2>2 DEF Removing
<1> QED
  BY <1>3, <1>4, ConsumerRemembersIf DEF Consumer, ConsumerAlone

\* The other messages take nobody out of the pool.
LEMMA HandlingRemembers ==
    ASSUME IInv, Books, Remembered, NEW k \in Consumers,
           \/ Reply(k) \/ TellGame(k) \/ Ready(k) \/ MakeGame(k) \/ MakeWait(k)
           \/ Announce(k)
    PROVE  Remembered'
<1>1. DOMAIN at = Consumers
  BY DEF Books, G!IInv, G!TypeOK
<1>2. /\ UNCHANGED <<msg_queue, conn, id>>
      /\ \/ Done(k) /\ at'[k] = "idle"
         \/ /\ UNCHANGED <<job, ref>>
            /\ at'[k] # "idle" => ref[k] # NoClient /\ job[k].kind = "ready"
      /\ job[k].kind \notin {"exit", "closed"}
      /\ \A j \in Consumers : j # k => at'[j] = at[j]
  <2>1. CASE Reply(k) \/ TellGame(k)
    BY <2>1 DEF Reply, TellGame, Handles, mainVars, gameVars, Remembered, Resolved
  <2>2. CASE Ready(k)
    BY <1>1, <2>2 DEF Ready, Handles, mainVars, consVars, GP!AddReadyClient, GP!StartsToWait,
       GP!ReplacesExpired, GP!FindsNoGame, GP!StartsGame
  <2>3. CASE MakeGame(k)
    BY <1>1, <2>3 DEF MakeGame, mainVars, consVars, GP!SetSearching, GP!SetInGame, GP!SetStatus,
       GP!SetGameId, GP!StoreGame, Remembered, Resolved
  <2>4. CASE Announce(k) \/ MakeWait(k)
    BY <1>1, <2>4 DEF Announce, MakeWait, mainVars, GP!Broadcast, GP!Enqueue, Remembered, Resolved
  <2> QED
    BY <2>1, <2>2, <2>3, <2>4
<1>3. Resolved'
  BY <1>2 DEF Done, Remembered, Resolved, IInv, Mail
<1>4. ASSUME NEW c \in Clients, Removing(c) PROVE Removing(c)'
  <2>1. \A j \in Consumers : job[j].kind \in {"exit", "closed"} => job'[j] = job[j]
    BY <1>2 DEF Done, IInv, Mail
  <2> QED
    BY <1>2, <1>4, <2>1 DEF Removing
<1> QED
  BY <1>3, <1>4, ConsumerRemembersIf DEF Consumer, ConsumerAlone

LEMMA NextRemembered == IInv /\ Books /\ Counts /\ Remembered /\ [Next]_vars => Remembered'
<1> SUFFICES ASSUME IInv, Books, Counts, Remembered, [Next]_vars PROVE Remembered'
  OBVIOUS
<1>1. CASE Peers \/ Main
  BY <1>1, PeersRemember, AcceptRemembers, JoinRemembers, ConfirmRemembers DEF Main, MainAlone
<1>2. ASSUME NEW p \in Producers, Producer(p) PROVE Remembered'
  BY <1>2, TakeClientRemembers, ReadingRemembers, PuttingBackRemembers DEF Producer
<1>3. ASSUME NEW k \in Consumers, Consumer(k) PROVE Remembered'
  BY <1>3, TakeMessageRemembers, LookUpRemembers, RemoveClientRemembers, HandlingRemembers
     DEF Consumer, ConsumerAlone
<1>4. CASE UNCHANGED vars
  <2>1. UNCHANGED <<pool, conn, mpc, joining, id, at, c_queue, msg_queue, ppc, hand, job, ref,
                    tout_count, left_to_game, spoke_error>>
    BY <1>4 DEF vars, poolVars, gameVars, mainVars, prodVars, consVars
  <2> QED
    BY <2>1 DEF Remembered, Numbered, Resolved, NobodyForgotten, Tended, Places, Holders, InPool
<1> QED
  BY <1>1, <1>2, <1>3, <1>4 DEF Next, Running

\* client_message_producer::run hands a client back to the queue, or says that it
\* is closed or silent, and message_consumer::run removes whom it is told to: no
\* client stays in the pool without one or the other, whatever others write in its
\* name, but for those whose game was told that they are silent or gone, those
\* reported silent once too often, and those that sent an ERROR message.
THEOREM NobodyIsForgotten == Spec => []NobodyForgotten
<1>1. Spec => [](IInv /\ Books /\ Counts /\ Remembered)
  BY InitIInv, InitBooks, InitCounts, InitRemembered, NextIInv, NextBooks, NextCounts,
     NextRemembered, PTL DEF Spec
<1>2. Remembered => NobodyForgotten
  BY DEF Remembered
<1> QED
  BY <1>1, <1>2, PTL

-----------------------------------------------------------------------------
(* The matchmaker inside the server *)

LEMMA SameBooks ==
    /\ G!Waiting = GP!Waiting /\ G!Matches = GP!Matches /\ G!GameIds = GP!GameIds
    /\ G!Waiting' = GP!Waiting' /\ G!Matches' = GP!Matches'
BY DEF G!Waiting, GP!Waiting, G!Matches, GP!Matches, G!Stored, GP!Stored, G!InMaking,
       GP!InMaking, G!GameIds, GP!GameIds, G!NoGame, GP!NoGame, G!Making, GP!Making

LEMMA SameMaker ==
    /\ G!Maker!Init => GP!Maker!Init
    /\ G!Maker!Next => GP!Maker!Next
<1>1. G!Maker!Init => GP!Maker!Init
  BY SameBooks DEF G!Maker!Init, GP!Maker!Init
<1>2. ASSUME G!Maker!Next PROVE GP!Maker!Next
  <2>1. ASSUME NEW c \in Clients, G!Maker!Wait(c) PROVE GP!Maker!Wait(c)
    BY <2>1, SameBooks DEF G!Maker!Wait, GP!Maker!Wait
  <2>2. ASSUME NEW c \in Clients, G!Maker!Begin(c) PROVE GP!Maker!Begin(c)
    BY <2>2, SameBooks DEF G!Maker!Begin, GP!Maker!Begin, G!Maker!Match, GP!Maker!Match
  <2>3. G!Maker!SendAway => GP!Maker!SendAway
    BY SameBooks DEF G!Maker!SendAway, GP!Maker!SendAway
  <2>4. ASSUME NEW g, G!Maker!End(g) PROVE GP!Maker!End(g)
    BY <2>4, SameBooks DEF G!Maker!End, GP!Maker!End
  <2> QED
    BY <1>2, <2>1, <2>2, <2>3, <2>4, SameBooks DEF G!Maker!Next, GP!Maker!Next
<1> QED
  BY <1>1, <1>2

LEMMA MatchesKept ==
    ASSUME Books, UNCHANGED gameVars PROVE G!Maker!Next
<1>1. UNCHANGED <<games, ready_queue, at, deal, section>>
  BY DEF gameVars
<1>2. G!InMaking' = G!InMaking /\ G!Waiting' = G!Waiting
  BY <1>1 DEF G!InMaking, G!Waiting
<1>3. G!Matches' = G!Matches
  BY <1>1, <1>2, PoolsFit, G!MatchesStay
<1> QED
  BY <1>2, <1>3, AliveAreClients DEF G!Maker!Next

LEMMA MakerStep == IInv /\ Books /\ [Next]_vars => G!Maker!Next
<1> SUFFICES ASSUME IInv, Books, [Next]_vars PROVE G!Maker!Next
  OBVIOUS
<1>1. ASSUME NEW k \in Consumers, Ready(k) PROVE G!Maker!Next
  <2>1. PICK c \in Clients : GP!AddReadyClient(k, c)
    BY <1>1 DEF Ready, Handles, IInv, Mail
  <2>2. G!AddReadyClient(k, c)
    BY <2>1, PoolSteps
  <2> QED
    BY <2>2, PoolsFit, AliveAreClients, G!AddReadyMatches DEF Books
<1>2. ASSUME NEW k \in Consumers, MakeGame(k) \/ Announce(k) PROVE G!Maker!Next
  <2>1. G!SetSearching(k) \/ G!SetInGame(k) \/ G!StoreGame(k) \/ G!Broadcast(k)
    BY <1>2, PoolSteps DEF MakeGame, Announce
  <2>2. UNCHANGED <<G!Waiting, G!Matches>>
    BY <2>1, PoolsFit, G!DealMatches DEF Books
  <2> QED
    BY <2>2, AliveAreClients DEF G!Maker!Next
<1>3. CASE UNCHANGED gameVars
  BY <1>3, MatchesKept
<1>4. ASSUME NEW k \in Consumers, MakeWait(k) PROVE G!Maker!Next
  <2>1. G!Enqueue(k)
    BY <1>4, PoolSteps DEF MakeWait
  <2>2. deal[k].one \in Clients /\ G!Maker!Wait(deal[k].one)
    BY <2>1, PoolsFit, G!EnqueueMatches DEF Books
  <2> QED
    BY <2>2, AliveAreClients DEF G!Maker!Next
<1>5. \/ UNCHANGED gameVars
      \/ \E k \in Consumers : Ready(k) \/ MakeGame(k) \/ MakeWait(k) \/ Announce(k)
  <2>1. CASE Peers
    BY <2>1 DEF Peers, Connect, Greet, PeerSend, Leave
  <2>2. CASE Main
    BY <2>2 DEF Main, MainAlone, Accept, Deny, Join, Confirm, FailConfirm
  <2>3. ASSUME NEW p \in Producers, Producer(p) PROVE UNCHANGED gameVars
    BY <2>3 DEF Producer, TakeClient, Poll, Receive, ReceiveClosed, ReceiveTimeout, ReceiveError,
       ReceiveUnknown, ReAdd, Drop
  <2>4. ASSUME NEW k \in Consumers, Consumer(k)
        PROVE  UNCHANGED gameVars \/ Ready(k) \/ MakeGame(k) \/ MakeWait(k) \/ Announce(k)
    BY <2>4 DEF Consumer, ConsumerAlone, TakeMessage, LookUp, RemoveClient, Reply, TellGame
  <2> QED
    BY <2>1, <2>2, <2>3, <2>4 DEF Next, Running, vars
<1> QED
  BY <1>1, <1>2, <1>3, <1>4, <1>5

\* Whatever connects, leaves or is removed meanwhile, the consumers that handle
\* GAME_READY match each client with one that waited and is still there, under a
\* number of their own, as if in one step.
THEOREM MatchmakerInServer == Spec => ClientsAreMatched
<1>1. Init => G!Maker!Init
  <2>1. ASSUME Init
        PROVE  /\ games = [g \in G!GameIds |-> G!NoGame] /\ ready_queue = << >>
               /\ at = [k \in Consumers |-> "idle"]
    BY <2>1 DEF Init, GP!GameIds, G!GameIds, GP!NoGame, G!NoGame
  <2> QED
    BY <2>1, PoolsFit, AliveAreClients, G!InitMaker
<1>2. Init => GP!Maker!Init
  BY <1>1, SameMaker
<1>3. IInv /\ Books /\ [Next]_vars => [GP!Maker!Next]_GP!Maker!matchVars
  BY MakerStep, SameMaker
<1> QED
  BY <1>2, <1>3, Safety, PTL DEF Spec, ClientsAreMatched, GP!ImplementsMatchmaker, GP!Maker!Spec
=============================================================================
