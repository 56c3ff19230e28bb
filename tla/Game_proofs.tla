----------------------------- MODULE Game_proofs -----------------------------
(***************************************************************************)
(* A game between two clients, for any number of consumers, any boards and  *)
(* shots and any number of messages: a player reads a verdict before the    *)
(* coordinates it is about, every shot reaches the opponent once and as it  *)
(* was sent, and a board ends up with its owner.                            *)
(*                                                                          *)
(* What is said of a quiet game is not inductive.  The invariant is a       *)
(* balance: what a player has sent is what came of it plus what is still in *)
(* the queue or in a consumer's hand (ShotsBalance, BoardsBalance), and     *)
(* each message on its way is one that was sent (Genuine).  The order of    *)
(* verdict and coordinates rests on the mutex: its owner is the only one    *)
(* who is between the two (OneInside, Reports).                             *)
(***************************************************************************)
EXTENDS Game, FiniteSetTheorems, TLAPS

Sendable ==
    {Message("board", b) : b \in BoardPayloads} \cup {Message("shot", s) : s \in ShotPayloads}

\* What the server has in hand once it has read message m of player p.
Arrived(p, m) == [from |-> ClientId[p], sig |-> m.sig, payload |-> Parsed(m.payload)]
Arrivals == {Arrived(p, m) : p \in Players, m \in Sendable}
Signals == {"created", "player_one", "player_two", "hit", "miss", "shot"}
Received == [sig : Signals, payload : Seq(Bytes)]

Inside == {"board", "number", "shot", "tell", "relay"}

Types ==
    /\ TypeOK
    /\ queue \in Seq(Arrivals)
    /\ sent \in [Players -> Seq(Sendable)]
    /\ inbox \in [Players -> Seq(Received)]
    /\ job \in [Consumers -> Arrivals \cup {NoJob}]

\* A consumer has a message from taking it to unlocking the game, and is in the
\* part of handle_message that its signal names.
JobsFit ==
    \A k \in Consumers :
        /\ job[k] = NoJob <=> pc[k] \in {"idle", "announce_one", "announce_two"}
        /\ pc[k] \in {"board", "number"} => job[k].sig = "board"
        /\ pc[k] \in {"shot", "tell", "relay"} => job[k].sig = "shot"

OneInside == \A k \in Consumers : mutex = k <=> pc[k] \in Inside

Reports ==
    /\ ReportsWhole
    /\ \A k \in Consumers : pc[k] = "relay" /\ Opponent(k) \in alive =>
          Reported(inbox[Opponent(k)], Len(inbox[Opponent(k)]) + 1)

\* The places of a sequence, and the consumers, that hold a message of a set.
Where(s, S) == {n \in DOMAIN s : s[n] \in S}
Count(s, S) == Cardinality(Where(s, S))
InHand(S) == {k \in Consumers : job[k] \in S}

OfSignals(M, sigs) == {m \in M : m.sig \in sigs}
OfShot(M, i) == {m \in OfSignals(M, {"shot"}) : Byte(m.payload, 0) = i}
From(p) == {m \in Arrivals : m.from = ClientId[p]}

\* Messages of p that are on their way.
Pending(S) == Count(queue, S) + Cardinality(InHand(S))

ShotsBalance ==
    alive = Players => \A p \in Players, i \in Bytes :
        Count(sent[p], OfShot(Sendable, i))
            = Count(inbox[1 - p], OfShot(Received, i)) + Pending(OfShot(From(p), i))

BoardsBalance ==
    alive = Players => \A p \in Players :
        Count(sent[p], OfSignals(Sendable, {"board"}))
            = Count(inbox[p], OfSignals(Received, {"player_one", "player_two"}))
              + Pending(OfSignals(From(p), {"board"}))

WasSent(m) == \E p \in Players : \E n \in DOMAIN sent[p] : m = Arrived(p, sent[p][n])

Genuine ==
    /\ \A n \in DOMAIN queue : WasSent(queue[n])
    /\ \A k \in Consumers : job[k] # NoJob => WasSent(job[k])

OwnNumber(p) == IF p = 0 THEN "player_one" ELSE "player_two"

\* Row p has a board that p has sent, from when the first was taken.
RowSent(p) ==
    \E n \in Signed(sent[p], {"board"}) : boards[p] = Row(sent[p][n].payload)

RowsAreOwn ==
    \A p \in Players :
        /\ \A n \in Signed(inbox[p], {"player_one", "player_two"}) :
              inbox[p][n].sig = OwnNumber(p) /\ RowSent(p)
        /\ \A k \in Consumers : pc[k] = "number" /\ Sender(k) = p => RowSent(p)

IInv ==
    /\ Types
    /\ JobsFit
    /\ OneInside
    /\ Reports
    /\ ShotsBalance
    /\ BoardsBalance
    /\ Genuine
    /\ RowsAreOwn

-----------------------------------------------------------------------------
(* Payloads and players *)

LEMMA SendableIs ==
    ASSUME NEW m \in Sendable
    PROVE  /\ m.sig \in {"board", "shot"}
           /\ m.payload \in Seq(Bytes) /\ Len(m.payload) >= 1
           /\ m.sig = "board" => Len(m.payload) >= BoardSize
           /\ m = [sig |-> m.sig, payload |-> m.payload]
<1>1. ASSUME NEW q \in Seq(Bytes), Len(q) >= 1
      PROVE  /\ Encoded(q) \in Seq(Bytes) /\ Len(Encoded(q)) = Len(q)
             /\ \A sig : Message(sig, q) = [sig |-> sig, payload |-> Encoded(q)]
  BY <1>1 DEF Encoded, Message, Bytes, Terminator
<1>2. \A b \in BoardPayloads : b \in Seq(Bytes) /\ Len(b) >= BoardSize /\ Len(b) >= 1
  BY PayloadAssumption, BoardSizeAssumption
<1>3. CASE \E b \in BoardPayloads : m = Message("board", b)
  BY <1>1, <1>2, <1>3
<1>4. CASE \E q \in ShotPayloads : m = Message("shot", q)
  BY <1>1, <1>4, PayloadAssumption
<1> QED
  BY <1>3, <1>4 DEF Sendable

\* What arrives is what was sent, with a byte behind it.
LEMMA ArrivedIs ==
    ASSUME NEW p \in Players, NEW m \in Sendable
    PROVE  /\ Arrived(p, m) \in Arrivals
           /\ Arrived(p, m).from = ClientId[p] /\ Arrived(p, m).sig = m.sig
           /\ Arrived(p, m).payload \in Seq(Bytes)
           /\ Len(Arrived(p, m).payload) >= 2
           /\ Byte(Arrived(p, m).payload, 0) = Byte(m.payload, 0)
           /\ Byte(m.payload, 0) \in Bytes
           /\ m.sig = "board" => /\ Row(Arrived(p, m).payload) = Row(m.payload)
                                 /\ Row(m.payload) \in [Squares -> Bytes]
<1>1. /\ m.payload \in Seq(Bytes) /\ Len(m.payload) \in Nat \ {0} /\ Terminator \in Bytes
      /\ m.sig = "board" => Len(m.payload) >= BoardSize
  BY SendableIs DEF Terminator, Bytes
<1>2. /\ Parsed(m.payload) \in Seq(Bytes) /\ Len(Parsed(m.payload)) = Len(m.payload) + 1
      /\ \A i \in 1..Len(m.payload) : Parsed(m.payload)[i] = m.payload[i]
  BY <1>1 DEF Parsed
<1>3. ASSUME m.sig = "board"
      PROVE  /\ Row(Parsed(m.payload)) = Row(m.payload)
             /\ Row(m.payload) \in [Squares -> Bytes]
  <2>1. \A i \in Squares : i + 1 \in 1..Len(m.payload)
    BY <1>1, <1>3, BoardSizeAssumption DEF Squares
  <2> QED
    BY <1>1, <1>2, <2>1 DEF Row, Byte
<1> QED
  BY <1>1, <1>2, <1>3 DEF Arrived, Arrivals, Byte

LEMMA PlayerOfId ==
    ASSUME NEW p \in Players
    PROVE  c_to_p(ClientId[p]) = p /\ 1 - p \in Players /\ 1 - (1 - p) = p
<1>1. \A q \in Players : ClientId[q] = ClientId[p] => q = p
  BY IdsAssumption DEF Players
<1> QED
  BY <1>1 DEF c_to_p, Players

\* A message in hand: who sent it, and what to.
LEMMA JobIs ==
    ASSUME Types, JobsFit, NEW k \in Consumers, job[k] # NoJob
    PROVE  \E p \in Players, m \in Sendable :
              job[k] = Arrived(p, m) /\ Sender(k) = p /\ Opponent(k) = 1 - p
<1>1. PICK p \in Players, m \in Sendable : job[k] = Arrived(p, m)
  BY DEF Types, Arrivals
<1> QED
  BY <1>1, ArrivedIs, PlayerOfId DEF Sender, Opponent

\* What the server sends without a payload, and with the payload of a shot.
LEMMA ReceivedIs ==
    /\ \A sig \in Signals : Message(sig, << >>) \in Received /\ Message(sig, << >>).sig = sig
    /\ \A q \in Seq(Bytes) : Len(q) >= 2 =>
          /\ Message("shot", q) \in Received /\ Message("shot", q).sig = "shot"
          /\ Byte(Message("shot", q).payload, 0) = Byte(q, 0)
<1>1. ASSUME NEW sig \in Signals
      PROVE  Message(sig, << >>) \in Received /\ Message(sig, << >>).sig = sig
  BY DEF Message, Received
<1>2. ASSUME NEW q \in Seq(Bytes), Len(q) >= 2
      PROVE  /\ Message("shot", q) \in Received /\ Message("shot", q).sig = "shot"
             /\ Byte(Message("shot", q).payload, 0) = Byte(q, 0)
  <2>1. Terminator \in Bytes
    BY DEF Terminator, Bytes
  <2>2. /\ [q EXCEPT ![Len(q)] = Terminator] \in Seq(Bytes)
        /\ [q EXCEPT ![Len(q)] = Terminator][1] = q[1]
    <3>1. PICK n \in Nat : n = Len(q) /\ 1 \in 1..n /\ n \in 1..n /\ n > 1
      BY <1>2
    <3>2. q \in [1..n -> Bytes]
      BY <3>1
    <3>3. [q EXCEPT ![n] = Terminator] \in [1..n -> Bytes]
      BY <2>1, <3>1, <3>2
    <3> QED
      BY <3>1, <3>2, <3>3
  <2>3. Message("shot", q) = [sig |-> "shot", payload |-> Encoded(q)]
    BY <1>2 DEF Message
  <2>4. Encoded(q) \in Seq(Bytes) /\ Encoded(q)[1] = q[1]
    BY <2>2 DEF Encoded
  <2> QED
    BY <2>3, <2>4 DEF Received, Signals, Byte
<1> QED
  BY <1>1, <1>2

-----------------------------------------------------------------------------
(* Counting *)

One(e, S) == IF e \in S THEN 1 ELSE 0

LEMMA CountIsNatural ==
    ASSUME NEW M, NEW s \in Seq(M), NEW S
    PROVE  IsFiniteSet(Where(s, S)) /\ Count(s, S) \in Nat
<1>1. IsFiniteSet(1..Len(s)) /\ Where(s, S) \subseteq 1..Len(s)
  BY FS_Interval DEF Where
<1> QED
  BY <1>1, FS_Subset, FS_CardinalityType DEF Count

LEMMA CountAppend ==
    ASSUME NEW M, NEW s \in Seq(M), NEW e \in M, NEW S
    PROVE  Count(Append(s, e), S) = Count(s, S) + One(e, S)
<1>1. IsFiniteSet(Where(s, S)) /\ Count(s, S) \in Nat
  BY CountIsNatural
<1>2. /\ Len(s) \in Nat /\ DOMAIN s = 1..Len(s)
      /\ DOMAIN Append(s, e) = 1..Len(s) + 1 /\ Append(s, e)[Len(s) + 1] = e
      /\ \A n \in 1..Len(s) : Append(s, e)[n] = s[n]
  OBVIOUS
<1>3. CASE e \in S
  <2>1. Where(Append(s, e), S) = Where(s, S) \cup {Len(s) + 1}
    BY <1>2, <1>3 DEF Where
  <2>2. Len(s) + 1 \notin Where(s, S)
    BY <1>2 DEF Where
  <2> QED
    BY <1>1, <1>3, <2>1, <2>2, FS_AddElement DEF Count, One
<1>4. CASE e \notin S
  <2>1. Where(Append(s, e), S) = Where(s, S)
    BY <1>2, <1>4 DEF Where
  <2> QED
    BY <1>1, <1>4, <2>1 DEF Count, One
<1> QED
  BY <1>3, <1>4

LEMMA CountTail ==
    ASSUME NEW M, NEW s \in Seq(M), s # << >>, NEW S
    PROVE  Count(s, S) = Count(Tail(s), S) + One(Head(s), S)
<1>1. /\ Tail(s) \in Seq(M) /\ Len(s) \in Nat \ {0} /\ DOMAIN s = 1..Len(s)
      /\ DOMAIN Tail(s) = 1..Len(s) - 1 /\ Head(s) = s[1]
      /\ \A n \in 1..Len(s) - 1 : Tail(s)[n] = s[n + 1]
  OBVIOUS
<1> DEFINE Later == Where(s, S) \ {1}
           shift == [n \in Where(Tail(s), S) |-> n + 1]
<1>2. IsFiniteSet(Where(s, S)) /\ IsFiniteSet(Where(Tail(s), S)) /\ Count(Tail(s), S) \in Nat
  BY <1>1, CountIsNatural
<1>3. shift \in Bijection(Where(Tail(s), S), Later)
  <2>1. \A n \in Where(Tail(s), S) : n \in Int /\ n + 1 \in Later
    BY <1>1 DEF Where
  <2>2. ASSUME NEW n \in Later PROVE n - 1 \in Where(Tail(s), S) /\ shift[n - 1] = n
    BY <1>1, <2>2 DEF Where
  <2>3. shift \in [Where(Tail(s), S) -> Later]
    BY <2>1
  <2>4. \A a, b \in Where(Tail(s), S) : shift[a] = shift[b] => a = b
    BY <2>1
  <2>5. \A n \in Later : \E a \in Where(Tail(s), S) : shift[a] = n
    BY <2>2
  <2> QED
    BY <2>3, <2>4, <2>5 DEF Bijection, Injection, IsInjective, Surjection
<1>4. Cardinality(Later) = Count(Tail(s), S)
  BY <1>2, <1>3, FS_Bijection DEF ExistsBijection, Count
<1>5. Cardinality(Later) = IF 1 \in Where(s, S) THEN Count(s, S) - 1 ELSE Count(s, S)
  BY <1>2, FS_RemoveElement DEF Count
<1>6. 1 \in Where(s, S) <=> Head(s) \in S
  BY <1>1 DEF Where
<1>7. Count(s, S) \in Nat
  BY CountIsNatural
<1> QED
  BY <1>2, <1>4, <1>5, <1>6, <1>7 DEF One

LEMMA InHandIsNatural ==
    ASSUME NEW S PROVE IsFiniteSet(InHand(S)) /\ Cardinality(InHand(S)) \in Nat
BY ConsumersAssumption, FS_Subset, FS_CardinalityType DEF InHand

\* A consumer takes a message, or is done with one.
LEMMA InHandChanged ==
    ASSUME NEW k \in Consumers, DOMAIN job = Consumers, NEW e, NEW S,
           job' = [job EXCEPT ![k] = e]
    PROVE  Cardinality(InHand(S)') + One(job[k], S) = Cardinality(InHand(S)) + One(e, S)
<1>1. /\ IsFiniteSet(InHand(S)) /\ Cardinality(InHand(S)) \in Nat
  BY InHandIsNatural
<1> DEFINE others == InHand(S) \ {k}
<1>2. /\ IsFiniteSet(others) /\ Cardinality(others) \in Nat /\ k \notin others
      /\ Cardinality(others) = Cardinality(InHand(S)) - One(job[k], S)
  <2>1. k \in InHand(S) <=> job[k] \in S
    BY DEF InHand
  <2>2. /\ IsFiniteSet(others)
        /\ Cardinality(others) = IF k \in InHand(S) THEN Cardinality(InHand(S)) - 1
                                                    ELSE Cardinality(InHand(S))
    BY <1>1, FS_RemoveElement
  <2>3. Cardinality(others) \in Nat
    BY <2>2, FS_CardinalityType
  <2> QED
    BY <1>1, <2>1, <2>2, <2>3 DEF One
<1>3. InHand(S)' = IF e \in S THEN others \cup {k} ELSE others
  BY DEF InHand
<1> HIDE DEF others
<1>4. Cardinality(InHand(S)') = Cardinality(others) + One(e, S)
  <2>1. Cardinality(others \cup {k}) = Cardinality(others) + 1
    BY <1>2, FS_AddElement
  <2> QED
    BY <1>2, <1>3, <2>1 DEF One
<1> QED
  BY <1>1, <1>2, <1>4 DEF One

LEMMA NoJobIsNoArrival == NoJob \notin Arrivals
<1>1. ASSUME NEW p \in Players, NEW m \in Sendable PROVE Arrived(p, m).sig # NoJob.sig
  <2>1. Arrived(p, m).sig \in {"board", "shot"}
    BY SendableIs, ArrivedIs
  <2> QED
    BY <2>1 DEF NoJob
<1> QED
  BY <1>1 DEF Arrivals

LEMMA InitIInv == Init => IInv
<1> SUFFICES ASSUME Init PROVE IInv
  OBVIOUS
<1> USE DEF Init
<1>1. Types
  BY ConsumersAssumption, UninitializedAssumption DEF Types, TypeOK
<1>2. JobsFit /\ OneInside
  BY ConsumersAssumption DEF JobsFit, OneInside, Inside
<1>3. Reports
  BY DEF Reports, ReportsWhole, Signed
<1>4. ASSUME NEW S \in SUBSET Arrivals PROVE Pending(S) = 0
  <2>1. Where(queue, S) = {}
    BY DEF Where
  <2>2. InHand(S) = {}
    BY NoJobIsNoArrival DEF InHand
  <2>3. Cardinality({}) = 0
    BY FS_EmptySet
  <2>4. Count(queue, S) = 0
    <3> HIDE DEF Init
    <3> QED
      BY <2>1, <2>3 DEF Count
  <2>5. Cardinality(InHand(S)) = 0
    BY <2>2, <2>3
  <2> QED
    BY <2>4, <2>5 DEF Pending
<1>5. ASSUME NEW p \in Players, NEW S PROVE Count(sent[p], S) = 0 /\ Count(inbox[p], S) = 0
  <2>1. Where(sent[p], S) = {} /\ Where(inbox[p], S) = {}
    BY DEF Where
  <2> QED
    BY <2>1, FS_EmptySet DEF Count
<1>6. ShotsBalance
  <2> SUFFICES ASSUME NEW p \in Players, NEW i \in Bytes
               PROVE  Count(sent[p], OfShot(Sendable, i))
                        = Count(inbox[1 - p], OfShot(Received, i)) + Pending(OfShot(From(p), i))
    BY DEF ShotsBalance
  <2>1. OfShot(From(p), i) \subseteq Arrivals
    BY DEF OfShot, OfSignals, From
  <2> QED
    BY <1>4, <1>5, <2>1, PlayerOfId
<1>7. BoardsBalance
  <2> SUFFICES ASSUME NEW p \in Players
               PROVE  Count(sent[p], OfSignals(Sendable, {"board"}))
                        = Count(inbox[p], OfSignals(Received, {"player_one", "player_two"}))
                          + Pending(OfSignals(From(p), {"board"}))
    BY DEF BoardsBalance
  <2>1. OfSignals(From(p), {"board"}) \subseteq Arrivals
    BY DEF OfSignals, From
  <2> QED
    BY <1>4, <1>5, <2>1
<1>8. Genuine
  BY DEF Genuine
<1>9. RowsAreOwn
  BY DEF RowsAreOwn, Signed
<1> QED
  BY <1>1, <1>2, <1>3, <1>6, <1>7, <1>8, <1>9 DEF IInv

-----------------------------------------------------------------------------
(* Deliveries *)

LEMMA Delivered ==
    ASSUME Types, NEW p \in Players, NEW sig, NEW payload,
           Message(sig, payload) \in Received, Deliver(p, sig, payload)
    PROVE  /\ inbox' \in [Players -> Seq(Received)]
           /\ \A q \in Players : inbox'[q] =
                 IF q = p /\ p \in alive THEN Append(inbox[q], Message(sig, payload))
                                         ELSE inbox[q]
<1>1. inbox \in [Players -> Seq(Received)] /\ inbox[p] \in Seq(Received)
  BY DEF Types
<1>2. Append(inbox[p], Message(sig, payload)) \in Seq(Received)
  BY <1>1
<1> QED
  BY <1>1, <1>2 DEF Deliver

\* A verdict counts until the next message but the announcement.
LEMMA ReportedAppended ==
    ASSUME NEW s \in Seq(Received), NEW e \in Received
    PROVE  /\ \A n \in 1..Len(s) + 1 : Reported(s, n) => Reported(Append(s, e), n)
           /\ e.sig \in {"hit", "miss"} => Reported(Append(s, e), Len(s) + 2)
           /\ e.sig = "created" /\ Reported(s, Len(s) + 1) => Reported(Append(s, e), Len(s) + 2)
<1>1. /\ Len(s) \in Nat
      /\ \A n \in 1..Len(s) : Append(s, e)[n] = s[n]
      /\ Append(s, e)[Len(s) + 1] = e
  OBVIOUS
<1>2. ASSUME NEW n \in 1..Len(s) + 1, Reported(s, n) PROVE Reported(Append(s, e), n)
  BY <1>1, <1>2 DEF Reported
<1>3. ASSUME e.sig \in {"hit", "miss"} PROVE Reported(Append(s, e), Len(s) + 2)
  <2>1. Len(s) + 1 \in 1..(Len(s) + 2) - 1 /\ \A i \in (Len(s) + 1) + 1..(Len(s) + 2) - 1 : FALSE
    BY <1>1
  <2> QED
    BY <1>1, <1>3, <2>1 DEF Reported
<1>4. ASSUME e.sig = "created", Reported(s, Len(s) + 1) PROVE Reported(Append(s, e), Len(s) + 2)
  <2>1. PICK m \in 1..Len(s) : /\ s[m].sig \in {"hit", "miss"}
                              /\ \A i \in m + 1..Len(s) : s[i].sig = "created"
    BY <1>1, <1>4 DEF Reported
  <2>2. m \in 1..(Len(s) + 2) - 1 /\ Append(s, e)[m].sig \in {"hit", "miss"}
    BY <1>1, <2>1
  <2>3. \A i \in m + 1..(Len(s) + 2) - 1 : Append(s, e)[i].sig = "created"
    BY <1>1, <1>4, <2>1
  <2> QED
    BY <2>2, <2>3 DEF Reported
<1> QED
  BY <1>2, <1>3, <1>4

\* Coordinates are delivered behind a verdict.
LEMMA ReportsWholeKept ==
    ASSUME Types, ReportsWhole, NEW p \in Players, NEW sig, NEW payload,
           Message(sig, payload) \in Received, Message(sig, payload).sig = sig,
           Deliver(p, sig, payload),
           sig = "shot" /\ p \in alive => Reported(inbox[p], Len(inbox[p]) + 1)
    PROVE  ReportsWhole'
<1> DEFINE e == Message(sig, payload)
<1>1. inbox[p] \in Seq(Received) /\ Len(inbox[p]) \in Nat
  BY DEF Types
<1> SUFFICES ASSUME NEW q \in Players, NEW n \in Signed(inbox'[q], {"shot"})
             PROVE  Reported(inbox'[q], n)
  BY DEF ReportsWhole
<1>2. CASE q = p /\ p \in alive
  <2>1. inbox'[q] = Append(inbox[q], e)
    BY <1>2, Delivered
  <2>2. /\ DOMAIN Append(inbox[q], e) = 1..Len(inbox[q]) + 1
        /\ Append(inbox[q], e)[Len(inbox[q]) + 1] = e
        /\ \A m \in 1..Len(inbox[q]) : Append(inbox[q], e)[m] = inbox[q][m]
        /\ DOMAIN inbox[q] = 1..Len(inbox[q])
    BY <1>1, <1>2
  <2>3. CASE n = Len(inbox[q]) + 1
    <3>1. Reported(inbox[q], n)
      <4>1. inbox'[q][n].sig = "shot"
        BY DEF Signed
      <4>2. e.sig = "shot"
        BY <2>1, <2>2, <2>3, <4>1
      <4> QED
        BY <1>2, <2>3, <4>2
    <3>2. e \in Received /\ inbox[q] \in Seq(Received) /\ n \in 1..Len(inbox[q]) + 1
      BY <1>1, <1>2, <2>3
    <3> HIDE DEF e
    <3> QED
      BY <2>1, <3>1, <3>2, ReportedAppended
  <2>4. CASE n # Len(inbox[q]) + 1
    <3>1. n \in 1..Len(inbox[q]) /\ n \in Signed(inbox[q], {"shot"})
      BY <1>1, <1>2, <2>1, <2>2, <2>4 DEF Signed
    <3>2. Reported(inbox[q], n)
      BY <3>1 DEF ReportsWhole
    <3>3. n \in 1..Len(inbox[q]) + 1
      BY <1>1, <1>2, <3>1
    <3>4. e \in Received /\ inbox[q] \in Seq(Received)
      BY <1>1, <1>2
    <3> HIDE DEF e
    <3> QED
      BY <2>1, <3>2, <3>3, <3>4, ReportedAppended
  <2> QED
    BY <2>3, <2>4
<1>3. CASE ~ (q = p /\ p \in alive)
  BY <1>3, Delivered DEF ReportsWhole
<1> QED
  BY <1>2, <1>3

\* The announcement and verdicts: nothing is counted, and a verdict that stood
\* at the end of an inbox still does.
Notices == {"created", "hit", "miss"}

LEMMA NoticeKeeps ==
    ASSUME IInv, NEW p \in Players, NEW sig \in Notices, Deliver(p, sig, << >>),
           UNCHANGED <<queue, sent, boards, job, alive>>
    PROVE  /\ inbox' \in [Players -> Seq(Received)]
           /\ ReportsWhole' /\ ShotsBalance' /\ BoardsBalance' /\ Genuine'
           /\ \A q \in Players : Signed(inbox'[q], {"player_one", "player_two"})
                                  = Signed(inbox[q], {"player_one", "player_two"})
           /\ \A q \in Players : \A n \in DOMAIN inbox[q] : inbox'[q][n] = inbox[q][n]
           /\ \A q \in Players : Reported(inbox[q], Len(inbox[q]) + 1)
                 => Reported(inbox'[q], Len(inbox'[q]) + 1)
           /\ sig # "created" /\ p \in alive => Reported(inbox'[p], Len(inbox'[p]) + 1)
<1> DEFINE e == Message(sig, << >>)
<1>1. e \in Received /\ e.sig = sig /\ sig # "shot" /\ sig \notin {"player_one", "player_two"}
  BY ReceivedIs DEF Notices, Signals
<1>2. Types
  BY DEF IInv
<1> HIDE DEF e
<1>3. /\ inbox' \in [Players -> Seq(Received)]
      /\ \A q \in Players : inbox'[q] = IF q = p /\ p \in alive THEN Append(inbox[q], e)
                                                               ELSE inbox[q]
  BY <1>1, <1>2, Delivered DEF e
<1>4. ReportsWhole'
  BY <1>1, <1>2, ReportsWholeKept DEF IInv, Reports, e
<1>5. ASSUME NEW q \in Players
      PROVE  /\ inbox[q] \in Seq(Received) /\ Len(inbox[q]) \in Nat
             /\ DOMAIN inbox[q] = 1..Len(inbox[q])
             /\ DOMAIN Append(inbox[q], e) = 1..Len(inbox[q]) + 1
             /\ \A n \in 1..Len(inbox[q]) : Append(inbox[q], e)[n] = inbox[q][n]
             /\ Append(inbox[q], e)[Len(inbox[q]) + 1] = e
             /\ Len(Append(inbox[q], e)) = Len(inbox[q]) + 1
  BY <1>1, <1>2 DEF Types
<1>6. ASSUME NEW q \in Players, NEW S, e \notin S PROVE Count(inbox'[q], S) = Count(inbox[q], S)
  <2>1. Count(Append(inbox[q], e), S) = Count(inbox[q], S) + One(e, S)
    BY <1>1, <1>5, CountAppend
  <2>2. Count(inbox[q], S) \in Nat
    BY <1>5, CountIsNatural
  <2>3. One(e, S) = 0
    BY <1>6 DEF One
  <2>4. Count(Append(inbox[q], e), S) = Count(inbox[q], S)
    BY <2>1, <2>2, <2>3
  <2>5. inbox'[q] = inbox[q] \/ inbox'[q] = Append(inbox[q], e)
    BY <1>3
  <2>6. CASE inbox'[q] = Append(inbox[q], e)
    BY <2>4, <2>6, Zenon
  <2> QED
    BY <2>5, <2>6, Zenon
<1>7. \A S : Pending(S)' = Pending(S)
  BY DEF Pending, InHand
<1>8. ShotsBalance'
  <2>1. \A i \in Bytes : e \notin OfShot(Received, i)
    BY <1>1 DEF OfShot, OfSignals
  <2> QED
    BY <1>6, <1>7, <2>1, PlayerOfId DEF IInv, ShotsBalance
<1>9. BoardsBalance'
  <2>1. e \notin OfSignals(Received, {"player_one", "player_two"})
    BY <1>1 DEF OfSignals
  <2> QED
    BY <1>6, <1>7, <2>1 DEF IInv, BoardsBalance
<1>10. Genuine'
  BY DEF IInv, Genuine, WasSent
<1>11. \A q \in Players : Signed(inbox'[q], {"player_one", "player_two"})
                           = Signed(inbox[q], {"player_one", "player_two"})
  <2> SUFFICES ASSUME NEW q \in Players, inbox'[q] = Append(inbox[q], e)
               PROVE  Signed(inbox'[q], {"player_one", "player_two"})
                        = Signed(inbox[q], {"player_one", "player_two"})
    BY <1>3
  <2>1. \A n \in 1..Len(inbox[q]) + 1 : Append(inbox[q], e)[n].sig \in {"player_one", "player_two"}
          <=> n \in 1..Len(inbox[q]) /\ inbox[q][n].sig \in {"player_one", "player_two"}
    BY <1>1, <1>5
  <2> QED
    BY <1>5, <2>1 DEF Signed
<1>12. \A q \in Players : \A n \in DOMAIN inbox[q] : inbox'[q][n] = inbox[q][n]
  BY <1>3, <1>5
<1>13. ASSUME NEW q \in Players,
              Reported(inbox[q], Len(inbox[q]) + 1) \/ (q = p /\ p \in alive /\ sig # "created"),
              inbox'[q] = Append(inbox[q], e)
       PROVE  Reported(inbox'[q], Len(inbox'[q]) + 1)
  <2>1. Reported(Append(inbox[q], e), Len(inbox[q]) + 2)
    <3>1. sig = "created" \/ sig \in {"hit", "miss"}
      BY DEF Notices
    <3> QED
      BY <1>1, <1>5, <1>13, <3>1, ReportedAppended
  <2>2. Len(inbox'[q]) + 1 = Len(inbox[q]) + 2
    BY <1>5, <1>13
  <2> QED
    BY <1>13, <2>1, <2>2
<1> QED
  BY <1>3, <1>4, <1>8, <1>9, <1>10, <1>11, <1>12, <1>13

-----------------------------------------------------------------------------
(* Rows and control *)

\* A row that a player sent stays one when it sends more.
LEMMA RowsKept ==
    ASSUME Types, RowsAreOwn, UNCHANGED boards,
           \A q \in Players : \A n \in Signed(sent[q], {"board"}) :
              n \in Signed(sent'[q], {"board"}) /\ sent'[q][n] = sent[q][n],
           \A q \in Players : \A n \in Signed(inbox'[q], {"player_one", "player_two"}) :
              \/ inbox'[q][n].sig = OwnNumber(q) /\ RowSent(q)
              \/ /\ n \in Signed(inbox[q], {"player_one", "player_two"})
                 /\ inbox'[q][n] = inbox[q][n],
           \A k \in Consumers : pc'[k] = "number" => pc[k] = "number" /\ job'[k] = job[k]
    PROVE  RowsAreOwn'
<1>1. ASSUME NEW q \in Players, RowSent(q) PROVE RowSent(q)'
  BY <1>1 DEF RowSent
<1> SUFFICES ASSUME NEW p \in Players
             PROVE  /\ \A n \in Signed(inbox'[p], {"player_one", "player_two"}) :
                          inbox'[p][n].sig = OwnNumber(p) /\ RowSent(p)'
                    /\ \A k \in Consumers : pc'[k] = "number" /\ Sender(k)' = p => RowSent(p)'
  BY DEF RowsAreOwn
<1>2. ASSUME NEW n \in Signed(inbox'[p], {"player_one", "player_two"})
      PROVE  inbox'[p][n].sig = OwnNumber(p) /\ RowSent(p)
  BY DEF RowsAreOwn
<1>3. ASSUME NEW k \in Consumers, pc'[k] = "number", Sender(k)' = p PROVE RowSent(p)
  <2>1. pc[k] = "number" /\ Sender(k) = p
    BY <1>3 DEF Sender
  <2> QED
    BY <2>1 DEF RowsAreOwn
<1> QED
  BY <1>1, <1>2, <1>3

\* A consumer goes on with the job it has, inside the game or out of it.
LEMMA WentOn ==
    ASSUME IInv, NEW k \in Consumers, NEW at, Goto(k, at), UNCHANGED <<mutex, job>>,
           \/ /\ job[k] = NoJob /\ at \in {"announce_two", "idle"}
           \/ /\ pc[k] \in Inside /\ job[k] # NoJob
              /\ \/ at = "number" /\ job[k].sig = "board"
                 \/ at \in {"tell", "relay"} /\ job[k].sig = "shot"
    PROVE  /\ pc' \in [Consumers -> {"idle", "announce_one", "announce_two", "lock", "board",
                                     "number", "shot", "tell", "relay"}]
           /\ JobsFit' /\ OneInside'
           /\ \A c \in Consumers : pc'[c] = IF c = k THEN at ELSE pc[c]
<1>1. /\ pc \in [Consumers -> {"idle", "announce_one", "announce_two", "lock", "board",
                               "number", "shot", "tell", "relay"}]
      /\ JobsFit /\ OneInside
  BY DEF IInv, Types, TypeOK
<1>2. \A c \in Consumers : pc'[c] = IF c = k THEN at ELSE pc[c]
  BY <1>1 DEF Goto
<1>3. /\ at \in {"idle", "announce_two", "number", "tell", "relay"}
      /\ at \in Inside <=> pc[k] \in Inside
  BY <1>1 DEF JobsFit, Inside
<1>4. JobsFit'
  BY <1>1, <1>2, <1>3 DEF JobsFit
<1>5. OneInside'
  BY <1>1, <1>2, <1>3 DEF OneInside
<1> QED
  BY <1>1, <1>2, <1>3, <1>4, <1>5 DEF Goto

\* A consumer is done with its message.
LEMMA Unlocked ==
    ASSUME IInv, NEW k \in Consumers, pc[k] \in Inside, Unlock(k)
    PROVE  /\ mutex' \in Consumers \cup {NoThread}
           /\ pc' \in [Consumers -> {"idle", "announce_one", "announce_two", "lock", "board",
                                     "number", "shot", "tell", "relay"}]
           /\ job' \in [Consumers -> Arrivals \cup {NoJob}]
           /\ JobsFit' /\ OneInside'
           /\ \A c \in Consumers : pc'[c] \notin Inside
           /\ \A c \in Consumers : job'[c] = NoJob \/ job'[c] = job[c]
           /\ \A S \in SUBSET Arrivals :
                 /\ Cardinality(InHand(S)) = Cardinality(InHand(S)') + One(job[k], S)
                 /\ Cardinality(InHand(S)') \in Nat
<1>1. /\ pc \in [Consumers -> {"idle", "announce_one", "announce_two", "lock", "board",
                               "number", "shot", "tell", "relay"}]
      /\ job \in [Consumers -> Arrivals \cup {NoJob}]
      /\ JobsFit /\ OneInside
  BY DEF IInv, Types, TypeOK
<1>2. \A c \in Consumers : /\ pc'[c] = IF c = k THEN "idle" ELSE pc[c]
                           /\ job'[c] = IF c = k THEN NoJob ELSE job[c]
  BY <1>1 DEF Unlock, Goto
<1>3. \A c \in Consumers : pc[c] \in Inside <=> c = k
  BY <1>1 DEF OneInside
<1>4. JobsFit'
  BY <1>1, <1>2 DEF JobsFit
<1>5. \A c \in Consumers : pc'[c] \notin Inside
  BY <1>2, <1>3 DEF Inside
<1>6. OneInside'
  BY <1>5, ConsumersAssumption DEF OneInside, Unlock
<1>7. ASSUME NEW S \in SUBSET Arrivals
      PROVE  /\ Cardinality(InHand(S)) = Cardinality(InHand(S)') + One(job[k], S)
             /\ Cardinality(InHand(S)') \in Nat
  <2>1. One(NoJob, S) = 0
    BY NoJobIsNoArrival DEF One
  <2>2. Cardinality(InHand(S)') + One(job[k], S) = Cardinality(InHand(S)) + One(NoJob, S)
    BY <1>1, InHandChanged DEF Unlock
  <2>3. Cardinality(InHand(S)) \in Nat
    BY InHandIsNatural
  <2>4. Cardinality(InHand(S)') \in Nat
    <3>1. IsFiniteSet(InHand(S)')
      BY ConsumersAssumption, FS_Subset DEF InHand
    <3> QED
      BY <3>1, FS_CardinalityType
  <2> QED
    BY <2>1, <2>2, <2>3, <2>4
<1> QED
  BY <1>1, <1>2, <1>4, <1>5, <1>6, <1>7 DEF Unlock, Goto

-----------------------------------------------------------------------------
(* The steps *)

\* A notice is sent by a consumer that goes on.
LEMMA NoticeStep ==
    ASSUME IInv, NEW p \in Players, NEW sig \in Notices, Deliver(p, sig, << >>),
           UNCHANGED <<queue, sent, boards, mutex, job, alive>>,
           NEW k \in Consumers, NEW at, Goto(k, at), at # "number",
           \/ /\ job[k] = NoJob /\ at \in {"announce_two", "idle"}
           \/ /\ pc[k] \in Inside /\ job[k] # NoJob
              /\ at \in {"tell", "relay"} /\ job[k].sig = "shot",
           at = "relay" => sig # "created" /\ p = Opponent(k)
    PROVE  IInv'
<1>1. /\ inbox' \in [Players -> Seq(Received)]
      /\ ReportsWhole' /\ ShotsBalance' /\ BoardsBalance' /\ Genuine'
      /\ \A q \in Players : Signed(inbox'[q], {"player_one", "player_two"})
                             = Signed(inbox[q], {"player_one", "player_two"})
      /\ \A q \in Players : \A n \in DOMAIN inbox[q] : inbox'[q][n] = inbox[q][n]
      /\ \A q \in Players : Reported(inbox[q], Len(inbox[q]) + 1)
            => Reported(inbox'[q], Len(inbox'[q]) + 1)
      /\ sig # "created" /\ p \in alive => Reported(inbox'[p], Len(inbox'[p]) + 1)
  BY NoticeKeeps
<1>2. /\ pc' \in [Consumers -> {"idle", "announce_one", "announce_two", "lock", "board",
                                "number", "shot", "tell", "relay"}]
      /\ JobsFit' /\ OneInside'
      /\ \A c \in Consumers : pc'[c] = IF c = k THEN at ELSE pc[c]
  BY WentOn
<1>3. Types /\ RowsAreOwn /\ Reports
  BY DEF IInv
<1>4. Types'
  BY <1>1, <1>2, <1>3 DEF Types, TypeOK
<1>5. ASSUME NEW c \in Consumers, pc'[c] = "relay", Opponent(c)' \in alive'
      PROVE  Reported(inbox'[Opponent(c)'], Len(inbox'[Opponent(c)']) + 1)
  <2>1. Opponent(c)' = Opponent(c) /\ Opponent(c) \in Players
    BY <1>3, <1>5 DEF Opponent, Sender, Types, TypeOK
  <2>2. CASE c = k
    BY <1>1, <1>2, <1>5, <2>1, <2>2
  <2>3. CASE c # k
    BY <1>1, <1>2, <1>3, <1>5, <2>1, <2>3 DEF Reports
  <2> QED
    BY <2>2, <2>3
<1>6. Reports'
  BY <1>1, <1>5 DEF Reports
<1>7. RowsAreOwn'
  <2>1. \A q \in Players : \A n \in Signed(inbox'[q], {"player_one", "player_two"}) :
              /\ n \in Signed(inbox[q], {"player_one", "player_two"})
              /\ inbox'[q][n] = inbox[q][n]
    BY <1>1 DEF Signed
  <2> QED
    BY <1>2, <1>3, <2>1, RowsKept
<1> QED
  BY <1>1, <1>2, <1>4, <1>6, <1>7 DEF IInv

LEMMA AnnounceIInv == ASSUME IInv, NEW k \in Consumers, Announce(k) PROVE IInv'
<1>1. job[k] = NoJob /\ 0 \in Players /\ 1 \in Players /\ "created" \in Notices
  BY DEF Announce, At, IInv, JobsFit, Players, Notices
<1>2. UNCHANGED <<queue, sent, boards, mutex, job, alive>>
  BY DEF Announce
<1>3. CASE Deliver(0, "created", << >>) /\ Goto(k, "announce_two")
  BY <1>1, <1>2, <1>3, NoticeStep
<1>4. CASE Deliver(1, "created", << >>) /\ Goto(k, "idle")
  BY <1>1, <1>2, <1>4, NoticeStep
<1> QED
  BY <1>3, <1>4 DEF Announce

LEMMA TellShooterIInv == ASSUME IInv, NEW k \in Consumers, TellShooter(k) PROVE IInv'
<1>1. p_to_c(job[k].from) \in Players /\ Verdict(k) \in {"hit", "miss"}
  BY DEF p_to_c, Players, Verdict
<1>2. job[k] # NoJob /\ job[k].sig = "shot" /\ pc[k] \in Inside
  BY DEF TellShooter, At, IInv, JobsFit, Inside
<1>3. /\ Deliver(p_to_c(job[k].from), Verdict(k), << >>) /\ Goto(k, "tell")
      /\ UNCHANGED <<queue, sent, boards, mutex, job, alive>>
  BY DEF TellShooter
<1>4. Verdict(k) \in Notices
  BY <1>1 DEF Notices
<1> QED
  BY <1>1, <1>2, <1>3, <1>4, NoticeStep

LEMMA TellOpponentIInv == ASSUME IInv, NEW k \in Consumers, TellOpponent(k) PROVE IInv'
<1>1. job[k] # NoJob /\ job[k].sig = "shot" /\ pc[k] \in Inside
  BY DEF TellOpponent, At, IInv, JobsFit, Inside
<1>2. p_to_c(Opponent(k)) = Opponent(k) /\ Opponent(k) \in Players
  BY <1>1, JobIs, PlayerOfId DEF p_to_c, Players, IInv
<1>3. Verdict(k) \in {"hit", "miss"} /\ Verdict(k) \in Notices
  BY DEF Verdict, Notices
<1>4. /\ Deliver(Opponent(k), Verdict(k), << >>) /\ Goto(k, "relay")
      /\ UNCHANGED <<queue, sent, boards, mutex, job, alive>>
  BY <1>2 DEF TellOpponent
<1> QED
  BY <1>1, <1>2, <1>3, <1>4, NoticeStep

LEMMA LockIInv == ASSUME IInv, NEW k \in Consumers, Lock(k) PROVE IInv'
<1>1. /\ Types /\ JobsFit /\ OneInside /\ job[k] # NoJob /\ pc[k] = "lock"
      /\ mutex = NoThread /\ mutex' = k /\ Goto(k, job[k].sig)
      /\ UNCHANGED <<queue, inbox, sent, boards, job, alive>>
  BY DEF Lock, At, IInv, JobsFit
<1>2. job[k].sig \in {"board", "shot"}
  BY <1>1, JobIs, ArrivedIs, SendableIs
<1>3. \A c \in Consumers : pc'[c] = IF c = k THEN job[k].sig ELSE pc[c]
  BY <1>1 DEF Goto, Types, TypeOK
<1>4. Types'
  BY <1>1, <1>2 DEF Types, TypeOK, Goto
<1>5. JobsFit'
  BY <1>1, <1>2, <1>3 DEF JobsFit
<1>6. OneInside'
  <2>1. \A c \in Consumers : pc[c] \notin Inside
    BY <1>1, ConsumersAssumption DEF OneInside
  <2> QED
    BY <1>1, <1>2, <1>3, <2>1 DEF OneInside, Inside
<1>7. Reports'
  BY <1>1, <1>2, <1>3 DEF IInv, Reports, ReportsWhole, Opponent, Sender
<1>8. ShotsBalance' /\ BoardsBalance'
  BY <1>1 DEF IInv, ShotsBalance, BoardsBalance, Pending, InHand
<1>9. Genuine'
  BY <1>1 DEF IInv, Genuine, WasSent
<1>10. RowsAreOwn'
  <2>1. \A c \in Consumers : pc'[c] = "number" => pc[c] = "number" /\ job'[c] = job[c]
    BY <1>1, <1>2, <1>3
  <2> QED
    BY <1>1, <2>1, RowsKept DEF IInv
<1> QED
  BY <1>4, <1>5, <1>6, <1>7, <1>8, <1>9, <1>10 DEF IInv

\* What a player sends is one more on its way.
LEMMA PlayerSendIInv ==
    ASSUME IInv, NEW p \in Players, NEW sig, NEW payload,
           Message(sig, payload) \in Sendable, Message(sig, payload).sig = sig,
           Message(sig, payload).payload = Encoded(payload),
           PlayerSend(p, sig, payload)
    PROVE  IInv'
<1> DEFINE m == Message(sig, payload)
           a == Arrived(p, m)
<1>1. /\ m \in Sendable /\ a \in Arrivals /\ a.from = ClientId[p] /\ a.sig = m.sig
      /\ Byte(a.payload, 0) = Byte(m.payload, 0)
  BY ArrivedIs
<1>2. a = [from |-> ClientId[p], sig |-> sig, payload |-> Parsed(Encoded(payload))]
  BY DEF Arrived
<1>3. /\ Types /\ JobsFit /\ OneInside /\ Reports /\ RowsAreOwn
      /\ queue \in Seq(Arrivals) /\ sent \in [Players -> Seq(Sendable)]
  BY DEF IInv, Types
<1> HIDE DEF a, m
<1>4. /\ sent' = [sent EXCEPT ![p] = Append(@, m)] /\ queue' = Append(queue, a)
      /\ UNCHANGED <<inbox, boards, mutex, pc, job, alive>>
  BY <1>2 DEF PlayerSend, m
<1>5. /\ queue' \in Seq(Arrivals)
      /\ \A q \in Players : sent'[q] = IF q = p THEN Append(sent[q], m) ELSE sent[q]
      /\ sent' \in [Players -> Seq(Sendable)]
  BY <1>1, <1>3, <1>4
<1>6. Types'
  BY <1>3, <1>4, <1>5 DEF Types, TypeOK
<1>7. JobsFit' /\ OneInside'
  BY <1>3, <1>4 DEF JobsFit, OneInside
<1>8. Reports'
  BY <1>3, <1>4 DEF Reports, ReportsWhole, Opponent, Sender
<1>9. ASSUME NEW q \in Players, NEW n \in DOMAIN sent[q]
      PROVE  n \in DOMAIN sent'[q] /\ sent'[q][n] = sent[q][n]
  <2>1. sent[q] \in Seq(Sendable)
    BY <1>3
  <2>2. /\ n \in DOMAIN Append(sent[q], m) /\ Append(sent[q], m)[n] = sent[q][n]
    BY <1>1, <2>1
  <2> QED
    BY <1>5, <2>2
<1>10. Genuine'
  <2> DEFINE SentNow(b) == \E q \in Players : \E n \in DOMAIN sent'[q] : b = Arrived(q, sent'[q][n])
  <2>1. \A b : WasSent(b) => SentNow(b)
    BY <1>9 DEF WasSent
  <2>2. SentNow(a)
    <3>1. Len(sent[p]) + 1 \in DOMAIN sent'[p] /\ sent'[p][Len(sent[p]) + 1] = m
      BY <1>1, <1>3, <1>5
    <3>2. a = Arrived(p, m)
      BY DEF a
    <3> QED
      BY <3>1, <3>2
  <2>3. \A n \in DOMAIN queue' : queue'[n] = a \/ (n \in DOMAIN queue /\ queue'[n] = queue[n])
    BY <1>1, <1>3, <1>4
  <2> HIDE DEF SentNow
  <2>4. \A n \in DOMAIN queue' : SentNow(queue'[n])
    BY <2>1, <2>2, <2>3 DEF IInv, Genuine
  <2>5. \A k \in Consumers : job'[k] # NoJob => SentNow(job'[k])
    BY <1>4, <2>1 DEF IInv, Genuine
  <2> QED
    BY <2>4, <2>5 DEF Genuine, WasSent, SentNow
<1>11. RowsAreOwn'
  <2>1. \A q \in Players : \A n \in Signed(sent[q], {"board"}) :
           n \in Signed(sent'[q], {"board"}) /\ sent'[q][n] = sent[q][n]
    BY <1>9 DEF Signed
  <2> QED
    BY <1>3, <1>4, <2>1, RowsKept
<1>12. ASSUME NEW q \in Players, NEW S, NEW A, q = p => (m \in S <=> a \in A), q # p => a \notin A
       PROVE  \E d \in {0, 1} : /\ Count(sent'[q], S) = Count(sent[q], S) + d
                                /\ Pending(A)' = Pending(A) + d
                                /\ Count(sent[q], S) \in Nat /\ Pending(A) \in Nat
  <2>1. /\ Count(Append(sent[p], m), S) = Count(sent[p], S) + One(m, S)
        /\ Count(sent[q], S) \in Nat
    BY <1>1, <1>3, CountAppend, CountIsNatural
  <2>2. /\ Count(Append(queue, a), A) = Count(queue, A) + One(a, A)
        /\ Count(queue, A) \in Nat
    BY <1>1, <1>3, CountAppend, CountIsNatural
  <2>3. Cardinality(InHand(A)) \in Nat /\ InHand(A)' = InHand(A)
    BY <1>4, InHandIsNatural DEF InHand
  <2>4. Count(queue, A)' = Count(queue, A) + One(a, A)
    BY <1>4, <2>2, Zenon
  <2>5. Pending(A)' = Pending(A) + One(a, A) /\ Pending(A) \in Nat
    BY <2>2, <2>3, <2>4 DEF Pending, One
  <2>6. CASE q = p
    <3>1. Count(sent'[q], S) = Count(sent[q], S) + One(m, S)
      <4>1. sent'[p] = Append(sent[p], m)
        BY <1>5
      <4> QED
        BY <2>1, <2>6, <4>1, Zenon
    <3>2. One(m, S) = One(a, A) /\ One(a, A) \in {0, 1}
      BY <1>12, <2>6 DEF One
    <3> QED
      BY <2>1, <2>5, <3>1, <3>2
  <2>7. CASE q # p
    <3>1. sent'[q] = sent[q] /\ One(a, A) = 0
      BY <1>5, <1>12, <2>7 DEF One
    <3>2. Count(sent'[q], S) = Count(sent[q], S)
      BY <3>1, Zenon
    <3> QED
      BY <2>1, <2>5, <3>1, <3>2
  <2> QED
    BY <2>6, <2>7
<1>13. \A q \in Players : q # p => a \notin From(q)
  BY <1>1, IdsAssumption DEF From, Players
<1>14. ShotsBalance'
  <2> SUFFICES ASSUME alive' = Players, NEW q \in Players, NEW i \in Bytes
               PROVE  Count(sent'[q], OfShot(Sendable, i))
                        = Count(inbox'[1 - q], OfShot(Received, i)) + Pending(OfShot(From(q), i))'
    BY DEF ShotsBalance
  <2>1. q = p => (m \in OfShot(Sendable, i) <=> a \in OfShot(From(q), i))
    BY <1>1 DEF OfShot, OfSignals, From
  <2>2. q # p => a \notin OfShot(From(q), i)
    BY <1>13 DEF OfShot, OfSignals
  <2>3. PICK d \in {0, 1} :
            /\ Count(sent'[q], OfShot(Sendable, i)) = Count(sent[q], OfShot(Sendable, i)) + d
            /\ Pending(OfShot(From(q), i))' = Pending(OfShot(From(q), i)) + d
            /\ Count(sent[q], OfShot(Sendable, i)) \in Nat /\ Pending(OfShot(From(q), i)) \in Nat
    BY <1>12, <2>1, <2>2
  <2>4. Count(inbox[1 - q], OfShot(Received, i)) \in Nat
    BY <1>3, PlayerOfId, CountIsNatural DEF Types
  <2>5. Count(sent[q], OfShot(Sendable, i))
          = Count(inbox[1 - q], OfShot(Received, i)) + Pending(OfShot(From(q), i))
    BY <1>4 DEF IInv, ShotsBalance
  <2> QED
    BY <1>4, <2>3, <2>4, <2>5
<1>15. BoardsBalance'
  <2> SUFFICES ASSUME alive' = Players, NEW q \in Players
               PROVE  Count(sent'[q], OfSignals(Sendable, {"board"}))
                        = Count(inbox'[q], OfSignals(Received, {"player_one", "player_two"}))
                          + Pending(OfSignals(From(q), {"board"}))'
    BY DEF BoardsBalance
  <2>1. q = p => (m \in OfSignals(Sendable, {"board"}) <=> a \in OfSignals(From(q), {"board"}))
    BY <1>1 DEF OfSignals, From
  <2>2. q # p => a \notin OfSignals(From(q), {"board"})
    BY <1>13 DEF OfSignals
  <2>3. PICK d \in {0, 1} :
            /\ Count(sent'[q], OfSignals(Sendable, {"board"}))
                 = Count(sent[q], OfSignals(Sendable, {"board"})) + d
            /\ Pending(OfSignals(From(q), {"board"}))' = Pending(OfSignals(From(q), {"board"})) + d
            /\ Pending(OfSignals(From(q), {"board"})) \in Nat
    BY <1>12, <2>1, <2>2
  <2>4. Count(inbox[q], OfSignals(Received, {"player_one", "player_two"})) \in Nat
    BY <1>3, CountIsNatural DEF Types
  <2>5. Count(sent[q], OfSignals(Sendable, {"board"}))
          = Count(inbox[q], OfSignals(Received, {"player_one", "player_two"}))
            + Pending(OfSignals(From(q), {"board"}))
    BY <1>4 DEF IInv, BoardsBalance
  <2> QED
    BY <1>4, <2>3, <2>4, <2>5
<1> QED
  BY <1>6, <1>7, <1>8, <1>10, <1>11, <1>14, <1>15 DEF IInv

\* A message in hand is settled by the last thing sent for it: what was on its
\* way is in an inbox.
LEMMA Settled ==
    ASSUME IInv, alive = Players, NEW k \in Consumers, pc[k] \in Inside, Unlock(k),
           UNCHANGED queue,
           NEW r \in Players, NEW sig, NEW payload, Message(sig, payload) \in Received,
           Deliver(r, sig, payload),
           NEW q \in Players, NEW S, NEW A \in SUBSET Arrivals,
           (q = r /\ Message(sig, payload) \in S) <=> job[k] \in A
    PROVE  /\ Count(inbox'[q], S) + Pending(A)' = Count(inbox[q], S) + Pending(A)
           /\ Count(inbox'[q], S) \in Nat /\ Pending(A)' \in Nat
<1> DEFINE e == Message(sig, payload)
<1>1. inbox[q] \in Seq(Received) /\ queue \in Seq(Arrivals) /\ Types
  BY DEF IInv, Types
<1> HIDE DEF e
<1>2. inbox'[q] = IF q = r THEN Append(inbox[q], e) ELSE inbox[q]
  BY <1>1, Delivered DEF e
<1>3. Count(inbox[q], S) \in Nat /\ Count(queue, A) \in Nat
  BY <1>1, CountIsNatural
<1>4. /\ Cardinality(InHand(A)) = Cardinality(InHand(A)') + One(job[k], A)
      /\ Cardinality(InHand(A)') \in Nat
  BY Unlocked
<1>5. Count(inbox'[q], S) = Count(inbox[q], S) + One(job[k], A)
  <2>1. CASE q = r
    <3>1. Count(Append(inbox[q], e), S) = Count(inbox[q], S) + One(e, S)
      BY <1>1, CountAppend DEF e
    <3>2. One(e, S) = One(job[k], A)
      BY <2>1 DEF One, e
    <3>3. inbox'[q] = Append(inbox[q], e)
      BY <1>2, <2>1
    <3> QED
      BY <3>1, <3>2, <3>3, Zenon
  <2>2. CASE q # r
    <3>1. One(job[k], A) = 0
      BY <2>2 DEF One
    <3>2. Count(inbox'[q], S) = Count(inbox[q], S)
      BY <1>2, <2>2, Zenon
    <3> QED
      BY <1>3, <3>1, <3>2
  <2> QED
    BY <2>1, <2>2
<1>6. Count(queue, A)' = Count(queue, A)
  BY Zenon
<1>7. /\ Pending(A)' = Count(queue, A) + Cardinality(InHand(A)')
      /\ Pending(A) = Count(queue, A) + Cardinality(InHand(A))
  BY <1>6 DEF Pending
<1>8. One(job[k], A) \in {0, 1}
  BY DEF One
<1> QED
  BY <1>3, <1>4, <1>5, <1>7, <1>8

\* A message is taken from the queue into a hand, or dropped when its sender is
\* gone: the balance is of the games both players are in.
LEMMA TakeMessageIInv == ASSUME IInv, NEW k \in Consumers, TakeMessage(k) PROVE IInv'
<1>1. /\ Types /\ JobsFit /\ OneInside /\ Reports /\ RowsAreOwn /\ Genuine
      /\ queue \in Seq(Arrivals) /\ queue # << >> /\ pc[k] = "idle" /\ job[k] = NoJob
      /\ queue' = Tail(queue) /\ UNCHANGED <<inbox, sent, boards, mutex, alive>>
  BY DEF IInv, Types, TakeMessage, At, JobsFit
<1>2. /\ Head(queue) \in Arrivals /\ Tail(queue) \in Seq(Arrivals)
      /\ Head(queue) # NoJob /\ WasSent(Head(queue))
      /\ \A n \in DOMAIN Tail(queue) : n + 1 \in DOMAIN queue /\ Tail(queue)[n] = queue[n + 1]
  <2>1. /\ Head(queue) \in Arrivals /\ Tail(queue) \in Seq(Arrivals)
        /\ 1 \in DOMAIN queue /\ Head(queue) = queue[1]
        /\ \A n \in DOMAIN Tail(queue) : n + 1 \in DOMAIN queue /\ Tail(queue)[n] = queue[n + 1]
    BY <1>1
  <2> QED
    BY <1>1, <2>1, NoJobIsNoArrival DEF Genuine
<1>3. \/ job' = [job EXCEPT ![k] = Head(queue)] /\ Goto(k, "lock")
      \/ c_to_p(Head(queue).from) \notin alive /\ UNCHANGED <<job, pc>>
  BY DEF TakeMessage
<1>4. \A c \in Consumers :
         \/ job'[c] = job[c] /\ pc'[c] = pc[c]
         \/ c = k /\ job'[c] = Head(queue) /\ pc'[c] = "lock"
  BY <1>1, <1>3 DEF Goto, Types, TypeOK
<1>5. Types'
  BY <1>1, <1>2, <1>3 DEF Types, TypeOK, Goto
<1>6. JobsFit'
  BY <1>1, <1>2, <1>4 DEF JobsFit
<1>7. OneInside'
  BY <1>1, <1>4 DEF OneInside, Inside
<1>8. Reports'
  <2>1. \A c \in Consumers : pc'[c] = "relay" => pc[c] = "relay" /\ job'[c] = job[c]
    BY <1>4
  <2> QED
    BY <1>1, <2>1 DEF Reports, ReportsWhole, Opponent, Sender
<1>9. Genuine'
  <2>1. \A b : WasSent(b) => WasSent(b)'
    BY <1>1 DEF WasSent
  <2>2. \A n \in DOMAIN queue' : WasSent(queue'[n])
    BY <1>1, <1>2 DEF Genuine
  <2>3. \A c \in Consumers : job'[c] # NoJob => WasSent(job'[c])
    BY <1>1, <1>2, <1>4 DEF Genuine
  <2> QED
    BY <1>1, <2>2, <2>3 DEF Genuine, WasSent
<1>10. RowsAreOwn'
  <2>1. \A c \in Consumers : pc'[c] = "number" => pc[c] = "number" /\ job'[c] = job[c]
    BY <1>4
  <2> QED
    BY <1>1, <2>1, RowsKept
<1>11. CASE c_to_p(Head(queue).from) \notin alive
  <2>1. alive' # Players
    <3>1. c_to_p(Head(queue).from) \in Players
      <4>1. PICK p \in Players, m \in Sendable : Head(queue) = Arrived(p, m)
        BY <1>2 DEF Arrivals
      <4>2. Head(queue).from = ClientId[p]
        BY <4>1, ArrivedIs
      <4> QED
        BY <4>2, PlayerOfId
    <3> QED
      BY <1>1, <1>11, <3>1
  <2> QED
    BY <1>5, <1>6, <1>7, <1>8, <1>9, <1>10, <2>1 DEF IInv, ShotsBalance, BoardsBalance
<1>12. CASE job' = [job EXCEPT ![k] = Head(queue)]
  <2>1. ASSUME NEW A \in SUBSET Arrivals PROVE Pending(A)' = Pending(A)
    <3>1. /\ Count(queue, A) = Count(Tail(queue), A) + One(Head(queue), A)
          /\ Count(Tail(queue), A) \in Nat /\ Count(queue, A) \in Nat
      BY <1>1, <1>2, CountTail, CountIsNatural
    <3>2. Cardinality(InHand(A)') + One(job[k], A) = Cardinality(InHand(A)) + One(Head(queue), A)
      BY <1>1, <1>12, InHandChanged DEF Types
    <3>3. One(job[k], A) = 0 /\ One(Head(queue), A) \in {0, 1}
      BY <1>1, NoJobIsNoArrival DEF One
    <3>4. Cardinality(InHand(A)) \in Nat
      BY InHandIsNatural
    <3>5. Cardinality(InHand(A)') \in Nat
      <4>1. IsFiniteSet(InHand(A)')
        BY ConsumersAssumption, FS_Subset DEF InHand
      <4> QED
        BY <4>1, FS_CardinalityType
    <3>6. Count(queue, A)' = Count(Tail(queue), A)
      BY <1>1, Zenon
    <3> QED
      BY <3>1, <3>2, <3>3, <3>4, <3>5, <3>6 DEF Pending
  <2>2. \A p \in Players, i \in Bytes : OfShot(From(p), i) \subseteq Arrivals
    BY DEF OfShot, OfSignals, From
  <2>3. \A p \in Players : OfSignals(From(p), {"board"}) \subseteq Arrivals
    BY DEF OfSignals, From
  <2>4. ShotsBalance'
    BY <1>1, <2>1, <2>2 DEF IInv, ShotsBalance
  <2>5. BoardsBalance'
    BY <1>1, <2>1, <2>3 DEF IInv, BoardsBalance
  <2> QED
    BY <1>5, <1>6, <1>7, <1>8, <1>9, <1>10, <2>4, <2>5 DEF IInv
<1> QED
  BY <1>3, <1>11, <1>12

\* The board in hand was sent by the player whose row it goes to.
LEMMA TakeBoardIInv == ASSUME IInv, NEW k \in Consumers, TakeBoard(k) PROVE IInv'
<1>1. /\ Types /\ JobsFit /\ OneInside /\ Reports /\ RowsAreOwn /\ Genuine
      /\ pc[k] = "board" /\ job[k] # NoJob /\ job[k].sig = "board" /\ pc[k] \in Inside
      /\ boards' = [boards EXCEPT ![Sender(k)] = Row(job[k].payload)]
      /\ Goto(k, "number") /\ UNCHANGED <<queue, inbox, sent, mutex, job, alive>>
  BY DEF IInv, TakeBoard, At, JobsFit, fill_player_board, Inside
<1>2. /\ pc' \in [Consumers -> {"idle", "announce_one", "announce_two", "lock", "board",
                                "number", "shot", "tell", "relay"}]
      /\ JobsFit' /\ OneInside'
      /\ \A c \in Consumers : pc'[c] = IF c = k THEN "number" ELSE pc[c]
  BY <1>1, WentOn
<1> PICK p \in Players : \E n \in DOMAIN sent[p] : job[k] = Arrived(p, sent[p][n])
  BY <1>1 DEF Genuine, WasSent
<1>3. PICK n \in DOMAIN sent[p] : job[k] = Arrived(p, sent[p][n])
  OBVIOUS
<1>4. /\ sent[p][n] \in Sendable /\ Sender(k) = p /\ sent[p][n].sig = "board"
      /\ Row(job[k].payload) = Row(sent[p][n].payload)
      /\ Row(sent[p][n].payload) \in [Squares -> Bytes]
  <2>1. sent[p][n] \in Sendable
    BY <1>1 DEF Types
  <2> QED
    BY <1>1, <1>3, <2>1, ArrivedIs, PlayerOfId DEF Sender
<1>5. /\ boards' \in [Players -> [Squares -> Bytes]]
      /\ \A q \in Players : boards'[q] = IF q = p THEN Row(sent[p][n].payload) ELSE boards[q]
  BY <1>1, <1>4 DEF Types, TypeOK
<1>6. Types'
  BY <1>1, <1>2, <1>5 DEF Types, TypeOK
<1>7. Reports'
  <2>1. \A c \in Consumers : pc'[c] = "relay" => pc[c] = "relay" /\ job'[c] = job[c]
    BY <1>1, <1>2
  <2> QED
    BY <1>1, <2>1 DEF Reports, ReportsWhole, Opponent, Sender
<1>8. ShotsBalance' /\ BoardsBalance'
  BY <1>1 DEF IInv, ShotsBalance, BoardsBalance, Pending, InHand
<1>9. Genuine'
  BY <1>1 DEF IInv, Genuine, WasSent
<1>10. RowsAreOwn'
  <2>1. RowSent(p)'
    BY <1>1, <1>4, <1>5 DEF RowSent, Signed
  <2>2. ASSUME NEW q \in Players, RowSent(q) PROVE RowSent(q)'
    <3>1. CASE q = p
      BY <2>1, <3>1
    <3>2. CASE q # p
      BY <1>1, <1>5, <2>2, <3>2 DEF RowSent
    <3> QED
      BY <3>1, <3>2
  <2> SUFFICES ASSUME NEW q \in Players
               PROVE  /\ \A i \in Signed(inbox'[q], {"player_one", "player_two"}) :
                            inbox'[q][i].sig = OwnNumber(q) /\ RowSent(q)'
                      /\ \A c \in Consumers : pc'[c] = "number" /\ Sender(c)' = q => RowSent(q)'
    BY DEF RowsAreOwn
  <2>3. ASSUME NEW i \in Signed(inbox'[q], {"player_one", "player_two"})
        PROVE  inbox'[q][i].sig = OwnNumber(q) /\ RowSent(q)'
    BY <1>1, <2>2 DEF RowsAreOwn
  <2>4. ASSUME NEW c \in Consumers, pc'[c] = "number", Sender(c)' = q PROVE RowSent(q)'
    <3>1. Sender(c) = q
      BY <1>1, <2>4 DEF Sender
    <3>2. CASE c = k
      BY <1>4, <2>1, <3>1, <3>2
    <3>3. CASE c # k
      BY <1>1, <1>2, <2>2, <2>4, <3>1, <3>3 DEF RowsAreOwn
    <3> QED
      BY <3>2, <3>3
  <2> QED
    BY <2>3, <2>4
<1> QED
  BY <1>2, <1>6, <1>7, <1>8, <1>9, <1>10 DEF IInv

\* What Unlock and a delivery leave of the invariant, but for the balances and
\* the rows.
LEMMA DoneKeeps ==
    ASSUME IInv, NEW k \in Consumers, pc[k] \in Inside, Unlock(k),
           UNCHANGED <<queue, sent, boards, alive>>,
           NEW p \in Players, NEW sig, NEW payload,
           Message(sig, payload) \in Received, Message(sig, payload).sig = sig,
           Deliver(p, sig, payload),
           sig = "shot" /\ p \in alive => Reported(inbox[p], Len(inbox[p]) + 1)
    PROVE  /\ Types' /\ JobsFit' /\ OneInside' /\ Reports' /\ Genuine'
           /\ \A q \in Players : \A n \in DOMAIN inbox'[q] :
                 \/ n \in DOMAIN inbox[q] /\ inbox'[q][n] = inbox[q][n]
                 \/ q = p /\ inbox'[q][n] = Message(sig, payload)
           /\ \A c \in Consumers : pc'[c] \notin Inside
<1>1. Types /\ Reports /\ Genuine
  BY DEF IInv
<1>2. /\ mutex' \in Consumers \cup {NoThread}
      /\ pc' \in [Consumers -> {"idle", "announce_one", "announce_two", "lock", "board",
                                "number", "shot", "tell", "relay"}]
      /\ job' \in [Consumers -> Arrivals \cup {NoJob}]
      /\ JobsFit' /\ OneInside'
      /\ \A c \in Consumers : pc'[c] \notin Inside
      /\ \A c \in Consumers : job'[c] = NoJob \/ job'[c] = job[c]
  BY Unlocked
<1>3. /\ inbox' \in [Players -> Seq(Received)]
      /\ \A q \in Players : inbox'[q] =
            IF q = p /\ p \in alive THEN Append(inbox[q], Message(sig, payload)) ELSE inbox[q]
  BY <1>1, Delivered
<1>4. Types'
  BY <1>1, <1>2, <1>3 DEF Types, TypeOK
<1>5. Reports'
  <2>1. ReportsWhole'
    BY <1>1, ReportsWholeKept DEF Reports
  <2>2. \A c \in Consumers : pc'[c] # "relay"
    BY <1>2 DEF Inside
  <2> QED
    BY <2>1, <2>2 DEF Reports
<1>6. Genuine'
  <2>1. \A c \in Consumers : job'[c] # NoJob => WasSent(job'[c])
    BY <1>1, <1>2 DEF Genuine
  <2> QED
    BY <1>1, <2>1 DEF Genuine, WasSent
<1>7. ASSUME NEW q \in Players, NEW n \in DOMAIN inbox'[q]
      PROVE  \/ n \in DOMAIN inbox[q] /\ inbox'[q][n] = inbox[q][n]
             \/ q = p /\ inbox'[q][n] = Message(sig, payload)
  <2>1. inbox[q] \in Seq(Received)
    BY <1>1 DEF Types
  <2> DEFINE e == Message(sig, payload)
  <2>2. e \in Received
    OBVIOUS
  <2> HIDE DEF e
  <2>3. \A i \in DOMAIN Append(inbox[q], e) :
           \/ i \in DOMAIN inbox[q] /\ Append(inbox[q], e)[i] = inbox[q][i]
           \/ Append(inbox[q], e)[i] = e
    BY <2>1, <2>2
  <2> QED
    BY <1>3, <2>3 DEF e
<1> QED
  BY <1>2, <1>4, <1>5, <1>6, <1>7

\* Both balances, when what was sent for the message in hand is what counts for it.
LEMMA BalancesKept ==
    ASSUME IInv, alive = Players, NEW k \in Consumers, pc[k] \in Inside, Unlock(k),
           UNCHANGED <<queue, sent, alive>>,
           NEW r \in Players, NEW sig, NEW payload, Message(sig, payload) \in Received,
           Deliver(r, sig, payload),
           \A q \in Players, i \in Bytes :
              (1 - q = r /\ Message(sig, payload) \in OfShot(Received, i))
                 <=> job[k] \in OfShot(From(q), i),
           \A q \in Players :
              (q = r /\ Message(sig, payload) \in OfSignals(Received, {"player_one", "player_two"}))
                 <=> job[k] \in OfSignals(From(q), {"board"})
    PROVE  ShotsBalance' /\ BoardsBalance'
<1>1. ShotsBalance /\ BoardsBalance
  BY DEF IInv
<1>2. ASSUME NEW q \in Players, NEW i \in Bytes
      PROVE  Count(sent[q], OfShot(Sendable, i))
               = Count(inbox'[1 - q], OfShot(Received, i)) + Pending(OfShot(From(q), i))'
  <2>1. OfShot(From(q), i) \subseteq Arrivals /\ 1 - q \in Players
    BY PlayerOfId DEF OfShot, OfSignals, From
  <2>2. Count(inbox'[1 - q], OfShot(Received, i)) + Pending(OfShot(From(q), i))'
          = Count(inbox[1 - q], OfShot(Received, i)) + Pending(OfShot(From(q), i))
    BY <2>1, Settled
  <2> QED
    BY <1>1, <2>2 DEF ShotsBalance
<1>3. ASSUME NEW q \in Players
      PROVE  Count(sent[q], OfSignals(Sendable, {"board"}))
               = Count(inbox'[q], OfSignals(Received, {"player_one", "player_two"}))
                 + Pending(OfSignals(From(q), {"board"}))'
  <2>1. OfSignals(From(q), {"board"}) \subseteq Arrivals
    BY DEF OfSignals, From
  <2>2. Count(inbox'[q], OfSignals(Received, {"player_one", "player_two"}))
          + Pending(OfSignals(From(q), {"board"}))'
          = Count(inbox[q], OfSignals(Received, {"player_one", "player_two"}))
            + Pending(OfSignals(From(q), {"board"}))
    BY <2>1, Settled
  <2> QED
    BY <1>1, <2>2 DEF BoardsBalance
<1> QED
  BY <1>2, <1>3 DEF ShotsBalance, BoardsBalance

LEMMA TellNumberIInv == ASSUME IInv, NEW k \in Consumers, TellNumber(k) PROVE IInv'
<1>1. /\ Types /\ JobsFit /\ RowsAreOwn /\ pc[k] = "number" /\ job[k] # NoJob
      /\ job[k].sig = "board" /\ pc[k] \in Inside /\ Unlock(k)
      /\ UNCHANGED <<queue, sent, boards, alive>>
  BY DEF IInv, TellNumber, At, JobsFit, Inside
<1> PICK p \in Players : \E m \in Sendable : job[k] = Arrived(p, m) /\ Sender(k) = p
  BY <1>1, JobIs
<1>2. PICK m \in Sendable : job[k] = Arrived(p, m) /\ Sender(k) = p
  OBVIOUS
<1> DEFINE e == Message(OwnNumber(p), << >>)
<1>3. /\ OwnNumber(p) \in {"player_one", "player_two"} /\ OwnNumber(p) # "shot"
      /\ e \in Received /\ e.sig = OwnNumber(p)
  BY ReceivedIs DEF OwnNumber, Signals
<1>4. Deliver(p, OwnNumber(p), << >>)
  BY <1>2 DEF TellNumber, OwnNumber, p_to_c, Players
<1>5. /\ job[k] \in Arrivals /\ job[k].from = ClientId[p]
      /\ \A q \in Players : job[k] \in From(q) <=> q = p
  <2>1. job[k] \in Arrivals /\ job[k].from = ClientId[p]
    BY <1>2, ArrivedIs
  <2> QED
    BY <2>1, IdsAssumption DEF From, Players
<1>6. /\ Types' /\ JobsFit' /\ OneInside' /\ Reports' /\ Genuine'
      /\ \A q \in Players : \A n \in DOMAIN inbox'[q] :
            \/ n \in DOMAIN inbox[q] /\ inbox'[q][n] = inbox[q][n]
            \/ q = p /\ inbox'[q][n] = e
      /\ \A c \in Consumers : pc'[c] \notin Inside
  BY <1>1, <1>3, <1>4, DoneKeeps
<1> HIDE DEF e
<1>7. ShotsBalance' /\ BoardsBalance'
  <2>1. CASE alive = Players
    <3>1. \A q \in Players, i \in Bytes :
             (1 - q = p /\ e \in OfShot(Received, i)) <=> job[k] \in OfShot(From(q), i)
      BY <1>1, <1>3 DEF OfShot, OfSignals
    <3>2. \A q \in Players :
             (q = p /\ e \in OfSignals(Received, {"player_one", "player_two"}))
                <=> job[k] \in OfSignals(From(q), {"board"})
      BY <1>1, <1>3, <1>5 DEF OfSignals
    <3> QED
      BY <1>1, <1>3, <1>4, <2>1, <3>1, <3>2, BalancesKept DEF e
  <2>2. CASE alive # Players
    BY <1>1, <2>2 DEF ShotsBalance, BoardsBalance
  <2> QED
    BY <2>1, <2>2
<1>8. RowsAreOwn'
  <2>1. RowSent(p)
    BY <1>1, <1>2 DEF RowsAreOwn
  <2>2. ASSUME NEW q \in Players, NEW n \in Signed(inbox'[q], {"player_one", "player_two"})
        PROVE  \/ inbox'[q][n].sig = OwnNumber(q) /\ RowSent(q)
               \/ /\ n \in Signed(inbox[q], {"player_one", "player_two"})
                  /\ inbox'[q][n] = inbox[q][n]
    BY <1>3, <1>6, <2>1 DEF Signed
  <2>3. \A c \in Consumers : pc'[c] # "number"
    BY <1>6 DEF Inside
  <2> QED
    BY <1>1, <2>2, <2>3, RowsKept
<1> QED
  BY <1>6, <1>7, <1>8 DEF IInv

LEMMA RelayIInv == ASSUME IInv, NEW k \in Consumers, Relay(k) PROVE IInv'
<1>1. /\ Types /\ JobsFit /\ Reports /\ RowsAreOwn /\ pc[k] = "relay" /\ job[k] # NoJob
      /\ job[k].sig = "shot" /\ pc[k] \in Inside /\ Unlock(k)
      /\ UNCHANGED <<queue, sent, boards, alive>>
  BY DEF IInv, Relay, At, JobsFit, Inside
<1> PICK p \in Players : \E m \in Sendable : job[k] = Arrived(p, m) /\ Opponent(k) = 1 - p
  BY <1>1, JobIs
<1>2. PICK m \in Sendable : job[k] = Arrived(p, m) /\ Opponent(k) = 1 - p
  OBVIOUS
<1> DEFINE e == Message("shot", job[k].payload)
<1>3. /\ e \in Received /\ e.sig = "shot" /\ Byte(e.payload, 0) = Byte(job[k].payload, 0)
  BY <1>2, ArrivedIs, ReceivedIs
<1>4. /\ 1 - p \in Players /\ Deliver(1 - p, "shot", job[k].payload)
      /\ \A q \in Players : 1 - q = 1 - p <=> q = p
  BY <1>2, PlayerOfId DEF Relay, p_to_c, Players
<1>5. /\ job[k] \in Arrivals /\ job[k].from = ClientId[p]
      /\ \A q \in Players : job[k] \in From(q) <=> q = p
  <2>1. job[k] \in Arrivals /\ job[k].from = ClientId[p]
    BY <1>2, ArrivedIs
  <2> QED
    BY <2>1, IdsAssumption DEF From, Players
<1>6. 1 - p \in alive => Reported(inbox[1 - p], Len(inbox[1 - p]) + 1)
  BY <1>1, <1>2 DEF Reports
<1>7. /\ Types' /\ JobsFit' /\ OneInside' /\ Reports' /\ Genuine'
      /\ \A q \in Players : \A n \in DOMAIN inbox'[q] :
            \/ n \in DOMAIN inbox[q] /\ inbox'[q][n] = inbox[q][n]
            \/ q = 1 - p /\ inbox'[q][n] = e
      /\ \A c \in Consumers : pc'[c] \notin Inside
  BY <1>1, <1>3, <1>4, <1>6, DoneKeeps
<1> HIDE DEF e
<1>8. ShotsBalance' /\ BoardsBalance'
  <2>1. CASE alive = Players
    <3>1. \A q \in Players, i \in Bytes :
             (1 - q = 1 - p /\ e \in OfShot(Received, i)) <=> job[k] \in OfShot(From(q), i)
      BY <1>1, <1>3, <1>4, <1>5 DEF OfShot, OfSignals
    <3>2. \A q \in Players :
             (q = 1 - p /\ e \in OfSignals(Received, {"player_one", "player_two"}))
                <=> job[k] \in OfSignals(From(q), {"board"})
      BY <1>1, <1>3 DEF OfSignals
    <3> QED
      BY <1>1, <1>3, <1>4, <2>1, <3>1, <3>2, BalancesKept DEF e
  <2>2. CASE alive # Players
    BY <1>1, <2>2 DEF ShotsBalance, BoardsBalance
  <2> QED
    BY <2>1, <2>2
<1>9. RowsAreOwn'
  <2>1. ASSUME NEW q \in Players, NEW n \in Signed(inbox'[q], {"player_one", "player_two"})
        PROVE  /\ n \in Signed(inbox[q], {"player_one", "player_two"})
               /\ inbox'[q][n] = inbox[q][n]
    BY <1>3, <1>7 DEF Signed
  <2>2. \A c \in Consumers : pc'[c] # "number"
    BY <1>7 DEF Inside
  <2> QED
    BY <1>1, <2>1, <2>2, RowsKept
<1> QED
  BY <1>7, <1>8, <1>9 DEF IInv

\* Once a player is gone, nothing is said of the balance.
LEMMA ExpireIInv == ASSUME IInv, NEW p \in Players, Expire(p) PROVE IInv'
<1>1. /\ Types /\ Reports /\ RowsAreOwn /\ alive' \subseteq alive /\ alive' # Players
      /\ UNCHANGED <<queue, inbox, sent, boards, mutex, pc, job>>
  BY DEF IInv, Expire
<1>2. Types'
  BY <1>1 DEF Types, TypeOK
<1>3. JobsFit' /\ OneInside'
  BY <1>1 DEF IInv, JobsFit, OneInside
<1>4. Reports'
  BY <1>1 DEF Reports, ReportsWhole, Opponent, Sender
<1>5. ShotsBalance' /\ BoardsBalance'
  BY <1>1 DEF ShotsBalance, BoardsBalance
<1>6. Genuine'
  BY <1>1 DEF IInv, Genuine, WasSent
<1>7. RowsAreOwn'
  BY <1>1, RowsKept
<1> QED
  BY <1>2, <1>3, <1>4, <1>5, <1>6, <1>7 DEF IInv

LEMMA SendsAreSendable ==
    /\ \A b \in BoardPayloads : /\ Message("board", b) \in Sendable
                                /\ Message("board", b).sig = "board"
                                /\ Message("board", b).payload = Encoded(b)
    /\ \A s \in ShotPayloads : /\ Message("shot", s) \in Sendable
                               /\ Message("shot", s).sig = "shot"
                               /\ Message("shot", s).payload = Encoded(s)
<1>1. \A b \in BoardPayloads : b \in Seq(Bytes) /\ Len(b) >= 1
  BY PayloadAssumption, BoardSizeAssumption
<1>2. \A s \in ShotPayloads : s \in Seq(Bytes) /\ Len(s) >= 1
  BY PayloadAssumption
<1>3. \A q \in Seq(Bytes) : Len(q) >= 1 => q # << >>
  OBVIOUS
<1> QED
  BY <1>1, <1>2, <1>3 DEF Sendable, Message

LEMMA NextIInv == IInv /\ [Next]_vars => IInv'
<1> SUFFICES ASSUME IInv, [Next]_vars PROVE IInv'
  OBVIOUS
<1>1. ASSUME NEW k \in Consumers, Announce(k) PROVE IInv'
  BY <1>1, AnnounceIInv
<1>2. ASSUME NEW k \in Consumers, TakeMessage(k) PROVE IInv'
  BY <1>2, TakeMessageIInv
<1>3. ASSUME NEW k \in Consumers, Lock(k) PROVE IInv'
  BY <1>3, LockIInv
<1>4. ASSUME NEW k \in Consumers, Handle(k) PROVE IInv'
  BY <1>4, TakeBoardIInv, TellNumberIInv, TellShooterIInv, TellOpponentIInv, RelayIInv DEF Handle
<1>5. ASSUME NEW p \in Players, NEW b \in BoardPayloads, PlayerSend(p, "board", b) PROVE IInv'
  BY <1>5, SendsAreSendable, PlayerSendIInv
<1>6. ASSUME NEW p \in Players, NEW s \in ShotPayloads, PlayerSend(p, "shot", s) PROVE IInv'
  BY <1>6, SendsAreSendable, PlayerSendIInv
<1>7. ASSUME NEW p \in Players, Expire(p) PROVE IInv'
  BY <1>7, ExpireIInv
<1>8. ASSUME UNCHANGED vars PROVE IInv'
  <2>1. UNCHANGED <<queue, inbox, sent, boards, mutex, pc, job, alive>>
    BY <1>8 DEF vars
  <2>2. /\ Types' /\ JobsFit' /\ OneInside' /\ Reports'
    BY <2>1 DEF IInv, Types, TypeOK, JobsFit, OneInside, Reports, ReportsWhole, Opponent, Sender
  <2>3. ShotsBalance' /\ BoardsBalance'
    BY <2>1 DEF IInv, ShotsBalance, BoardsBalance, Pending, InHand
  <2>4. Genuine'
    BY <2>1 DEF IInv, Genuine, WasSent
  <2>5. RowsAreOwn'
    BY <2>1, RowsKept DEF IInv
  <2> QED
    BY <2>2, <2>3, <2>4, <2>5 DEF IInv
<1> QED
  BY <1>1, <1>2, <1>3, <1>4, <1>5, <1>6, <1>7, <1>8 DEF Next

-----------------------------------------------------------------------------
(* The theorems *)

LEMMA GameIInv == Spec => []IInv
BY InitIInv, NextIInv, PTL DEF Spec

\* The variables hold values of their types (game.h's members and locals).
THEOREM GameTypes == Spec => []TypeOK
<1>1. IInv => TypeOK
  BY DEF IInv, Types
<1> QED
  BY <1>1, GameIInv, PTL

\* A player reads the result of a shot and then its coordinates, whatever the
\* other consumers do meanwhile (game::handle_message under game_mutex).
THEOREM VerdictComesFirst == Spec => []ReportsWhole
<1>1. IInv => ReportsWhole
  BY DEF IInv, Reports
<1> QED
  BY <1>1, GameIInv, PTL

\* In a quiet game nothing is on its way.
LEMMA QuietIsEmpty ==
    ASSUME IInv, Quiet, NEW S \in SUBSET Arrivals PROVE Pending(S) = 0
<1>1. Where(queue, S) = {}
  BY DEF Where, Quiet
<1>2. \A k \in Consumers : job[k] = NoJob
  BY DEF IInv, JobsFit, Quiet
<1>3. InHand(S) = {}
  BY <1>2, NoJobIsNoArrival DEF InHand
<1>4. Cardinality({}) = 0
  BY FS_EmptySet
<1>5. Count(queue, S) = 0 /\ Cardinality(InHand(S)) = 0
  BY <1>1, <1>3, <1>4, Zenon DEF Count
<1> QED
  BY <1>5 DEF Pending

\* When all messages were handled, each shot has reached the opponent once, with
\* the coordinates the shooter sent (game::handle_message, GAME_COORDINATES).
THEOREM ShotsArriveOnce == Spec => []ShotsAreRelayed
<1>1. ASSUME IInv PROVE ShotsAreRelayed
  <2> SUFFICES ASSUME Quiet, NEW p \in Players, NEW i \in Bytes
               PROVE  Cardinality(ShotsAt(sent[p], i)) = Cardinality(ShotsAt(inbox[1 - p], i))
    BY DEF ShotsAreRelayed
  <2>1. sent[p] \in Seq(Sendable) /\ inbox[1 - p] \in Seq(Received)
    BY <1>1, PlayerOfId DEF IInv, Types
  <2>2. ShotsAt(sent[p], i) = Where(sent[p], OfShot(Sendable, i))
    BY <2>1 DEF ShotsAt, Signed, Where, OfShot, OfSignals
  <2>3. ShotsAt(inbox[1 - p], i) = Where(inbox[1 - p], OfShot(Received, i))
    BY <2>1 DEF ShotsAt, Signed, Where, OfShot, OfSignals
  <2>4. Pending(OfShot(From(p), i)) = 0
    BY <1>1, QuietIsEmpty DEF OfShot, OfSignals, From
  <2>5. Count(inbox[1 - p], OfShot(Received, i)) \in Nat
    BY <2>1, CountIsNatural
  <2>6. Count(sent[p], OfShot(Sendable, i)) = Count(inbox[1 - p], OfShot(Received, i))
    BY <1>1, <2>4, <2>5 DEF IInv, ShotsBalance, Quiet
  <2> QED
    BY <2>2, <2>3, <2>6 DEF Count
<1> QED
  BY <1>1, GameIInv, PTL

\* When all messages were handled, each board was answered with its owner's
\* number, and a board its owner sent is in its row (game::handle_message,
\* GAME_CREATED).
THEOREM BoardsFindTheirOwner == Spec => []BoardsAreTaken
<1>1. ASSUME IInv PROVE BoardsAreTaken
  <2> SUFFICES ASSUME Quiet, NEW p \in Players
               PROVE  LET mine    == Signed(sent[p], {"board"})
                          numbers == Signed(inbox[p], {"player_one", "player_two"})
                      IN  /\ Cardinality(numbers) = Cardinality(mine)
                          /\ \A n \in numbers : inbox[p][n].sig = OwnNumber(p)
                          /\ mine # {} => RowSent(p)
    BY DEF BoardsAreTaken, OwnNumber, RowSent
  <2> DEFINE mine    == Signed(sent[p], {"board"})
             numbers == Signed(inbox[p], {"player_one", "player_two"})
  <2>1. sent[p] \in Seq(Sendable) /\ inbox[p] \in Seq(Received)
    BY <1>1 DEF IInv, Types
  <2>2. mine = Where(sent[p], OfSignals(Sendable, {"board"}))
    BY <2>1 DEF Signed, Where, OfSignals
  <2>3. numbers = Where(inbox[p], OfSignals(Received, {"player_one", "player_two"}))
    BY <2>1 DEF Signed, Where, OfSignals
  <2>4. Pending(OfSignals(From(p), {"board"})) = 0
    BY <1>1, QuietIsEmpty DEF OfSignals, From
  <2>5. Count(inbox[p], OfSignals(Received, {"player_one", "player_two"})) \in Nat
    BY <2>1, CountIsNatural
  <2>6. Count(sent[p], OfSignals(Sendable, {"board"}))
          = Count(inbox[p], OfSignals(Received, {"player_one", "player_two"}))
    BY <1>1, <2>4, <2>5 DEF IInv, BoardsBalance, Quiet
  <2>7. Cardinality(numbers) = Cardinality(mine) /\ IsFiniteSet(mine)
    BY <2>1, <2>2, <2>3, <2>6, CountIsNatural DEF Count
  <2>8. \A n \in numbers : inbox[p][n].sig = OwnNumber(p) /\ RowSent(p)
    BY <1>1 DEF IInv, RowsAreOwn
  <2>9. mine # {} => numbers # {}
    BY <2>7, FS_EmptySet
  <2> HIDE DEF mine, numbers
  <2>10. mine # {} => RowSent(p)
    BY <2>8, <2>9
  <2> QED
    BY <2>7, <2>8, <2>10 DEF mine, numbers
<1> QED
  BY <1>1, GameIInv, PTL
=============================================================================
