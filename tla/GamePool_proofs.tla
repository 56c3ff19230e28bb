--------------------------- MODULE GamePool_proofs ---------------------------
(***************************************************************************)
(* For any clients, any consumers and any number of games: no id is shared  *)
(* between games, and at most one client waits; patient players know their  *)
(* game and stay in it (PlayersInv, at the end).                            *)
(*                                                                          *)
(* create_and_add_game tests only the count before it takes an id off the   *)
(* list, and remove appends an id when only the slot was tested: that both  *)
(* are right needs the count and the list to agree, the list to hold no id  *)
(* of a stored game, nor the id of the game that is being made.  The latter *)
(* is unique because the maker is alone in the writer section, which is why *)
(* SectionIsTheMakers is part of the invariant.                             *)
(***************************************************************************)
EXTENDS GamePool, FiniteSetTheorems, SequenceTheorems, TLAPS

\* A list without repetition holds at most all ids.
LEMMA ListFits ==
    ASSUME NEW s \in Seq(GameIds), \A m, n \in DOMAIN s : s[m] = s[n] => m = n
    PROVE  Len(s) <= MaxGames
<1> SUFFICES ASSUME Len(s) > MaxGames PROVE FALSE
  BY MaxGamesAssumption
<1>1. /\ IsFiniteSet(1..Len(s)) /\ Cardinality(1..Len(s)) = Len(s)
      /\ IsFiniteSet(GameIds) /\ Cardinality(GameIds) = MaxGames
  <2>1. Len(s) \in Nat /\ MaxGames \in Nat /\ 1 \in Int
    BY MaxGamesAssumption
  <2>2. ASSUME NEW n \in Nat
        PROVE  IsFiniteSet(1..n) /\ Cardinality(1..n) = n
    <3>1. /\ IsFiniteSet(1..n)
          /\ Cardinality(1..n) = IF 1 > n THEN 0 ELSE n - 1 + 1
      BY FS_Interval
    <3> QED
      BY <3>1
  <2> QED
    BY <2>1, <2>2 DEF GameIds
<1>2. s \in [1..Len(s) -> GameIds]
  OBVIOUS
<1>3. \E x, y \in 1..Len(s) : x # y /\ s[x] = s[y]
  BY <1>1, <1>2, FS_PigeonHole
<1> QED
  BY <1>3

\* The pool as the constructor leaves it, whichever clients there are.
LEMMA EmptyPool ==
    ASSUME games = [g \in GameIds |-> NoGame], free_games = [g \in GameIds |-> g],
           game_count = 0, ready_queue = << >>,
           status = [c \in Clients |-> "idle"], game_id = [c \in Clients |-> 0],
           at = [t \in Consumers |-> "idle"], deal = [t \in Consumers |-> NoDeal],
           section = NoThread, alive \subseteq Clients, crashed = FALSE
    PROVE  IInv
<1> USE MaxGamesAssumption, NoneAssumption DEF GameIds
<1>1. free_games \in Seq(GameIds) /\ Len(free_games) = MaxGames
  <2>1. free_games \in [1..MaxGames -> GameIds]
    OBVIOUS
  <2> QED
    BY <2>1
<1>2. Stored = {} /\ InMaking = {}
  BY DEF Stored, InMaking, Making
<1>3. TypeOK
  <2>1. ready_queue \in Seq(Clients) /\ game_count \in 0..MaxGames
    OBVIOUS
  <2>2. games \in [GameIds -> [one : Clients \cup {NoClient}, two : Clients \cup {NoClient}]]
    BY DEF NoGame
  <2>3. /\ deal \in [Consumers -> [id : 0..MaxGames, one : Clients \cup {NoClient},
                                  two : Clients \cup {NoClient}]]
        /\ game_id \in [Clients -> 0..MaxGames]
    BY DEF NoDeal
  <2>4. /\ status \in [Clients -> Statuses]
        /\ at \in [Consumers -> Making \cup Queueing \cup {"idle", "broadcast"}]
    BY DEF Statuses
  <2> QED
    BY <1>1, <2>1, <2>2, <2>3, <2>4 DEF TypeOK
<1>4. GameIdsAccounted
  BY <1>1, <1>2 DEF GameIdsAccounted
<1>5. OneWaits /\ SectionIsTheMakers
  BY DEF OneWaits, SectionIsTheMakers, Making, Queueing
<1> QED
  BY <1>3, <1>4, <1>5 DEF IInv

LEMMA InitIInv == Init => IInv
BY EmptyPool DEF Init

-----------------------------------------------------------------------------
\* A step of another kind than those below disturbs no part of the invariant.
LEMMA QuietStep ==
    ASSUME IInv, TypeOK', UNCHANGED <<games, free_games, game_count, at, deal, section>>,
           OneWaits', section = NoThread \/ ready_queue' = ready_queue
    PROVE  IInv'
BY NoneAssumption DEF IInv, GameIdsAccounted, SectionIsTheMakers, Stored, InMaking

LEMMA AddReadyStep ==
    ASSUME IInv, NEW t \in Consumers, NEW c \in Clients, AddReadyClient(t, c),
           alive' \subseteq Clients
    PROVE  IInv'
<1> USE MaxGamesAssumption, NoneAssumption
<1>1. /\ section = NoThread
      /\ UNCHANGED <<games, crashed>>
  BY DEF AddReadyClient
<1>2. ready_queue \in Seq(Clients) /\ Len(ready_queue) <= 1
  BY DEF IInv, TypeOK, OneWaits
<1>3. ASSUME ready_queue # << >>
      PROVE  /\ Len(Tail(ready_queue)) = 0 /\ Tail(ready_queue) \in Seq(Clients)
             /\ Head(ready_queue) \in Clients
  <2>1. Len(ready_queue) = 1
    <3>1. PICK n \in Nat : n = Len(ready_queue)
      BY <1>2
    <3>2. n # 0
      BY <1>2, <1>3, <3>1, EmptySeq
    <3> QED
      BY <1>2, <3>1, <3>2
  <2> QED
    BY <1>2, <1>3, <2>1
<1>4. CASE StartsToWait(t, c)
  <2>1. /\ at' = [at EXCEPT ![t] = "search_status"]
        /\ deal' = [deal EXCEPT ![t] = [id |-> 0, one |-> c, two |-> NoClient]]
        /\ section' = t /\ ready_queue = << >> /\ ready_queue' = ready_queue
        /\ UNCHANGED <<status, game_id, free_games, game_count>>
    BY <1>4 DEF StartsToWait
  <2>2. \A u \in Consumers : at[u] \notin Making \cup Queueing
    BY <1>1 DEF IInv, SectionIsTheMakers
  <2>3. TypeOK'
    BY <1>1, <2>1 DEF IInv, TypeOK, Queueing
  <2>4. \A u \in Consumers : /\ at'[u] \notin Making
                             /\ at'[u] \in Queueing <=> u = t
    BY <2>1, <2>2 DEF IInv, TypeOK, Making, Queueing
  <2>5. Stored' = Stored /\ InMaking' = {} /\ InMaking = {}
    BY <1>1, <2>2, <2>4 DEF Stored, InMaking
  <2>6. GameIdsAccounted'
    BY <2>1, <2>5 DEF IInv, GameIdsAccounted
  <2>7. deal'[t].one = c
    BY <2>1 DEF IInv, TypeOK
  <2>8. SectionIsTheMakers'
    <3>1. ASSUME NEW u \in Consumers
          PROVE  /\ section' = u <=> at'[u] \in Making \cup Queueing
                 /\ at'[u] \in Queueing => deal'[u].one \in Clients /\ ready_queue' = << >>
      BY <2>1, <2>4, <2>7
    <3> QED
      BY <2>4, <3>1 DEF SectionIsTheMakers
  <2> QED
    BY <2>1, <2>3, <2>6, <2>8 DEF IInv, OneWaits
<1>5. CASE ReplacesExpired(c)
  <2>1. ready_queue' = Append(Tail(ready_queue), c)
    BY <1>1, <1>5 DEF ReplacesExpired
  <2>2. ready_queue' \in Seq(Clients) /\ Len(ready_queue') = 1
    BY <1>1, <1>5, <1>3, <2>1 DEF ReplacesExpired
  <2>3. UNCHANGED <<games, status, game_id, free_games, game_count, at, deal, section,
                    crashed>>
    BY <1>1, <1>5 DEF ReplacesExpired
  <2>4. TypeOK' /\ OneWaits'
    BY <2>2, <2>3 DEF IInv, TypeOK, OneWaits
  <2> QED
    BY <1>1, <2>3, <2>4, QuietStep
<1>6. CASE FindsNoGame(c)
  <2>1. ready_queue' \in Seq(Clients) /\ Len(ready_queue') <= 1
    BY <1>1, <1>6, <1>3 DEF FindsNoGame
  <2>2. TypeOK'
    BY <1>1, <1>6, <2>1 DEF IInv, TypeOK, FindsNoGame
  <2> QED
    BY <1>1, <1>6, <2>1, <2>2, QuietStep DEF FindsNoGame, OneWaits
<1>7. CASE StartsGame(t, c)
  <2> DEFINE g == Head(free_games)
  <2>1. /\ free_games \in Seq(GameIds) /\ free_games # << >>
        /\ game_count \in 0..MaxGames - 1
    BY <1>1, <1>7 DEF IInv, TypeOK, GameIdsAccounted, StartsGame
  <2>2. /\ g = free_games[1] /\ g \in GameIds /\ 1 \in DOMAIN free_games
        /\ free_games' \in Seq(GameIds)
        /\ Len(free_games') = Len(free_games) - 1
        /\ \A n \in DOMAIN free_games' : /\ n + 1 \in DOMAIN free_games
                                         /\ free_games'[n] = free_games[n + 1]
        /\ \A n \in DOMAIN free_games : n # 1 => /\ n - 1 \in DOMAIN free_games'
                                                 /\ free_games'[n - 1] = free_games[n]
    BY <1>1, <1>7, <2>1 DEF StartsGame
  <2>3. /\ ready_queue \in Seq(Clients) /\ ready_queue # << >>
        /\ ready_queue' \in Seq(Clients) /\ Len(ready_queue') = 0
        /\ Head(ready_queue) \in Clients
    BY <1>1, <1>7, <1>3, <1>2 DEF StartsGame
  <2>4. \A u \in Consumers : at[u] \notin Making \cup Queueing
    BY <1>1 DEF IInv, SectionIsTheMakers
  <2>5. /\ at' = [at EXCEPT ![t] = "status_one"]
        /\ deal' = [deal EXCEPT ![t] = [id |-> g, one |-> c, two |-> Head(ready_queue)]]
        /\ at \in [Consumers -> Making \cup Queueing \cup {"idle", "broadcast"}]
        /\ deal \in [Consumers -> [id : 0..MaxGames, one : Clients \cup {NoClient},
                                   two : Clients \cup {NoClient}]]
    BY <1>1, <1>7 DEF IInv, TypeOK, StartsGame
  <2>6. TypeOK'
    <3>1. game_count' \in 0..MaxGames
      BY <1>1, <1>7, <2>1 DEF StartsGame
    <3>2. deal' \in [Consumers -> [id : 0..MaxGames, one : Clients \cup {NoClient},
                                   two : Clients \cup {NoClient}]]
      BY <2>2, <2>3, <2>5 DEF GameIds
    <3>3. at' \in [Consumers -> Making \cup Queueing \cup {"idle", "broadcast"}]
      BY <2>5 DEF Making
    <3> QED
      BY <1>1, <1>7, <2>2, <2>3, <3>1, <3>2, <3>3 DEF IInv, TypeOK, StartsGame
  <2>7. InMaking' = {g} /\ Stored' = Stored /\ InMaking = {}
    <3>1. \A u \in Consumers : at'[u] \in Making <=> u = t
      BY <2>4, <2>5 DEF Making
    <3>2. deal'[t].id = g
      BY <2>5
    <3>3. InMaking' = {deal'[t].id}
      BY <3>1 DEF InMaking
    <3>4. InMaking = {}
      BY <2>4 DEF InMaking
    <3>5. Stored' = Stored
      BY <1>1 DEF Stored
    <3> QED
      BY <3>2, <3>3, <3>4, <3>5
  <2>8. GameIdsAccounted'
    <3>1. game_count' + Len(free_games') = MaxGames
      <4>1. game_count + Len(free_games) = MaxGames
        BY DEF IInv, GameIdsAccounted
      <4>2. game_count' = game_count + 1 /\ Len(free_games') = Len(free_games) - 1
        BY <1>7, <2>2 DEF StartsGame
      <4>3. game_count \in Nat /\ Len(free_games) \in Nat
        BY <2>1
      <4> QED
        BY <4>1, <4>2, <4>3
    <3>2. ASSUME NEW m \in DOMAIN free_games', NEW n \in DOMAIN free_games',
                 free_games'[m] = free_games'[n]
          PROVE  m = n
      <4>1. m + 1 = n + 1
        BY <2>2, <3>2 DEF IInv, GameIdsAccounted
      <4> QED
        BY <2>2, <4>1
    <3>3. ASSUME NEW n \in DOMAIN free_games'
          PROVE  free_games'[n] \notin Stored \cup {g}
      <4>1. free_games[n + 1] \notin Stored
        BY <2>2 DEF IInv, GameIdsAccounted
      <4>2. free_games[n + 1] # free_games[1]
        BY <2>2 DEF IInv, GameIdsAccounted
      <4> QED
        BY <2>2, <4>1, <4>2
    <3>4. g \notin Stored
      BY <2>2 DEF IInv, GameIdsAccounted
    <3>5. ASSUME NEW h \in GameIds, h \notin Stored \cup {g}
          PROVE  \E n \in DOMAIN free_games' : free_games'[n] = h
      <4>1. PICK n \in DOMAIN free_games : free_games[n] = h
        BY <2>7, <3>5 DEF IInv, GameIdsAccounted
      <4> QED
        BY <2>2, <3>5, <4>1
    <3> QED
      BY <2>7, <3>1, <3>2, <3>3, <3>4, <3>5 DEF GameIdsAccounted
  <2>9. SectionIsTheMakers'
    <3>1. section' = t /\ at'[t] \in Making /\ at'[t] \notin Queueing
      BY <1>1, <1>7, <2>5 DEF StartsGame, Making, Queueing
    <3>2. \A u \in Consumers : u # t => at'[u] \notin Making \cup Queueing
      BY <2>4, <2>5
    <3>3. deal'[t].id \in GameIds /\ {deal'[t].one, deal'[t].two} \subseteq Clients
      BY <2>2, <2>3, <2>5
    <3> QED
      BY <3>1, <3>2, <3>3 DEF SectionIsTheMakers
  <2> QED
    BY <2>3, <2>6, <2>8, <2>9 DEF IInv, OneWaits
<1> QED
  BY <1>4, <1>5, <1>6, <1>7 DEF AddReadyClient

\* The writes of set_searching and set_in_game move the consumer on within its
\* section.
LEMMA WriteStep ==
    ASSUME IInv, NEW t \in Consumers, SetSearching(t) \/ SetInGame(t), alive' \subseteq Clients
    PROVE  IInv'
<1> USE NoneAssumption
<1>1. PICK to \in Making \cup Queueing :
          /\ at' = [at EXCEPT ![t] = to] /\ at[t] \in Making \cup Queueing
          /\ at[t] \in Making <=> to \in Making
          /\ at[t] \in Queueing <=> to \in Queueing
  BY DEF SetSearching, SetInGame, SetStatus, SetGameId, Making, Queueing
<1>2. UNCHANGED <<games, free_games, game_count, ready_queue, deal, section, crashed>>
  BY DEF SetSearching, SetInGame, SetStatus, SetGameId
<1>3. /\ deal[t].id \in 0..MaxGames /\ t \in DOMAIN at
      /\ at \in [Consumers -> Making \cup Queueing \cup {"idle", "broadcast"}]
  BY DEF IInv, TypeOK
<1>4. status' \in [Clients -> Statuses] /\ game_id' \in [Clients -> 0..MaxGames]
  <2>1. 0 \in 0..MaxGames /\ "searching" \in Statuses /\ "in_game" \in Statuses
    BY MaxGamesAssumption DEF Statuses
  <2>2. status \in [Clients -> Statuses] /\ game_id \in [Clients -> 0..MaxGames]
    BY DEF IInv, TypeOK
  <2>3. CASE SetSearching(t)
    BY <2>1, <2>2, <2>3 DEF SetSearching, SetStatus, SetGameId
  <2>4. CASE SetInGame(t)
    BY <1>3, <2>1, <2>2, <2>4 DEF SetInGame, SetStatus, SetGameId
  <2> QED
    BY <2>3, <2>4
<1>5. at' \in [Consumers -> Making \cup Queueing \cup {"idle", "broadcast"}]
  BY <1>1, <1>3
<1>6. \A u \in Consumers : /\ at'[u] \in Making <=> at[u] \in Making
                           /\ at'[u] \in Queueing <=> at[u] \in Queueing
  BY <1>1, <1>3
<1>7. TypeOK'
  BY <1>2, <1>4, <1>5 DEF IInv, TypeOK
<1>8. InMaking' = InMaking /\ Stored' = Stored
  BY <1>2, <1>6 DEF InMaking, Stored
<1>9. GameIdsAccounted' /\ OneWaits'
  BY <1>2, <1>8 DEF IInv, GameIdsAccounted, OneWaits
<1>10. SectionIsTheMakers'
  BY <1>2, <1>6 DEF IInv, SectionIsTheMakers
<1> QED
  BY <1>7, <1>9, <1>10 DEF IInv

\* The queue is still empty when the client is put into it.
LEMMA EnqueueStep ==
    ASSUME IInv, NEW t \in Consumers, Enqueue(t), alive' \subseteq Clients
    PROVE  IInv'
<1> USE NoneAssumption, MaxGamesAssumption
<1>1. /\ at[t] = "enqueue" /\ section' = NoThread
      /\ at' = [at EXCEPT ![t] = "idle"]
      /\ deal' = [deal EXCEPT ![t] = NoDeal]
      /\ ready_queue' = Append(ready_queue, deal[t].one)
      /\ UNCHANGED <<games, free_games, game_count, status, game_id, crashed>>
  BY DEF Enqueue
<1>2. deal[t].one \in Clients /\ ready_queue = << >> /\ section = t
  BY <1>1 DEF IInv, SectionIsTheMakers, Queueing
<1>3. \A u \in Consumers : /\ at'[u] \notin Making \cup Queueing
                           /\ at[u] \notin Making
  BY <1>1, <1>2 DEF IInv, TypeOK, SectionIsTheMakers, Making, Queueing
<1>4. TypeOK'
  <2>1. deal' \in [Consumers -> [id : 0..MaxGames, one : Clients \cup {NoClient},
                                 two : Clients \cup {NoClient}]]
    BY <1>1 DEF IInv, TypeOK, NoDeal
  <2>2. /\ ready_queue' \in Seq(Clients)
        /\ at' \in [Consumers -> Making \cup Queueing \cup {"idle", "broadcast"}]
    BY <1>1, <1>2 DEF IInv, TypeOK
  <2> QED
    BY <1>1, <2>1, <2>2 DEF IInv, TypeOK
<1>5. InMaking' = {} /\ InMaking = {} /\ Stored' = Stored
  BY <1>1, <1>3 DEF InMaking, Stored
<1>6. GameIdsAccounted' /\ OneWaits'
  BY <1>1, <1>2, <1>5 DEF IInv, GameIdsAccounted, OneWaits
<1>7. SectionIsTheMakers'
  BY <1>1, <1>3 DEF SectionIsTheMakers
<1> QED
  BY <1>4, <1>6, <1>7 DEF IInv

LEMMA StoreGameStep ==
    ASSUME IInv, NEW t \in Consumers, StoreGame(t), alive' \subseteq Clients
    PROVE  IInv'
<1> DEFINE g == deal[t].id
<1> USE NoneAssumption
<1>1. /\ at[t] \in Making /\ at[t] \notin Queueing /\ section = t
      /\ g \in GameIds /\ deal[t].one \in Clients /\ deal[t].two \in Clients
  BY DEF StoreGame, Making, Queueing, IInv, SectionIsTheMakers
<1>2. \A u \in Consumers : /\ at[u] \in Making <=> u = t
                           /\ at[u] \notin Queueing
  BY <1>1 DEF IInv, SectionIsTheMakers
<1>3. /\ at' = [at EXCEPT ![t] = "broadcast"]
      /\ at \in [Consumers -> Making \cup Queueing \cup {"idle", "broadcast"}]
      /\ games' = [games EXCEPT ![g] = [one |-> deal[t].one, two |-> deal[t].two]]
      /\ games \in [GameIds -> [one : Clients \cup {NoClient}, two : Clients \cup {NoClient}]]
      /\ section' = NoThread
      /\ UNCHANGED <<free_games, game_count, ready_queue, deal, status, game_id, crashed>>
  BY DEF StoreGame, IInv, TypeOK
<1>4. \A u \in Consumers : at'[u] \notin Making \cup Queueing
  BY <1>2, <1>3 DEF Making, Queueing
<1>5. TypeOK'
  <2>1. games' \in [GameIds -> [one : Clients \cup {NoClient}, two : Clients \cup {NoClient}]]
    BY <1>1, <1>3
  <2>2. at' \in [Consumers -> Making \cup Queueing \cup {"idle", "broadcast"}]
    BY <1>3
  <2> QED
    BY <1>3, <2>1, <2>2 DEF IInv, TypeOK
<1>6. InMaking' = {} /\ InMaking = {g}
  BY <1>2, <1>3, <1>4 DEF InMaking
<1>7. Stored' = Stored \cup {g}
  <2>1. games'[g] = [one |-> deal[t].one, two |-> deal[t].two]
    BY <1>1, <1>3
  <2>2. games'[g] # NoGame
    BY <1>1, <2>1 DEF NoGame
  <2>3. \A h \in GameIds : h # g => games'[h] = games[h]
    BY <1>3
  <2> QED
    BY <1>1, <2>2, <2>3 DEF Stored
<1>8. GameIdsAccounted'
  BY <1>3, <1>6, <1>7 DEF IInv, GameIdsAccounted
<1>9. SectionIsTheMakers'
  BY <1>3, <1>4 DEF SectionIsTheMakers
<1> QED
  BY <1>3, <1>5, <1>8, <1>9 DEF IInv, OneWaits

LEMMA BroadcastStep ==
    ASSUME IInv, NEW t \in Consumers, Broadcast(t), alive' \subseteq Clients
    PROVE  IInv'
<1> USE NoneAssumption, MaxGamesAssumption
<1>1. /\ at[t] = "broadcast"
      /\ at' = [at EXCEPT ![t] = "idle"]
      /\ deal' = [deal EXCEPT ![t] = NoDeal]
      /\ UNCHANGED <<games, free_games, game_count, ready_queue, section, status, game_id>>
      /\ crashed' \in BOOLEAN
  BY DEF Broadcast, IInv, TypeOK
<1>2. \A u \in Consumers :
          /\ at'[u] \in Making <=> at[u] \in Making
          /\ at'[u] \in Queueing <=> at[u] \in Queueing
          /\ at[u] \in Making \cup Queueing => deal'[u] = deal[u]
  BY <1>1 DEF IInv, TypeOK, Making, Queueing
<1>3. TypeOK'
  <2>1. deal' \in [Consumers -> [id : 0..MaxGames, one : Clients \cup {NoClient},
                                 two : Clients \cup {NoClient}]]
    BY <1>1 DEF IInv, TypeOK, NoDeal
  <2>2. at' \in [Consumers -> Making \cup Queueing \cup {"idle", "broadcast"}]
    BY <1>1 DEF IInv, TypeOK
  <2> QED
    BY <1>1, <2>1, <2>2 DEF IInv, TypeOK
<1>4. InMaking' = InMaking /\ Stored' = Stored
  BY <1>1, <1>2 DEF InMaking, Stored
<1>5. GameIdsAccounted' /\ OneWaits'
  BY <1>1, <1>4 DEF IInv, GameIdsAccounted, OneWaits
<1>6. SectionIsTheMakers'
  BY <1>1, <1>2 DEF IInv, SectionIsTheMakers
<1> QED
  BY <1>3, <1>5, <1>6 DEF IInv

LEMMA RemoveStep ==
    ASSUME IInv, NEW g \in GameIds, Remove(g), alive' \subseteq Clients
    PROVE  IInv'
<1> USE MaxGamesAssumption, NoneAssumption
<1>1. /\ free_games \in Seq(GameIds) /\ g \in Stored
      /\ game_count \in 0..MaxGames
      /\ game_count + Len(free_games) = MaxGames
  BY DEF IInv, TypeOK, GameIdsAccounted, Remove, Stored
<1>2. /\ free_games' \in Seq(GameIds)
      /\ Len(free_games') = Len(free_games) + 1
      /\ free_games'[Len(free_games) + 1] = g
      /\ \A n \in DOMAIN free_games : free_games'[n] = free_games[n]
      /\ DOMAIN free_games' = DOMAIN free_games \cup {Len(free_games) + 1}
  BY <1>1 DEF Remove
<1>3. /\ \A n \in DOMAIN free_games : free_games[n] # g
      /\ \A m, n \in DOMAIN free_games' : free_games'[m] = free_games'[n] => m = n
  <2>1. \A n \in DOMAIN free_games : free_games[n] # g
    BY <1>1 DEF IInv, GameIdsAccounted
  <2> QED
    BY <1>1, <1>2, <2>1 DEF IInv, GameIdsAccounted
<1>4. game_count' \in 0..MaxGames /\ game_count' + Len(free_games') = MaxGames
  <2>1. Len(free_games') <= MaxGames
    BY <1>2, <1>3, ListFits
  <2>2. game_count' = game_count - 1
    BY DEF Remove
  <2> QED
    BY <1>1, <1>2, <2>1, <2>2
<1>5. /\ games' = [games EXCEPT ![g] = NoGame]
      /\ UNCHANGED <<ready_queue, status, game_id, at, deal, section, crashed>>
  BY DEF Remove
<1>6. Stored' = Stored \ {g} /\ InMaking' = InMaking
  BY <1>5 DEF Stored, InMaking, IInv, TypeOK
<1>7. TypeOK'
  <2>1. games' \in [GameIds -> [one : Clients \cup {NoClient}, two : Clients \cup {NoClient}]]
    BY <1>5 DEF IInv, TypeOK, NoGame
  <2> QED
    BY <1>2, <1>4, <1>5, <2>1 DEF IInv, TypeOK
<1>8. GameIdsAccounted'
  <2>1. ASSUME NEW n \in DOMAIN free_games'
        PROVE  free_games'[n] \notin Stored' \cup InMaking'
    <3>1. CASE n \in DOMAIN free_games
      BY <1>2, <1>6, <3>1 DEF IInv, GameIdsAccounted
    <3>2. CASE n = Len(free_games) + 1
      BY <1>1, <1>2, <1>6, <3>2 DEF IInv, GameIdsAccounted
    <3> QED
      BY <1>2, <3>1, <3>2
  <2>2. ASSUME NEW h \in GameIds, h \notin Stored' \cup InMaking'
        PROVE  \E n \in DOMAIN free_games' : free_games'[n] = h
    <3>1. CASE h = g
      BY <1>2, <3>1
    <3>2. CASE h # g
      BY <1>2, <1>6, <2>2, <3>2 DEF IInv, GameIdsAccounted
    <3> QED
      BY <3>1, <3>2
  <2> QED
    BY <1>3, <1>4, <1>6, <2>1, <2>2 DEF IInv, GameIdsAccounted
<1>9. OneWaits' /\ SectionIsTheMakers'
  BY <1>5 DEF IInv, OneWaits, SectionIsTheMakers
<1> QED
  BY <1>7, <1>8, <1>9 DEF IInv

LEMMA ExpireStep ==
    ASSUME IInv, NEW c \in Clients, Expire(c)
    PROVE  IInv'
<1>1. /\ UNCHANGED <<games, free_games, game_count, ready_queue, at, deal, section,
                     status, game_id, crashed>>
      /\ alive' \subseteq alive
  BY DEF Expire, gameVars
<1>2. TypeOK' /\ OneWaits'
  BY <1>1 DEF IInv, TypeOK, OneWaits
<1> QED
  BY <1>1, <1>2, QuietStep

-----------------------------------------------------------------------------
LEMMA NextIInv == IInv /\ [Next]_vars => IInv'
<1> SUFFICES ASSUME IInv, [Next]_vars PROVE IInv'
  OBVIOUS
<1> alive \subseteq Clients
  BY DEF IInv, TypeOK
<1>1. CASE \E t \in Consumers, c \in Clients : Step(AddReadyClient(t, c))
  BY <1>1, AddReadyStep DEF Step
<1>2. CASE \E t \in Consumers : Step(Deal(t))
  BY <1>2, WriteStep, EnqueueStep, StoreGameStep, BroadcastStep DEF Step, Deal
<1>3. CASE \E g \in GameIds : Step(Remove(g))
  BY <1>3, RemoveStep DEF Step
<1>4. CASE \E c \in Clients : Expire(c)
  BY <1>4, ExpireStep
<1>5. CASE UNCHANGED vars
  <2>1. TypeOK' /\ OneWaits'
    BY <1>5 DEF IInv, TypeOK, OneWaits, vars, gameVars
  <2> QED
    BY <1>5, <2>1, QuietStep DEF vars, gameVars
<1> QED
  BY <1>1, <1>2, <1>3, <1>4, <1>5 DEF Next

\* The pool's books are in order after any sequence of calls and expiries.
THEOREM Safety == Spec => []IInv
<1>1. Init => IInv
  BY InitIInv
<1>2. IInv /\ [Next]_vars => IInv'
  BY NextIInv
<1> QED
  BY <1>1, <1>2, PTL DEF Spec

\* No two games share an id: create_and_add_game never hands one out twice, and
\* never takes one from an empty list.
THEOREM GameIdsAreSafe == Spec => []GameIdsAccounted
<1>1. IInv => GameIdsAccounted
  BY DEF IInv
<1> QED
  BY <1>1, Safety, PTL

\* Whatever the clients ask for, at most one of them waits.
THEOREM OneWaiter == Spec => []OneWaits
<1>1. IInv => OneWaits
  BY DEF IInv
<1> QED
  BY <1>1, Safety, PTL

-----------------------------------------------------------------------------
(* Patient players: what a client's two fields say, at every moment of the     *)
(* making of its game, and that nobody waits or plays twice.                   *)

Waits(c) == \E n \in DOMAIN ready_queue : ready_queue[n] = c

\* How far set_in_game has come with c, if consumer t makes a game for it.
DealtRightly(t, c) ==
    /\ c = deal[t].one =>
          /\ c # deal[t].two
          /\ status[c] = "in_game" <=> at[t] # "status_one"
          /\ game_id[c] = IF at[t] \in {"status_one", "id_one"} THEN 0 ELSE deal[t].id
    /\ c = deal[t].two =>
          /\ c # deal[t].one
          /\ status[c] = "in_game" <=> at[t] \in {"id_two", "store"}
          /\ game_id[c] = IF at[t] = "store" THEN deal[t].id ELSE 0

PlaysOnce(c) ==
    /\ Waits(c) => status[c] # "in_game"
    /\ status[c] # "in_game" => game_id[c] = 0
    /\ status[c] = "in_game" /\ ~ BeingDealt(c) => game_id[c] # 0
    /\ \A g \in Stored : c \in {games[g].one, games[g].two}
                           => status[c] = "in_game" /\ game_id[c] = g
    /\ \A t \in Consumers :
          /\ at[t] \in Making => DealtRightly(t, c)
          /\ at[t] \in Queueing /\ c = deal[t].one => status[c] # "in_game"

PlayersInv ==
    /\ (\E t \in Consumers : at[t] \in Making) => ready_queue = << >>
    /\ \A c \in PatientClients : PlaysOnce(c)

LEMMA InitPlayers == Init => PlayersInv
BY NoneAssumption, PatientAssumption
   DEF Init, PlayersInv, PlaysOnce, DealtRightly, Waits, Stored, BeingDealt, Making,
       Queueing, NoGame

LEMMA SequenceOfOne ==
    ASSUME NEW S, NEW s \in Seq(S), s # << >>, Len(s) <= 1
    PROVE  /\ Tail(s) = << >>
           /\ 1 \in DOMAIN s /\ Head(s) = s[1]
<1>1. Len(s) \in Nat \ {0}
  BY EmptySeq
<1>2. Len(s) = 1 /\ 1 \in DOMAIN s
  <2>1. \A n \in Nat \ {0} : n <= 1 => n = 1
    OBVIOUS
  <2>2. Len(s) = 1
    BY <1>1, <2>1
  <2>3. DOMAIN s = 1..Len(s)
    BY LenProperties
  <2>4. 1 \in 1..1
    OBVIOUS
  <2> QED
    BY <2>2, <2>3, <2>4
<1>3. Tail(s) \in Seq(S) /\ Len(Tail(s)) = 0
  BY <1>2, HeadTailProperties
<1>4. Tail(s) = << >>
  BY <1>3, EmptySeq
<1>5. Head(s) = s[1]
  BY <1>2
<1> QED
  BY <1>2, <1>4, <1>5

LEMMA LastInTheQueue ==
    ASSUME IInv, ready_queue # << >>
    PROVE  /\ Tail(ready_queue) = << >>
           /\ 1 \in DOMAIN ready_queue /\ Head(ready_queue) = ready_queue[1]
<1>1. ready_queue \in Seq(Clients) /\ Len(ready_queue) <= 1
  BY DEF IInv, TypeOK, OneWaits
<1> QED
  BY <1>1, SequenceOfOne

LEMMA AddReadyPlayers ==
    ASSUME IInv, PlayersInv, NEW t \in Consumers, NEW asks \in Clients,
           AddReadyClient(t, asks)
    PROVE  PlayersInv'
<1>1. /\ games' = games /\ Stored' = Stored
      /\ \A u \in Consumers : at[u] \notin Making \cup Queueing
      /\ section = NoThread
  BY NoneAssumption DEF AddReadyClient, Stored, IInv, SectionIsTheMakers
<1>2. /\ ready_queue \in Seq(Clients) /\ Len(ready_queue) <= 1
      /\ status \in [Clients -> Statuses] /\ game_id \in [Clients -> 0..MaxGames]
      /\ at \in [Consumers -> Making \cup Queueing \cup {"idle", "broadcast"}]
      /\ DOMAIN deal = Consumers
  BY DEF IInv, TypeOK, OneWaits
<1>3. \A c \in PatientClients : PlaysOnce(c) /\ c \in Clients /\ ~ BeingDealt(c)
  BY <1>1, PatientAssumption DEF PlayersInv, BeingDealt
<1>4. asks \in PatientClients => status[asks] = "idle" /\ ~ Waits(asks)
  BY DEF AddReadyClient, Waits
<1>5. CASE StartsToWait(t, asks)
  <2>1. /\ at' = [at EXCEPT ![t] = "search_status"]
        /\ deal' = [deal EXCEPT ![t] = [id |-> 0, one |-> asks, two |-> NoClient]]
        /\ status' = status /\ game_id' = game_id /\ ready_queue' = ready_queue
    BY <1>5 DEF StartsToWait
  <2>2. \A u \in Consumers : at'[u] \notin Making
    BY <1>1, <1>2, <2>1 DEF Making
  <2>3. \A u \in Consumers : at'[u] \in Queueing => u = t
    BY <1>1, <1>2, <2>1
  <2>4. deal'[t].one = asks
    BY <1>2, <2>1
  <2>5. ASSUME NEW c \in PatientClients PROVE PlaysOnce(c)'
    <3>1. PlaysOnce(c) /\ ~ BeingDealt(c)
      BY <1>3
    <3>2. Waits(c)' <=> Waits(c)
      BY <2>1 DEF Waits
    <3>3. \A u \in Consumers : at'[u] \in Queueing /\ c = deal'[u].one => status[c] # "in_game"
      BY <1>4, <2>3, <2>4
    <3>4. /\ Waits(c)' => status'[c] # "in_game"
          /\ status'[c] # "in_game" => game_id'[c] = 0
          /\ status'[c] = "in_game" => game_id'[c] # 0
      BY <2>1, <3>1, <3>2 DEF PlaysOnce
    <3>5. \A g \in Stored : c \in {games[g].one, games[g].two}
                           => status[c] = "in_game" /\ game_id[c] = g
      BY <3>1 DEF PlaysOnce
    <3> QED
      BY <1>1, <2>1, <2>2, <3>3, <3>4, <3>5 DEF PlaysOnce
  <2>6. ~ \E u \in Consumers : at'[u] \in Making
    BY <2>2
  <2> QED
    BY <2>5, <2>6 DEF PlayersInv
<1>6. CASE ReplacesExpired(asks) \/ FindsNoGame(asks)
  <2>1. UNCHANGED <<status, game_id, at, deal>>
    BY <1>6 DEF ReplacesExpired, FindsNoGame
  <2>2. ASSUME NEW c \in PatientClients PROVE Waits(c)' => c = asks
    <3>1. Tail(ready_queue) = << >>
      BY <1>6, LastInTheQueue DEF ReplacesExpired, FindsNoGame
    <3>2. CASE ready_queue' = Append(Tail(ready_queue), asks)
      <4>1. << >> \in Seq(Clients) /\ Len(<< >>) = 0
        BY EmptySeq
      <4>2. /\ Append(<< >>, asks) \in Seq(Clients) /\ Len(Append(<< >>, asks)) = 1
            /\ Append(<< >>, asks)[1] = asks
        BY <4>1, AppendProperties
      <4>3. ready_queue' = Append(<< >>, asks)
        BY <3>1, <3>2
      <4>4. DOMAIN ready_queue' = 1..1
        BY <4>2, <4>3, LenProperties
      <4>5. \A n \in 1..1 : n = 1
        OBVIOUS
      <4> QED
        BY <4>2, <4>3, <4>4, <4>5 DEF Waits
    <3>3. CASE ready_queue' = << >>
      BY <3>3 DEF Waits
    <3> QED
      BY <1>6, <3>1, <3>2, <3>3 DEF ReplacesExpired, FindsNoGame
  <2>3. ASSUME NEW c \in PatientClients PROVE PlaysOnce(c)'
    <3>1. ~ BeingDealt(c)' /\ \A u \in Consumers : at'[u] \notin Making \cup Queueing
      BY <1>1, <2>1 DEF BeingDealt
    <3>2. Waits(c)' => status[c] # "in_game"
      BY <1>4, <2>2
    <3> QED
      BY <1>1, <1>3, <2>1, <3>1, <3>2 DEF PlaysOnce
  <2> QED
    BY <1>1, <2>1, <2>3 DEF PlayersInv
<1>7. CASE StartsGame(t, asks)
  <2> DEFINE waited == Head(ready_queue)
  <2>1. /\ at' = [at EXCEPT ![t] = "status_one"]
        /\ deal' = [deal EXCEPT ![t] = [id  |-> Head(free_games),
                                        one |-> asks, two |-> waited]]
        /\ UNCHANGED <<status, game_id>>
        /\ ready_queue # << >> /\ ready_queue' = Tail(ready_queue)
    BY <1>7 DEF StartsGame
  <2>2. ready_queue' = << >> /\ Waits(waited)
    <3>1. /\ Tail(ready_queue) = << >> /\ waited = ready_queue[1]
          /\ 1 \in DOMAIN ready_queue
      BY <2>1, LastInTheQueue
    <3> QED
      BY <2>1, <3>1 DEF Waits
  <2> HIDE DEF waited
  <2>3. /\ at'[t] = "status_one" /\ deal'[t].one = asks /\ deal'[t].two = waited
        /\ \A u \in Consumers : /\ at'[u] \in Making => u = t
                               /\ at'[u] \notin Queueing
    BY <1>1, <1>2, <2>1 DEF Queueing
  <2>4. ASSUME NEW c \in PatientClients PROVE PlaysOnce(c)'
    <3>1. PlaysOnce(c) /\ ~ BeingDealt(c) /\ ~ Waits(c)'
      BY <1>3, <2>2 DEF Waits
    <3>2. c = asks => c # waited /\ status[c] # "in_game"
      BY <1>4, <2>2
    <3>3. c = waited => c # asks /\ status[c] # "in_game"
      BY <1>4, <2>2, <3>1 DEF PlaysOnce
    <3>4. DealtRightly(t, c)'
      BY <2>1, <2>3, <3>1, <3>2, <3>3 DEF DealtRightly, PlaysOnce
    <3>5. status'[c] = "in_game" => game_id'[c] # 0
      BY <2>1, <3>1 DEF PlaysOnce
    <3> QED
      BY <1>1, <2>1, <2>3, <3>1, <3>4, <3>5 DEF PlaysOnce
  <2> QED
    BY <2>2, <2>4 DEF PlayersInv
<1> QED
  BY <1>5, <1>6, <1>7 DEF AddReadyClient

\* While a client is made to wait it is in no game, and nor is it afterwards.
LEMMA SetSearchingPlayers ==
    ASSUME IInv, PlayersInv, NEW t \in Consumers, SetSearching(t)
    PROVE  PlayersInv'
<1>1. /\ at[t] \in Queueing /\ deal[t].one \in Clients
      /\ \A u \in Consumers : /\ at[u] \in Queueing <=> u = t
                             /\ at[u] \notin Making
      /\ status \in [Clients -> Statuses] /\ game_id \in [Clients -> 0..MaxGames]
      /\ at \in [Consumers -> Making \cup Queueing \cup {"idle", "broadcast"}]
  BY NoneAssumption DEF SetSearching, SetStatus, SetGameId, Making, Queueing, IInv, TypeOK,
     SectionIsTheMakers
<1>2. /\ UNCHANGED <<games, ready_queue, deal>> /\ Stored' = Stored
      /\ \E to \in Queueing : at' = [at EXCEPT ![t] = to]
  BY DEF SetSearching, SetStatus, SetGameId, Stored, Queueing
<1>3. \A u \in Consumers : /\ at'[u] \in Queueing <=> u = t
                           /\ at'[u] \notin Making
  BY <1>1, <1>2 DEF Making, Queueing
<1>4. ASSUME NEW c \in PatientClients PROVE PlaysOnce(c)'
  <2>1. PlaysOnce(c) /\ c \in Clients
    BY PatientAssumption DEF PlayersInv
  <2>2. /\ ~ BeingDealt(c) /\ ~ BeingDealt(c)'
        /\ Waits(c)' <=> Waits(c)
    BY <1>1, <1>2, <1>3 DEF BeingDealt, Waits
  <2>3. c = deal[t].one => status[c] # "in_game"
    BY <1>1, <2>1 DEF PlaysOnce
  <2>4. /\ c # deal[t].one => status'[c] = status[c] /\ game_id'[c] = game_id[c]
        /\ c = deal[t].one => /\ status'[c] # "in_game"
                              /\ game_id'[c] \in {0, game_id[c]}
    BY <1>1, <2>1, <2>3 DEF SetSearching, SetStatus, SetGameId
  <2> QED
    BY <1>2, <1>3, <2>1, <2>2, <2>3, <2>4 DEF PlaysOnce
<1> QED
  BY <1>3, <1>4 DEF PlayersInv

LEMMA EnqueuePlayers ==
    ASSUME IInv, PlayersInv, NEW t \in Consumers, Enqueue(t)
    PROVE  PlayersInv'
<1>1. /\ at[t] \in Queueing /\ deal[t].one \in Clients /\ ready_queue = << >>
      /\ \A u \in Consumers : /\ at[u] \in Queueing <=> u = t
                             /\ at[u] \notin Making
      /\ at \in [Consumers -> Making \cup Queueing \cup {"idle", "broadcast"}]
  BY NoneAssumption DEF Enqueue, Making, Queueing, IInv, TypeOK, SectionIsTheMakers
<1>2. /\ UNCHANGED <<games, status, game_id>> /\ Stored' = Stored
      /\ at' = [at EXCEPT ![t] = "idle"]
      /\ ready_queue' = <<deal[t].one>>
  BY <1>1 DEF Enqueue, Stored
<1>3. \A u \in Consumers : at'[u] \notin Making \cup Queueing
  BY <1>1, <1>2 DEF Making, Queueing
<1>4. ASSUME NEW c \in PatientClients PROVE PlaysOnce(c)'
  <2>1. PlaysOnce(c)
    BY DEF PlayersInv
  <2>2. ~ BeingDealt(c) /\ ~ BeingDealt(c)'
    BY <1>1, <1>3 DEF BeingDealt
  <2>3. Waits(c)' => c = deal[t].one
    BY <1>2 DEF Waits
  <2>4. c = deal[t].one => status[c] # "in_game"
    BY <1>1, <2>1 DEF PlaysOnce
  <2> QED
    BY <1>2, <1>3, <2>1, <2>2, <2>3, <2>4 DEF PlaysOnce
<1> QED
  BY <1>3, <1>4 DEF PlayersInv

\* Each write of set_in_game, for the player it is meant for and for others.
LEMMA SetInGamePlayers ==
    ASSUME IInv, PlayersInv, NEW t \in Consumers, SetInGame(t)
    PROVE  PlayersInv'
<1>1. /\ at[t] \in Making
      /\ deal[t].id \in GameIds /\ deal[t].one \in Clients /\ deal[t].two \in Clients
      /\ \A u \in Consumers : /\ at[u] \in Making <=> u = t
                             /\ at[u] \notin Queueing
      /\ status \in [Clients -> Statuses] /\ game_id \in [Clients -> 0..MaxGames]
      /\ at \in [Consumers -> Making \cup Queueing \cup {"idle", "broadcast"}]
  BY NoneAssumption DEF SetInGame, SetStatus, SetGameId, Making, Queueing, IInv, TypeOK,
     SectionIsTheMakers
<1>2. /\ UNCHANGED <<games, ready_queue, deal>> /\ Stored' = Stored
      /\ \E to \in Making : at' = [at EXCEPT ![t] = to]
  BY DEF SetInGame, SetStatus, SetGameId, Stored, Making
<1>3. /\ ready_queue' = << >>
      /\ \A u \in Consumers : /\ at'[u] \in Making <=> u = t
                             /\ at'[u] \notin Queueing
  BY <1>1, <1>2 DEF PlayersInv, Making, Queueing
<1>4. ASSUME NEW c \in PatientClients PROVE PlaysOnce(c)'
  <2>1. /\ PlaysOnce(c) /\ c \in Clients /\ ~ Waits(c)'
        /\ BeingDealt(c)' <=> BeingDealt(c)
        /\ BeingDealt(c) <=> c \in {deal[t].one, deal[t].two}
        /\ DealtRightly(t, c)
    <3>1. PlaysOnce(c) /\ c \in Clients
      BY PatientAssumption DEF PlayersInv
    <3>2. ~ Waits(c)'
      BY <1>3 DEF Waits
    <3>3. /\ BeingDealt(c)' <=> c \in {deal[t].one, deal[t].two}
          /\ BeingDealt(c) <=> c \in {deal[t].one, deal[t].two}
      BY <1>1, <1>2, <1>3 DEF BeingDealt
    <3>4. DealtRightly(t, c)
      BY <1>1, <3>1 DEF PlaysOnce
    <3> QED
      BY <3>1, <3>2, <3>3, <3>4
  <2>2. /\ status'[c] # "in_game" => game_id'[c] = 0
        /\ DealtRightly(t, c)'
        /\ ~ BeingDealt(c) => status'[c] = status[c] /\ game_id'[c] = game_id[c]
        /\ status[c] = "in_game" => status'[c] = "in_game"
        /\ game_id[c] # 0 => game_id'[c] = game_id[c]
    <3>1. CASE SetStatus(t, "status_one", deal[t].one, "in_game", "id_one")
      <4>1. /\ at[t] = "status_one" /\ at'[t] = "id_one" /\ deal' = deal
            /\ game_id' = game_id
            /\ status'[c] = IF c = deal[t].one THEN "in_game" ELSE status[c]
        BY <1>1, <2>1, <3>1 DEF SetStatus
      <4> QED
        BY <2>1, <4>1 DEF DealtRightly, PlaysOnce
    <3>2. CASE SetGameId(t, "id_one", deal[t].one, deal[t].id, "status_two")
      <4>1. /\ at[t] = "id_one" /\ at'[t] = "status_two" /\ deal' = deal
            /\ status' = status
            /\ game_id'[c] = IF c = deal[t].one THEN deal[t].id ELSE game_id[c]
        BY <1>1, <2>1, <3>2 DEF SetGameId
      <4> QED
        BY <2>1, <4>1 DEF DealtRightly, PlaysOnce
    <3>3. CASE SetStatus(t, "status_two", deal[t].two, "in_game", "id_two")
      <4>1. /\ at[t] = "status_two" /\ at'[t] = "id_two" /\ deal' = deal
            /\ game_id' = game_id
            /\ status'[c] = IF c = deal[t].two THEN "in_game" ELSE status[c]
        BY <1>1, <2>1, <3>3 DEF SetStatus
      <4> QED
        BY <2>1, <4>1 DEF DealtRightly, PlaysOnce
    <3>4. CASE SetGameId(t, "id_two", deal[t].two, deal[t].id, "store")
      <4>1. /\ at[t] = "id_two" /\ at'[t] = "store" /\ deal' = deal
            /\ status' = status
            /\ game_id'[c] = IF c = deal[t].two THEN deal[t].id ELSE game_id[c]
        BY <1>1, <2>1, <3>4 DEF SetGameId
      <4> QED
        BY <2>1, <4>1 DEF DealtRightly, PlaysOnce
    <3> QED
      BY <3>1, <3>2, <3>3, <3>4 DEF SetInGame
  <2>3. \A g \in Stored : c \in {games[g].one, games[g].two}
                          => status'[c] = "in_game" /\ game_id'[c] = g
    <3> SUFFICES ASSUME NEW g \in Stored, c \in {games[g].one, games[g].two}
                 PROVE  status'[c] = "in_game" /\ game_id'[c] = g
      OBVIOUS
    <3>1. status[c] = "in_game" /\ game_id[c] = g /\ g # 0
      BY <2>1 DEF PlaysOnce, Stored, GameIds
    <3> QED
      BY <2>2, <3>1
  <2>4. status'[c] = "in_game" /\ ~ BeingDealt(c)' => game_id'[c] # 0
    BY <2>1, <2>2 DEF PlaysOnce
  <2> QED
    BY <1>2, <1>3, <2>1, <2>2, <2>3, <2>4 DEF PlaysOnce
<1> QED
  BY <1>3, <1>4 DEF PlayersInv

LEMMA StoreGamePlayers ==
    ASSUME IInv, PlayersInv, NEW t \in Consumers, StoreGame(t)
    PROVE  PlayersInv'
<1> DEFINE g == deal[t].id
<1>1. /\ at[t] = "store" /\ at[t] \in Making
      /\ g \in GameIds
      /\ \A u \in Consumers : /\ at[u] \in Making <=> u = t
                             /\ at[u] \notin Queueing
      /\ at \in [Consumers -> Making \cup Queueing \cup {"idle", "broadcast"}]
      /\ DOMAIN games = GameIds
  BY NoneAssumption DEF StoreGame, Making, Queueing, IInv, TypeOK, SectionIsTheMakers
<1>2. /\ games' = [games EXCEPT ![g] = [one |-> deal[t].one, two |-> deal[t].two]]
      /\ at' = [at EXCEPT ![t] = "broadcast"]
      /\ UNCHANGED <<ready_queue, deal, status, game_id>>
  BY DEF StoreGame
<1> HIDE DEF g
<1>3. \A u \in Consumers : at'[u] \notin Making \cup Queueing
  BY <1>1, <1>2 DEF Making, Queueing
<1>4. ASSUME NEW c \in PatientClients PROVE PlaysOnce(c)'
  <2>1. PlaysOnce(c) /\ DealtRightly(t, c)
    BY <1>1 DEF PlayersInv, PlaysOnce
  <2>2. /\ ~ BeingDealt(c)'
        /\ BeingDealt(c) <=> c \in {deal[t].one, deal[t].two}
    BY <1>1, <1>3 DEF BeingDealt
  <2>3. c \in {deal[t].one, deal[t].two} => status[c] = "in_game" /\ game_id[c] = g
    BY <1>1, <2>1 DEF DealtRightly, g
  <2>4. game_id[c] # 0 \/ status[c] # "in_game"
    BY <1>1, <2>1, <2>2, <2>3 DEF PlaysOnce, GameIds
  <2>5. \A h \in Stored' : c \in {games'[h].one, games'[h].two}
                           => status[c] = "in_game" /\ game_id[c] = h
    <3> SUFFICES ASSUME NEW h \in Stored', c \in {games'[h].one, games'[h].two}
                 PROVE  status[c] = "in_game" /\ game_id[c] = h
      OBVIOUS
    <3>1. CASE h = g
      BY <1>1, <1>2, <2>3, <3>1
    <3>2. CASE h # g
      <4>1. h \in Stored /\ games'[h] = games[h]
        BY <1>1, <1>2, <3>2 DEF Stored
      <4> QED
        BY <2>1, <4>1 DEF PlaysOnce
    <3> QED
      BY <3>1, <3>2
  <2>6. Waits(c)' <=> Waits(c)
    BY <1>2 DEF Waits
  <2> QED
    BY <1>2, <1>3, <2>1, <2>4, <2>5, <2>6 DEF PlaysOnce
<1> QED
  BY <1>3, <1>4 DEF PlayersInv

\* Steps after which no fewer games are made, nobody waits that did not, and no
\* field of a client is written.
LEMMA QuietPlayers ==
    ASSUME IInv, PlayersInv, UNCHANGED <<ready_queue, status, game_id>>,
           \A u \in Consumers :
              /\ at'[u] \in Making <=> at[u] \in Making
              /\ at'[u] \in Queueing <=> at[u] \in Queueing
              /\ at[u] \in Making \cup Queueing => at'[u] = at[u] /\ deal'[u] = deal[u],
           \A h \in GameIds : games'[h] = games[h] \/ games'[h] = NoGame
    PROVE  PlayersInv'
<1>1. ASSUME NEW c \in PatientClients PROVE PlaysOnce(c)'
  <2>1. PlaysOnce(c)
    BY DEF PlayersInv
  <2>2. (Waits(c)' <=> Waits(c)) /\ (BeingDealt(c)' <=> BeingDealt(c))
    BY DEF Waits, BeingDealt
  <2>3. \A h \in Stored' : h \in Stored /\ games'[h] = games[h]
    BY DEF Stored
  <2>4. ASSUME NEW u \in Consumers, at'[u] \in Making PROVE DealtRightly(u, c)'
    <3>1. DealtRightly(u, c) /\ at'[u] = at[u] /\ deal'[u] = deal[u]
      BY <2>1, <2>4 DEF PlaysOnce
    <3> QED
      BY <3>1 DEF DealtRightly
  <2> QED
    BY <2>1, <2>2, <2>3, <2>4 DEF PlaysOnce
<1> QED
  BY <1>1 DEF PlayersInv

LEMMA NextPlayers == IInv /\ PlayersInv /\ [Next]_vars => PlayersInv'
<1> SUFFICES ASSUME IInv, PlayersInv, [Next]_vars PROVE PlayersInv'
  OBVIOUS
<1>1. CASE \E t \in Consumers, c \in Clients : Step(AddReadyClient(t, c))
  BY <1>1, AddReadyPlayers DEF Step
<1>2. CASE \E t \in Consumers : Step(Deal(t))
  <2>1. ASSUME NEW t \in Consumers, Broadcast(t) PROVE PlayersInv'
    <3>1. /\ UNCHANGED <<games, ready_queue, status, game_id>>
          /\ \A u \in Consumers :
                /\ at'[u] \in Making <=> at[u] \in Making
                /\ at'[u] \in Queueing <=> at[u] \in Queueing
                /\ at[u] \in Making \cup Queueing => at'[u] = at[u] /\ deal'[u] = deal[u]
      BY <2>1 DEF Broadcast, Making, Queueing, IInv, TypeOK
    <3> QED
      BY <3>1, QuietPlayers
  <2> QED
    BY <1>2, <2>1, SetSearchingPlayers, EnqueuePlayers, SetInGamePlayers,
       StoreGamePlayers DEF Step, Deal
<1>3. CASE \E g \in GameIds : Step(Remove(g))
  <2>1. /\ UNCHANGED <<ready_queue, status, game_id, at, deal>>
        /\ \A h \in GameIds : games'[h] = games[h] \/ games'[h] = NoGame
    BY <1>3 DEF Step, Remove, IInv, TypeOK
  <2> QED
    BY <2>1, QuietPlayers
<1>4. CASE (\E c \in Clients : Expire(c)) \/ UNCHANGED vars
  <2>1. UNCHANGED <<games, ready_queue, status, game_id, at, deal>>
    BY <1>4 DEF Expire, vars, gameVars
  <2> QED
    BY <2>1, QuietPlayers
<1> QED
  BY <1>1, <1>2, <1>3, <1>4 DEF Next

\* A patient player knows its game, and its game knows it, except while the game
\* is made: producers read client::status and then client::game_id to address a
\* game, and hold no lock that set_in_game does.
THEOREM PlayersAndGamesAgree == Spec => []PlayersKnowTheirGame
<1>1. PlayersInv => PlayersKnowTheirGame
  BY DEF PlayersInv, PlaysOnce, PlayersKnowTheirGame
<1> QED
  BY <1>1, InitPlayers, NextPlayers, InitIInv, NextIInv, PTL DEF Spec

\* client::game_id is written once for a game: whoever plays stays in its game,
\* through every call of add_ready_client and of remove.
THEOREM PlayersStay == Spec => StaysInGame
<1>1. IInv /\ PlayersInv /\ [Next]_vars
        => [\A c \in PatientClients : game_id[c] # 0 => game_id'[c] = game_id[c]]_vars
  <2> SUFFICES ASSUME IInv, PlayersInv, Next, NEW c \in PatientClients, game_id[c] # 0
               PROVE  game_id'[c] = game_id[c]
    BY DEF vars
  <2>1. PlaysOnce(c) /\ c \in Clients /\ status[c] = "in_game"
    BY PatientAssumption DEF PlayersInv, PlaysOnce
  <2>2. game_id \in [Clients -> 0..MaxGames]
    BY DEF IInv, TypeOK
  <2>3. ASSUME NEW t \in Consumers, SetSearching(t) PROVE game_id'[c] = game_id[c]
    <3>1. at[t] \in Queueing
      BY <2>3 DEF SetSearching, SetStatus, SetGameId, Queueing
    <3>2. c # deal[t].one
      BY <2>1, <3>1 DEF PlaysOnce
    <3> QED
      BY <2>1, <2>2, <2>3, <3>2 DEF SetSearching, SetStatus, SetGameId
  <2>4. ASSUME NEW t \in Consumers, SetInGame(t) PROVE game_id'[c] = game_id[c]
    <3>1. at[t] \in Making => DealtRightly(t, c)
      BY <2>1 DEF PlaysOnce
    <3>2. CASE game_id' = game_id
      BY <3>2
    <3>3. CASE SetGameId(t, "id_one", deal[t].one, deal[t].id, "status_two")
      <4>1. at[t] = "id_one" /\ c # deal[t].one
        BY <3>1, <3>3 DEF SetGameId, DealtRightly, Making
      <4> QED
        BY <2>1, <2>2, <3>3, <4>1 DEF SetGameId
    <3>4. CASE SetGameId(t, "id_two", deal[t].two, deal[t].id, "store")
      <4>1. at[t] = "id_two" /\ c # deal[t].two
        BY <3>1, <3>4 DEF SetGameId, DealtRightly, Making
      <4> QED
        BY <2>1, <2>2, <3>4, <4>1 DEF SetGameId
    <3> QED
      BY <2>4, <3>2, <3>3, <3>4 DEF SetInGame, SetStatus
  <2>5. CASE \/ \E t \in Consumers, asks \in Clients : AddReadyClient(t, asks)
             \/ \E t \in Consumers : Enqueue(t) \/ StoreGame(t) \/ Broadcast(t)
             \/ \E g \in GameIds : Remove(g)
             \/ \E e \in Clients : Expire(e)
    BY <2>5 DEF AddReadyClient, StartsToWait, ReplacesExpired, FindsNoGame, StartsGame,
       Enqueue, StoreGame, Broadcast, Remove, Expire
  <2> QED
    BY <2>3, <2>4, <2>5 DEF Next, Step, Deal
<1>2. QED
  BY <1>1, InitPlayers, NextPlayers, InitIInv, NextIInv, PTL DEF Spec, StaysInGame

-----------------------------------------------------------------------------
(* The pool as its clients see it: every step is the matchmaker's or none, also *)
(* if the clients that are there change with it.                                *)

LEMMA WhoWaits ==
    ASSUME IInv
    PROVE  /\ ready_queue = << >> => Waiting = {}
           /\ ready_queue # << >> => Waiting = {Head(ready_queue)} /\ Tail(ready_queue) = << >>
<1>1. CASE ready_queue # << >>
  <2>1. /\ Tail(ready_queue) = << >>
        /\ 1 \in DOMAIN ready_queue /\ Head(ready_queue) = ready_queue[1]
    BY <1>1, LastInTheQueue
  <2>2. \A n \in DOMAIN ready_queue : n = 1
    <3>1. Len(ready_queue) \in Nat /\ Len(ready_queue) <= 1 /\ DOMAIN ready_queue = 1..Len(ready_queue)
      BY DEF IInv, TypeOK, OneWaits
    <3> QED
      BY <3>1
  <2> QED
    BY <1>1, <2>1, <2>2 DEF Waiting
<1> QED
  BY <1>1 DEF Waiting

LEMMA MatchesStay ==
    ASSUME UNCHANGED <<games, deal, section>>, InMaking' = InMaking PROVE Matches' = Matches
BY DEF Matches, Stored

LEMMA AddReadyMatches ==
    ASSUME IInv, NEW t \in Consumers, NEW c \in Clients, AddReadyClient(t, c),
           alive' \subseteq Clients
    PROVE  Maker!Next
<1>1. /\ section = NoThread /\ UNCHANGED games /\ Stored' = Stored
      /\ \A u \in Consumers : at[u] \notin Making
      /\ InMaking = {} /\ DOMAIN Matches = Stored
      /\ \A g \in Stored : Matches[g] = games[g]
  <2>1. section = NoThread /\ UNCHANGED games
    BY DEF AddReadyClient
  <2>2. \A u \in Consumers : at[u] \notin Making
    BY <2>1, NoneAssumption DEF IInv, SectionIsTheMakers
  <2>3. InMaking = {}
    BY <2>2 DEF InMaking
  <2> QED
    BY <2>1, <2>2, <2>3 DEF Stored, Matches
<1>2. CASE ReplacesExpired(c)
  <2>1. ready_queue' = <<c>>
    <3>1. ready_queue' = Append(<< >>, c)
      BY <1>2, WhoWaits DEF ReplacesExpired
    <3>2. Append(<< >>, c) = <<c>>
      OBVIOUS
    <3> QED
      BY <3>1, <3>2
  <2>2. Waiting \cap alive = {} /\ UNCHANGED <<games, at, deal, section>>
    BY <1>1, <1>2, WhoWaits DEF ReplacesExpired
  <2>3. Waiting' = {c}
    BY <2>1 DEF Waiting
  <2>4. Matches' = Matches
    BY <2>2, MatchesStay DEF InMaking
  <2>5. Maker!Wait(c)
    BY <2>2, <2>3, <2>4 DEF Maker!Wait
  <2> QED
    BY <2>5 DEF Maker!Next
<1>3. CASE FindsNoGame(c)
  <2>1. /\ Waiting \cap alive # {} /\ ready_queue' = << >>
        /\ UNCHANGED <<games, at, deal, section>>
    BY <1>1, <1>3, WhoWaits DEF FindsNoGame
  <2>2. Waiting' = {}
    BY <2>1 DEF Waiting
  <2>3. Matches' = Matches
    BY <2>1, MatchesStay DEF InMaking
  <2>4. GameIds \subseteq DOMAIN Matches
    <3>1. /\ game_count \in 0..MaxGames /\ game_count >= MaxGames
          /\ game_count + Len(free_games) = MaxGames /\ free_games \in Seq(GameIds)
      BY <1>3 DEF FindsNoGame, IInv, TypeOK, GameIdsAccounted
    <3>2. DOMAIN free_games = {}
      BY <3>1, MaxGamesAssumption
    <3> QED
      BY <1>1, <3>2 DEF IInv, GameIdsAccounted
  <2>5. Maker!SendAway
    BY <2>1, <2>2, <2>3, <2>4 DEF Maker!SendAway
  <2> QED
    BY <2>5 DEF Maker!Next
<1>4. CASE StartsGame(t, c)
  <2> DEFINE g == Head(free_games)
             d == Head(ready_queue)
  <2>1. g \in GameIds /\ g \notin Stored
    <3>1. free_games \in Seq(GameIds) /\ Len(free_games) # 0
      BY <1>4, MaxGamesAssumption DEF StartsGame, IInv, TypeOK, GameIdsAccounted
    <3>2. 1 \in DOMAIN free_games /\ g = free_games[1] /\ g \in GameIds
      BY <3>1
    <3> QED
      BY <3>2 DEF IInv, GameIdsAccounted
  <2>2. Waiting = {d} /\ d \in alive /\ ready_queue' = << >>
    BY <1>4, WhoWaits DEF StartsGame
  <2>3. /\ deal'[t] = [id |-> g, one |-> c, two |-> d] /\ section' = t
        /\ \A u \in Consumers : at'[u] \in Making <=> u = t
    BY <1>1, <1>4 DEF StartsGame, IInv, TypeOK, Making
  <2> HIDE DEF g, d
  <2>4. InMaking' = {g}
    BY <2>3 DEF InMaking
  <2>5. Matches' = [h \in DOMAIN Matches \cup {g} |->
                      IF h = g THEN Maker!Match(c, d) ELSE Matches[h]]
    <3>1. Matches' = [h \in Stored \cup {g} |->
                        IF h \in Stored THEN games[h] ELSE [one |-> c, two |-> d]]
      BY <1>1, <2>3, <2>4 DEF Matches
    <3> QED
      BY <1>1, <2>1, <3>1 DEF Maker!Match
  <2>6. Waiting' = Waiting \ {d}
    BY <2>2 DEF Waiting
  <2>7. Maker!Begin(c)
    BY <1>1, <2>1, <2>2, <2>5, <2>6 DEF Maker!Begin
  <2> QED
    BY <2>7 DEF Maker!Next
<1>5. CASE StartsToWait(t, c)
  <2>1. /\ at' = [at EXCEPT ![t] = "search_status"] /\ ready_queue' = ready_queue
        /\ DOMAIN at = Consumers
    BY <1>5 DEF StartsToWait, IInv, TypeOK
  <2>2. \A u \in Consumers : at'[u] \notin Making
    BY <1>1, <2>1 DEF Making
  <2>3. InMaking' = {}
    BY <2>2 DEF InMaking
  <2>4. Matches' = Matches
    BY <1>1, <2>3 DEF Matches
  <2>5. Waiting' = Waiting
    BY <2>1 DEF Waiting
  <2> QED
    BY <2>4, <2>5 DEF Maker!Next
<1> QED
  BY <1>2, <1>3, <1>4, <1>5 DEF AddReadyClient

\* The client that asked waits once it is in the queue.
LEMMA EnqueueMatches ==
    ASSUME IInv, NEW t \in Consumers, Enqueue(t)
    PROVE  deal[t].one \in Clients /\ Maker!Wait(deal[t].one)
<1>1. /\ deal[t].one \in Clients /\ ready_queue = << >>
      /\ \A u \in Consumers : at[u] \notin Making
  BY NoneAssumption DEF Enqueue, Queueing, Making, IInv, SectionIsTheMakers
<1>2. /\ ready_queue' = <<deal[t].one>> /\ games' = games
      /\ at' = [at EXCEPT ![t] = "idle"] /\ DOMAIN at = Consumers
  BY <1>1 DEF Enqueue, IInv, TypeOK
<1>3. InMaking = {} /\ InMaking' = {}
  BY <1>1, <1>2 DEF InMaking, Making
<1>4. Stored' = Stored
  BY <1>2 DEF Stored
<1>5. Matches' = Matches
  BY <1>2, <1>3, <1>4 DEF Matches
<1>6. Waiting = {} /\ Waiting' = {deal[t].one}
  BY <1>1, <1>2 DEF Waiting
<1> QED
  BY <1>1, <1>5, <1>6 DEF Maker!Wait

\* The fields of a client that will wait are not seen, and nor is what follows a
\* match: the players' fields, the entry in the pool, the announcement.
LEMMA DealMatches ==
    ASSUME IInv, NEW t \in Consumers,
           SetSearching(t) \/ SetInGame(t) \/ StoreGame(t) \/ Broadcast(t)
    PROVE  UNCHANGED <<Waiting, Matches>>
<1>1. ready_queue' = ready_queue
  BY DEF SetSearching, SetInGame, SetStatus, SetGameId, StoreGame, Broadcast
<1>2. Waiting' = Waiting
  BY <1>1 DEF Waiting
<1>3. CASE SetSearching(t) \/ SetInGame(t)
  <2>1. PICK to : at' = [at EXCEPT ![t] = to] /\ (at[t] \in Making <=> to \in Making)
    BY <1>3 DEF SetSearching, SetInGame, SetStatus, SetGameId, Making, Queueing
  <2>2. DOMAIN at = Consumers
    BY DEF IInv, TypeOK
  <2>3. \A u \in Consumers : at'[u] \in Making <=> at[u] \in Making
    BY <2>1, <2>2
  <2>4. UNCHANGED <<games, deal, section>>
    BY <1>3 DEF SetSearching, SetInGame, SetStatus, SetGameId
  <2>5. InMaking' = InMaking
    BY <2>3, <2>4 DEF InMaking
  <2> QED
    BY <1>2, <2>4, <2>5, MatchesStay
<1>4. CASE StoreGame(t)
  <2> DEFINE g == deal[t].id
  <2>1. /\ section = t /\ g \in GameIds /\ {deal[t].one, deal[t].two} \subseteq Clients
        /\ \A u \in Consumers : at[u] \in Making <=> u = t
    BY <1>4, NoneAssumption DEF StoreGame, Making, Queueing, IInv, SectionIsTheMakers
  <2>2. /\ games' = [games EXCEPT ![g] = [one |-> deal[t].one, two |-> deal[t].two]]
        /\ at' = [at EXCEPT ![t] = "broadcast"] /\ DOMAIN games = GameIds
        /\ DOMAIN at = Consumers
    BY <1>4 DEF StoreGame, IInv, TypeOK
  <2>3. InMaking = {g} /\ InMaking' = {}
    BY <2>1, <2>2 DEF InMaking, Making
  <2>4. Stored' = Stored \cup {g} /\ g \notin Stored
    <3>1. games'[g] # NoGame
      BY <2>1, <2>2, NoneAssumption DEF NoGame
    <3>2. g \notin Stored
      BY <2>3 DEF IInv, GameIdsAccounted
    <3> QED
      BY <2>1, <2>2, <3>1, <3>2 DEF Stored
  <2> HIDE DEF g
  <2>5. Stored \subseteq GameIds
    BY DEF Stored
  <2>6. Matches = [h \in Stored \cup {g} |->
                     IF h \in Stored THEN games[h] ELSE [one |-> deal[t].one, two |-> deal[t].two]]
    BY <2>1, <2>3 DEF Matches
  <2>7. Matches' = [h \in Stored \cup {g} |-> games'[h]]
    BY <2>3, <2>4 DEF Matches
  <2>8. \A h \in Stored \cup {g} :
           games'[h] = IF h \in Stored THEN games[h] ELSE [one |-> deal[t].one, two |-> deal[t].two]
    BY <2>1, <2>2, <2>4, <2>5
  <2> QED
    BY <1>2, <2>6, <2>7, <2>8
<1>5. CASE Broadcast(t)
  <2>1. /\ UNCHANGED <<games, section>> /\ at[t] = "broadcast"
        /\ at' = [at EXCEPT ![t] = "idle"] /\ deal' = [deal EXCEPT ![t] = NoDeal]
    BY <1>5 DEF Broadcast
  <2>2. \A u \in Consumers :
            /\ at'[u] \in Making <=> at[u] \in Making
            /\ at[u] \in Making \cup Queueing => deal'[u] = deal[u]
    BY <2>1 DEF IInv, TypeOK, Making, Queueing
  <2>3. InMaking' = InMaking
    BY <2>2 DEF InMaking
  <2>4. Stored' = Stored
    BY <2>1 DEF Stored
  <2>5. section \notin Consumers => InMaking = {}
    BY DEF InMaking, IInv, SectionIsTheMakers
  <2>6. section \in Consumers => deal'[section] = deal[section]
    BY <2>2 DEF IInv, SectionIsTheMakers
  <2>7. Matches' = Matches
    BY <2>1, <2>3, <2>4, <2>5, <2>6 DEF Matches
  <2> QED
    BY <1>2, <2>7
<1> QED
  BY <1>3, <1>4, <1>5

LEMMA RemoveMatches == ASSUME IInv, NEW g \in GameIds, Remove(g) PROVE Maker!End(g)
<1>1. /\ section = NoThread /\ g \in Stored /\ games' = [games EXCEPT ![g] = NoGame]
      /\ UNCHANGED <<ready_queue, at, deal, section>>
      /\ DOMAIN games = GameIds
  BY DEF Remove, Stored, IInv, TypeOK
<1>2. InMaking = {} /\ InMaking' = {}
  BY <1>1, NoneAssumption DEF InMaking, IInv, SectionIsTheMakers
<1>3. Stored' = Stored \ {g} /\ Stored \subseteq GameIds
  BY <1>1 DEF Stored
<1>4. Matches = [h \in Stored |-> games[h]]
  BY <1>2 DEF Matches
<1>5. Matches' = [h \in Stored \ {g} |-> games'[h]]
  BY <1>2, <1>3 DEF Matches
<1>6. \A h \in Stored \ {g} : games'[h] = games[h]
  BY <1>1, <1>3
<1>7. Waiting' = Waiting
  BY <1>1 DEF Waiting
<1> QED
  BY <1>1, <1>4, <1>5, <1>6, <1>7 DEF Maker!End

LEMMA MakerStep == IInv /\ [Next]_vars => [Maker!Next]_Maker!matchVars
<1> SUFFICES ASSUME IInv, [Next]_vars PROVE [Maker!Next]_Maker!matchVars
  OBVIOUS
<1> alive \subseteq Clients
  BY DEF IInv, TypeOK
<1>1. CASE \E t \in Consumers, c \in Clients : Step(AddReadyClient(t, c))
  BY <1>1, AddReadyMatches DEF Step
<1>2. ASSUME NEW t \in Consumers, Step(Deal(t))
      PROVE  [Maker!Next]_Maker!matchVars
  <2>1. CASE Enqueue(t)
    BY <1>2, <2>1, EnqueueMatches DEF Step, Maker!Next
  <2>2. CASE SetSearching(t) \/ SetInGame(t) \/ StoreGame(t) \/ Broadcast(t)
    BY <1>2, <2>2, DealMatches DEF Step, Maker!matchVars
  <2> QED
    BY <1>2, <2>1, <2>2 DEF Step, Deal
<1>3. CASE \E g \in GameIds : Step(Remove(g))
  BY <1>3, RemoveMatches DEF Step, Maker!Next
<1>4. CASE (\E c \in Clients : Expire(c)) \/ UNCHANGED vars
  <2>1. UNCHANGED <<games, ready_queue, at, deal, section>> /\ alive' \subseteq Clients
    BY <1>4 DEF Expire, vars, gameVars
  <2>2. UNCHANGED <<Waiting, Matches>>
    BY <2>1, MatchesStay DEF Waiting, InMaking
  <2> QED
    BY <2>1, <2>2 DEF Maker!Next
<1> QED
  BY <1>1, <1>2, <1>3, <1>4 DEF Next

LEMMA InitMaker == ASSUME games = [g \in GameIds |-> NoGame], ready_queue = << >>,
                          at = [t \in Consumers |-> "idle"], alive \subseteq Clients
                   PROVE  Maker!Init
<1>1. Stored = {} /\ InMaking = {} /\ Waiting = {}
  BY DEF Stored, InMaking, Making, Waiting
<1>2. Matches = [g \in {} |-> {}]
  BY <1>1 DEF Matches
<1> QED
  BY <1>1, <1>2 DEF Maker!Init

\* add_ready_client, create_and_add_game and remove make a matchmaker: a client is
\* matched with the one that waited, under a number of their own, from the moment
\* the number is taken until the game is removed, in whatever order the fields of
\* the players, the entry in the vector and the count are written.
THEOREM Implementation == Spec => ImplementsMatchmaker
<1>1. Init => Maker!Init
  BY InitMaker DEF Init
<1> QED
  BY <1>1, MakerStep, Safety, PTL DEF Spec, ImplementsMatchmaker, Maker!Spec
=============================================================================
