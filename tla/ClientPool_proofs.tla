-------------------------- MODULE ClientPool_proofs --------------------------
(***************************************************************************)
(* For any clients and any size of the pool the constructor can build, and  *)
(* with nothing stored past the end of the pool: a connected client has an  *)
(* id of its own, and no free id is ever lost.                              *)
(*                                                                          *)
(* The parts of the invariant lean on each other.  That create_and_add_     *)
(* client, which tests only the count, finds an id to take needs Occupancy; *)
(* that the id it takes is free needs FreeIds; that remove, which tests     *)
(* only the slot, appends an id that is not in the list yet needs FreeIds   *)
(* again, and LastSlotUnused for the id its bounds check lets through.      *)
(***************************************************************************)
EXTENDS ClientPool, FiniteSetTheorems, TLAPS

\* The slot past the end holds nothing that could be taken for a client.
NothingPastTheEnd == PastTheEnd = {}

LEMMA UsedFinite ==
    /\ IsFiniteSet(Used)
    /\ Cardinality(Used) \in Nat
<1>1. IsFiniteSet(Ids)
  BY FS_Interval, MaxClientsAssumption DEF Ids
<1> QED
  BY <1>1, FS_Subset, FS_CardinalityType DEF Used

LEMMA InitIInv ==
    ASSUME NothingPastTheEnd, Init
    PROVE  IInv
<1> USE MaxClientsAssumption DEF Init, NothingPastTheEnd, Ids, Slots
<1>1. Used = {}
  BY DEF Used
<1>2. empty_queue \in Seq(Ids) /\ Len(empty_queue) = MaxClients
  <2>1. empty_queue \in [1..MaxClients -> Ids]
    OBVIOUS
  <2> QED
    BY <2>1
<1>3. TypeOK
  BY <1>2 DEF TypeOK, EmptyListing, Statuses
<1>4. FreeIds
  BY <1>1 DEF FreeIds
<1>5. Occupancy
  BY <1>1, <1>2, FS_EmptySet DEF Occupancy
<1>6. CacheFollowsPool /\ LastSlotUnused
  BY DEF CacheFollowsPool, LastSlotUnused, EmptyListing
<1> QED
  BY <1>3, <1>4, <1>5, <1>6 DEF IInv

-----------------------------------------------------------------------------
(* create_and_add_client *)

LEMMA CreateStep ==
    ASSUME NothingPastTheEnd, IInv, NEW c \in Clients, CreateAndAddClient(c)
    PROVE  /\ IInv'
           /\ Head(empty_queue) \in Ids \ Used
           /\ Used' = Used \cup {Head(empty_queue)}
<1> DEFINE id == Head(empty_queue)
<1> USE MaxClientsAssumption, ClientsAssumption
<1>1. /\ empty_queue \in Seq(Ids) /\ empty_queue # << >>
      /\ client_count' = client_count + 1 /\ client_count \in 0..MaxClients - 1
  BY DEF IInv, TypeOK, Occupancy, CreateAndAddClient, Full
<1>2. id \in Ids \ Used
  <2>1. 1 \in DOMAIN empty_queue /\ id = empty_queue[1] /\ id \in Ids
    BY <1>1
  <2> QED
    BY <2>1 DEF IInv, FreeIds
<1>3. /\ pool' = [pool EXCEPT ![id] = c]
      /\ pool \in [Slots -> Clients \cup {NoClient}]
      /\ c # NoClient /\ Ids \subseteq Slots /\ id \in Slots
  BY <1>2 DEF IInv, TypeOK, NothingPastTheEnd, CreateAndAddClient, Slots, Ids
<1>4. Used' = Used \cup {id}
  BY <1>2, <1>3 DEF Used
<1>5. /\ empty_queue' \in Seq(Ids)
      /\ Len(empty_queue') = Len(empty_queue) - 1
      /\ \A n \in DOMAIN empty_queue' : /\ n + 1 \in DOMAIN empty_queue
                                        /\ empty_queue'[n] = empty_queue[n + 1]
  BY <1>1 DEF CreateAndAddClient
<1>6. TypeOK'
  <2>1. status' \in [Clients -> Statuses]
    BY DEF IInv, TypeOK, CreateAndAddClient, Statuses
  <2>2. Listing(c) \in [client : Clients \cup {NoClient}, status : Statuses]
    BY <2>1 DEF Listing
  <2>3. cl_cache' \in [Slots -> [client : Clients \cup {NoClient}, status : Statuses]]
    BY <1>3, <2>2 DEF IInv, TypeOK, CreateAndAddClient
  <2>4. pool' \in [Slots -> Clients \cup {NoClient} \cup PastTheEnd]
    BY <1>3
  <2>5. client_count' \in 0..MaxClients
    BY <1>1
  <2> QED
    BY <1>5, <2>1, <2>3, <2>4, <2>5 DEF TypeOK
<1>7. FreeIds'
  <2>1. ASSUME NEW m \in DOMAIN empty_queue', NEW n \in DOMAIN empty_queue',
               empty_queue'[m] = empty_queue'[n]
        PROVE  m = n
    <3>1. m + 1 \in DOMAIN empty_queue /\ n + 1 \in DOMAIN empty_queue
      BY <1>5
    <3>2. m + 1 = n + 1
      BY <1>5, <2>1, <3>1 DEF IInv, FreeIds
    <3> QED
      BY <1>5, <3>2
  <2>2. ASSUME NEW i \in Ids \ Used'
        PROVE  \E n \in DOMAIN empty_queue' : empty_queue'[n] = i
    <3>1. PICK n \in DOMAIN empty_queue : empty_queue[n] = i
      BY <1>4 DEF IInv, FreeIds
    <3>2. n # 1
      BY <1>1, <1>4, <3>1
    <3>3. n - 1 \in DOMAIN empty_queue'
      BY <1>1, <1>5, <3>1, <3>2
    <3> QED
      BY <1>1, <1>5, <3>1, <3>3
  <2>3. ASSUME NEW n \in DOMAIN empty_queue', empty_queue'[n] \in Used'
        PROVE  FALSE
    <3>1. n + 1 \in DOMAIN empty_queue /\ empty_queue[n + 1] = empty_queue'[n]
      BY <1>5
    <3>2. empty_queue[n + 1] \notin Used
      BY <1>1, <3>1 DEF IInv, FreeIds
    <3>3. empty_queue[n + 1] = empty_queue[1]
      BY <1>1, <1>4, <2>3, <3>1, <3>2
    <3>4. n + 1 = 1
      BY <1>1, <3>1, <3>3 DEF IInv, FreeIds
    <3> QED
      BY <1>5, <3>4
  <2> QED
    BY <2>1, <2>2, <2>3 DEF FreeIds
<1>8. Occupancy'
  <2>1. Cardinality(Used') = Cardinality(Used) + 1
    BY <1>2, <1>4, UsedFinite, FS_AddElement
  <2> QED
    BY <1>1, <1>5, <2>1 DEF IInv, Occupancy
<1>9. CacheFollowsPool'
  BY <1>2, <1>3 DEF IInv, TypeOK, CacheFollowsPool, CreateAndAddClient, Listing,
     EmptyListing
<1>10. LastSlotUnused'
  BY <1>2, <1>3 DEF IInv, LastSlotUnused, Ids
<1> QED
  BY <1>2, <1>4, <1>6, <1>7, <1>8, <1>9, <1>10 DEF IInv

-----------------------------------------------------------------------------
(* remove *)

LEMMA RemoveStep ==
    ASSUME NothingPastTheEnd, IInv, NEW i, Remove(i)
    PROVE  /\ IInv'
           /\ i \in Used
           /\ Used' = Used \ {i}
<1> USE MaxClientsAssumption, ClientsAssumption
<1>1. i \in Ids /\ i \in Used /\ i \in Slots
  BY DEF Remove, InBounds, IInv, LastSlotUnused, Used, Slots, Ids
<1>2. /\ pool' = [pool EXCEPT ![i] = NoClient]
      /\ pool \in [Slots -> Clients \cup {NoClient}]
      /\ Ids \subseteq Slots
  BY DEF IInv, TypeOK, NothingPastTheEnd, Remove, Slots, Ids
<1>3. Used' = Used \ {i}
  BY <1>1, <1>2 DEF Used
<1>4. /\ empty_queue \in Seq(Ids)
      /\ empty_queue' = Append(empty_queue, i)
      /\ empty_queue' \in Seq(Ids)
      /\ Len(empty_queue') = Len(empty_queue) + 1
      /\ empty_queue'[Len(empty_queue) + 1] = i
      /\ \A n \in DOMAIN empty_queue : empty_queue'[n] = empty_queue[n]
  BY <1>1 DEF IInv, TypeOK, Remove
<1>5. client_count' = client_count - 1 /\ client_count \in 1..MaxClients
  <2>1. Cardinality(Used) # 0
    BY <1>1, UsedFinite, FS_EmptySet
  <2> QED
    BY <2>1, UsedFinite DEF IInv, TypeOK, Occupancy, Remove
<1>6. TypeOK'
  <2>1. cl_cache' \in [Slots -> [client : Clients \cup {NoClient}, status : Statuses]]
    BY DEF IInv, TypeOK, Remove, EmptyListing, Statuses
  <2> QED
    BY <1>2, <1>4, <1>5, <2>1 DEF IInv, TypeOK, Remove
<1>7. FreeIds'
  <2>1. \A n \in DOMAIN empty_queue : empty_queue[n] \in Ids \ Used
    BY <1>4 DEF IInv, FreeIds
  <2>2. DOMAIN empty_queue' = DOMAIN empty_queue \cup {Len(empty_queue) + 1}
    BY <1>4
  <2>3. \A m, n \in DOMAIN empty_queue' :
            empty_queue'[m] = empty_queue'[n] => m = n
    BY <1>1, <1>4, <2>1, <2>2 DEF IInv, FreeIds
  <2>4. \A j \in Ids : j \notin Used' <=>
            \E n \in DOMAIN empty_queue' : empty_queue'[n] = j
    BY <1>1, <1>3, <1>4, <2>1, <2>2 DEF IInv, FreeIds
  <2> QED
    BY <2>3, <2>4 DEF FreeIds
<1>8. Occupancy'
  <2>1. Cardinality(Used') = Cardinality(Used) - 1
    BY <1>1, <1>3, UsedFinite, FS_RemoveElement
  <2> QED
    BY <1>4, <1>5, <2>1 DEF IInv, Occupancy
<1>9. CacheFollowsPool'
  BY <1>1, <1>2 DEF IInv, TypeOK, CacheFollowsPool, Remove, EmptyListing
<1>10. LastSlotUnused'
  BY <1>1, <1>2 DEF IInv, LastSlotUnused, Ids
<1> QED
  BY <1>1, <1>3, <1>6, <1>7, <1>8, <1>9, <1>10 DEF IInv

-----------------------------------------------------------------------------
(* The whole pool *)

LEMMA StatusStep ==
    ASSUME IInv, \/ UNCHANGED vars
                 \/ \E c \in Clients, s \in {"searching", "in_game"} : SetStatus(c, s)
    PROVE  IInv' /\ UNCHANGED poolVars
<1>1. UNCHANGED poolVars /\ status' \in [Clients -> Statuses]
  BY DEF IInv, TypeOK, vars, SetStatus, Statuses
<1>2. Used' = Used
  BY <1>1 DEF Used, poolVars
<1> QED
  BY <1>1, <1>2 DEF IInv, TypeOK, FreeIds, Occupancy, CacheFollowsPool,
     LastSlotUnused, poolVars

LEMMA NextIInv ==
    ASSUME NothingPastTheEnd, IInv, [Next]_vars
    PROVE  IInv'
BY CreateStep, RemoveStep, StatusStep DEF Next

\* For every size of the pool: ids are never shared or lost, the count is
\* right, and the cache lists who is there.
THEOREM Safety ==
    ASSUME NothingPastTheEnd
    PROVE  Spec => []IInv
<1>1. Init => IInv
  BY InitIInv
<1>2. IInv /\ [Next]_vars => IInv'
  BY NextIInv
<1> QED
  BY <1>1, <1>2, PTL DEF Spec

\* A client that is let in has an id that nobody else has, and keeps it until
\* it is removed.
THEOREM Implementation ==
    ASSUME NothingPastTheEnd
    PROVE  Spec => ImplementsRegistry
<1> DEFINE members == [i \in Used |-> pool[i]]
<1>1. Init => Registry!Init
  BY DEF Init, Registry!Init, Used
<1>2. IInv /\ [Next]_vars => [Registry!Next]_members
  <2> SUFFICES ASSUME IInv, [Next]_vars
               PROVE  [Registry!Next]_members
    OBVIOUS
  <2>1. ASSUME NEW c \in Clients, CreateAndAddClient(c)
        PROVE  Registry!Register(c)
    <3>1. /\ Head(empty_queue) \in Ids \ Used
          /\ Used' = Used \cup {Head(empty_queue)}
      BY <2>1, CreateStep
    <3>2. \A j \in Used' : pool'[j] = IF j = Head(empty_queue) THEN c ELSE pool[j]
      BY <2>1, <3>1 DEF CreateAndAddClient, IInv, TypeOK, Used, Ids, Slots
    <3>3. members' = [j \in Used \cup {Head(empty_queue)} |->
                          IF j = Head(empty_queue) THEN c ELSE members[j]]
      BY <3>1, <3>2
    <3> QED
      BY <3>1, <3>3 DEF Registry!Register
  <2>2. ASSUME NEW i, Remove(i)
        PROVE  Registry!Unregister(i) /\ i \in Ids
    <3>1. i \in Used /\ Used' = Used \ {i}
      BY <2>2, RemoveStep
    <3>2. \A j \in Used' : pool'[j] = pool[j]
      BY <2>2, <3>1 DEF Remove, IInv, TypeOK, Used, Ids, Slots
    <3> QED
      BY <3>1, <3>2 DEF Registry!Unregister, Used
  <2>3. ASSUME UNCHANGED poolVars
        PROVE  UNCHANGED members
    BY <2>3 DEF poolVars, Used
  <2> QED
    BY <2>1, <2>2, <2>3, StatusStep DEF Next, Registry!Next
<1> QED
  BY <1>1, <1>2, Safety, PTL DEF Spec, ImplementsRegistry, Registry!Spec

\* An id waiting in the list is in nobody's use and is there once: the next
\* create_and_add_client hands it to one client only.
THEOREM FreeIdsAreFree ==
    ASSUME NothingPastTheEnd
    PROVE  Spec => []FreeIds
<1>1. IInv => FreeIds
  BY DEF IInv
<1> QED
  BY <1>1, Safety, PTL

\* client_count, tested before an id is taken off the list, counts the clients.
THEOREM CountIsRight ==
    ASSUME NothingPastTheEnd
    PROVE  Spec => []Occupancy
<1>1. IInv => Occupancy
  BY DEF IInv
<1> QED
  BY <1>1, Safety, PTL

\* What get_client_listings sends is about the clients of the pool and no others.
THEOREM ListingsAreCurrent ==
    ASSUME NothingPastTheEnd
    PROVE  Spec => []CacheFollowsPool
<1>1. IInv => CacheFollowsPool
  BY DEF IInv
<1> QED
  BY <1>1, Safety, PTL
=============================================================================
