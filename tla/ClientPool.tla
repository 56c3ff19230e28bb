----------------------------- MODULE ClientPool -----------------------------
(***************************************************************************)
(* client_pool (GameServer/inc/clientpool.h, GameServer/src/clientpool.cpp):*)
(* the vector of connected clients, the list of free ids, the count and the *)
(* cached listings.  Every method runs inside a reader or a writer section, *)
(* which PoolLock shows to be exclusive, so a method is one step here.      *)
(*                                                                          *)
(* pool is reserved, never resized: ids run from 1 to max_client_count, but *)
(* the bounds checks let max_client_count + 1 through as well.  That slot   *)
(* lies past the reserved storage, and PastTheEnd is what may be read there.*)
(***************************************************************************)
EXTENDS Integers, Sequences, FiniteSets

CONSTANTS Clients,      \* clients that may connect
          NoClient,     \* the null shared_ptr
          MaxClients,   \* max_client_count
          PastTheEnd    \* what the slot after the last may hold

ASSUME ClientsAssumption == NoClient \notin Clients

\* With 255 the constructor never returns: its counter is an unsigned char.
ASSUME MaxClientsAssumption == MaxClients \in 1..254

VARIABLES pool,          \* the client stored under each id
          empty_queue,   \* the free ids, next one first
          client_count,  \* number of clients in the pool
          cl_cache,      \* the cached listing of each id
          status         \* client::status of each client

poolVars == <<pool, empty_queue, client_count, cl_cache>>
vars == <<poolVars, status>>

Ids   == 1..MaxClients
Slots == 1..MaxClients + 1

Statuses     == {"idle", "searching", "in_game"}
EmptyListing == [client |-> NoClient, status |-> "idle"]
Listing(c)   == [client |-> c, status |-> status'[c]]

\* The storage of the slots is reserved and never constructed: a slot reads as
\* empty because the memory is fresh.
Init ==
    /\ pool \in [Slots -> {NoClient} \cup PastTheEnd]
    /\ \A i \in Ids : pool[i] = NoClient
    /\ empty_queue = [i \in Ids |-> i]
    /\ client_count = 0
    /\ cl_cache = [i \in Slots |-> EmptyListing]
    /\ status = [c \in Clients |-> "idle"]

\* The pool refuses a client by its count, not by its list of ids.
Full == client_count >= MaxClients

\* client ids that get and remove accept
InBounds(i) == i \in Slots

\* get: the stored client, if its id is in bounds and in use.
Get(i) == IF InBounds(i) THEN pool[i] ELSE NoClient

-----------------------------------------------------------------------------
\* A mutant: the id stays in the list of free ids.
CreateKeepingId(c) ==
    LET id == Head(empty_queue) IN
    /\ ~ Full
    /\ \A i \in Slots : pool[i] # c
    /\ status' = [status EXCEPT ![c] = "idle"]
    /\ pool' = [pool EXCEPT ![id] = c]
    /\ client_count' = client_count + 1
    /\ cl_cache' = [cl_cache EXCEPT ![id] = Listing(c)]
    /\ UNCHANGED empty_queue

\* A mutant: the new client's listing is not cached.
CreateUnlisted(c) ==
    LET id == Head(empty_queue) IN
    /\ ~ Full
    /\ \A i \in Slots : pool[i] # c
    /\ status' = [status EXCEPT ![c] = "idle"]
    /\ pool' = [pool EXCEPT ![id] = c]
    /\ client_count' = client_count + 1
    /\ empty_queue' = Tail(empty_queue)
    /\ UNCHANGED cl_cache

\* A new client object, idle, under the first free id.  A full pool is left
\* alone and the caller gets a nullptr.
CreateAndAddClient(c) ==
    LET id == Head(empty_queue) IN
    /\ ~ Full
    /\ \A i \in Slots : pool[i] # c
    /\ status' = [status EXCEPT ![c] = "idle"]
    /\ pool' = [pool EXCEPT ![id] = c]
    /\ client_count' = client_count + 1
    /\ cl_cache' = [cl_cache EXCEPT ![id] = Listing(c)]
    /\ empty_queue' = Tail(empty_queue)

\* A mutant: every accepted id is recycled, whether it was in use or not.
RemoveUnchecked(i) ==
    /\ InBounds(i)
    /\ pool' = [pool EXCEPT ![i] = NoClient]
    /\ client_count' = client_count - 1
    /\ cl_cache' = [cl_cache EXCEPT ![i] = EmptyListing]
    /\ empty_queue' = Append(empty_queue, i)
    /\ UNCHANGED status

\* A mutant: a removed client still counts.
RemoveUncounted(i) ==
    /\ InBounds(i)
    /\ pool[i] # NoClient
    /\ pool' = [pool EXCEPT ![i] = NoClient]
    /\ cl_cache' = [cl_cache EXCEPT ![i] = EmptyListing]
    /\ empty_queue' = Append(empty_queue, i)
    /\ UNCHANGED <<client_count, status>>

\* An id out of bounds or not in use is refused and changes nothing.
Remove(i) ==
    /\ InBounds(i)
    /\ pool[i] # NoClient
    /\ pool' = [pool EXCEPT ![i] = NoClient]
    /\ client_count' = client_count - 1
    /\ cl_cache' = [cl_cache EXCEPT ![i] = EmptyListing]
    /\ empty_queue' = Append(empty_queue, i)
    /\ UNCHANGED status

\* client::set_searching and client::set_in_game, called by the game pool
\* without a word to the client pool.
SetStatus(c, s) ==
    /\ \E i \in Ids : pool[i] = c
    /\ status' = [status EXCEPT ![c] = s]
    /\ UNCHANGED poolVars

Next ==
    \/ \E c \in Clients : CreateAndAddClient(c)
    \/ \E i \in 0..MaxClients + 2 : Remove(i)
    \/ \E c \in Clients, s \in {"searching", "in_game"} : SetStatus(c, s)

Spec == Init /\ [][Next]_vars

-----------------------------------------------------------------------------
(* Properties *)

Used == {i \in Ids : pool[i] # NoClient}

\* The variables hold values of their types.
TypeOK ==
    /\ pool \in [Slots -> Clients \cup {NoClient} \cup PastTheEnd]
    /\ empty_queue \in Seq(Ids)
    /\ client_count \in 0..MaxClients
    /\ cl_cache \in [Slots -> [client : Clients \cup {NoClient}, status : Statuses]]
    /\ status \in [Clients -> Statuses]

\* The list of free ids holds each free id once and no id in use, so that
\* two clients never share one.
FreeIds ==
    /\ \A m, n \in DOMAIN empty_queue : empty_queue[m] = empty_queue[n] => m = n
    /\ \A i \in Ids : i \notin Used <=> \E n \in DOMAIN empty_queue : empty_queue[n] = i

\* The count, the clients in the pool and the free ids agree: create_and_add
\* tests the count and then takes the front of the list unasked.
Occupancy ==
    /\ client_count = Cardinality(Used)
    /\ client_count + Len(empty_queue) = MaxClients

\* The cache lists the clients that are in the pool and no other.
CacheFollowsPool ==
    \A i \in Ids : /\ cl_cache[i].client = pool[i]
                   /\ pool[i] = NoClient => cl_cache[i] = EmptyListing

\* The listings show each client with its status: "the client IDs, names and
\* status of the clients" (src/clientpool.cpp:229).
ListingsShowStatus ==
    \A i \in Ids : pool[i] # NoClient => cl_cache[i].status = status[pool[i]]

\* Nothing is ever stored past the end of the pool.
LastSlotUnused == pool[MaxClients + 1] = NoClient

IInv ==
    /\ TypeOK
    /\ FreeIds
    /\ Occupancy
    /\ CacheFollowsPool
    /\ LastSlotUnused

\* A client that is let in has an id of its own until it is removed.
Registry == INSTANCE ClientRegistry WITH
    Clients <- Clients, Ids <- Ids,
    members <- [i \in Used |-> pool[i]]
ImplementsRegistry == Registry!Spec
=============================================================================
