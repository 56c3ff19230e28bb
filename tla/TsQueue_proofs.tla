--------------------------- MODULE TsQueue_proofs ---------------------------
(***************************************************************************)
(* For any finite set of consumers and any number of items: the queue is    *)
(* first-in first-out, no item is given out twice, and a sleeping consumer  *)
(* never misses an item, whatever wakes the others and in whatever order    *)
(* they get the mutex back.                                                 *)
(***************************************************************************)
EXTENDS TsQueue, FiniteSetTheorems, TLAPS

LEMMA WokenFinite ==
    /\ IsFiniteSet(Woken)
    /\ Cardinality(Woken) \in Nat
<1>1. IsFiniteSet(Woken)
  BY ConsumersAssumption, FS_Subset DEF Woken
<1> QED
  BY <1>1, FS_CardinalityType

LEMMA InitInvariant == Init => QueueInvariant
BY DEF Init, QueueInvariant, TypeOK, Fifo, WorksOnItems, HandedOnce, WokenEnough

\* What a consumer is given is the oldest item, and nobody else has it.
LEMMA TakeStep ==
    ASSUME TypeOK, Fifo, WorksOnItems, HandedOnce,
           NEW t \in Consumers, at[t] # "working", t \notin asleep, Take(t)
    PROVE  /\ TypeOK' /\ Fifo' /\ WorksOnItems' /\ HandedOnce'
           /\ Len(queue') = Len(queue) - 1
<1>1. /\ queue' \in Seq(Nat)
      /\ Len(queue') = Len(queue) - 1
      /\ Len(queue) \in Nat \ {0}
      /\ \A n \in 1..Len(queue') : queue'[n] = queue[n + 1]
      /\ Head(queue) = queue[1]
  BY DEF TypeOK, Take
<1>2. Head(queue) = taken + 1
  BY <1>1 DEF Fifo
<1>3. /\ taken' = taken + 1
      /\ holding' = [holding EXCEPT ![t] = taken + 1]
      /\ at' = [at EXCEPT ![t] = "working"]
      /\ added' = added /\ asleep' = asleep
  BY <1>2 DEF Take
<1>4. TypeOK'
  BY <1>1, <1>3 DEF TypeOK
<1>5. Fifo'
  BY <1>1, <1>3 DEF Fifo, TypeOK
<1>6. WorksOnItems'
  BY <1>3 DEF WorksOnItems, TypeOK
<1>7. HandedOnce'
  <2>1. \A u \in Consumers : holding[u] # taken + 1
    BY DEF WorksOnItems, TypeOK
  <2> QED
    BY <1>3, <2>1 DEF HandedOnce, TypeOK
<1> QED
  BY <1>1, <1>4, <1>5, <1>6, <1>7

\* A consumer that finds the list empty is the only one to move.
LEMMA SleepStep ==
    ASSUME QueueInvariant, NEW t \in Consumers, at[t] # "working", Sleep(t)
    PROVE  QueueInvariant'
<1> USE DEF QueueInvariant, TypeOK, Sleep
<1>1. TypeOK' /\ WorksOnItems' /\ HandedOnce'
  BY DEF WorksOnItems, HandedOnce
<1>2. Fifo'
  BY DEF Fifo
<1>3. Len(queue') = 0
  OBVIOUS
<1>4. Cardinality(Woken') \in Nat
  <2>1. IsFiniteSet(Woken')
    BY ConsumersAssumption, FS_Subset DEF Woken
  <2> QED
    BY <2>1, FS_CardinalityType
<1> QED
  BY <1>1, <1>2, <1>3, <1>4 DEF WokenEnough

\* A consumer that comes without having slept takes an item that a woken one
\* may have been woken for: there is one item less, and as many woken.
LEMMA RemoveStep ==
    ASSUME QueueInvariant, NEW t \in Consumers, Remove(t)
    PROVE  QueueInvariant'
<1>1. CASE Sleep(t)
  BY <1>1, SleepStep DEF Remove
<1>2. CASE Take(t)
  <2>1. t \notin asleep /\ at[t] # "working"
    BY DEF QueueInvariant, TypeOK, Remove
  <2>2. /\ TypeOK' /\ Fifo' /\ WorksOnItems' /\ HandedOnce'
        /\ Len(queue') = Len(queue) - 1
    BY <1>2, <2>1, TakeStep DEF QueueInvariant
  <2>3. Woken' = Woken /\ asleep' = asleep
    BY <1>2 DEF QueueInvariant, TypeOK, Remove, Take, Woken
  <2>4. WokenEnough'
    <3>1. Len(queue) \in Nat /\ Cardinality(Woken) \in Nat
      BY WokenFinite DEF QueueInvariant, TypeOK
    <3>2. asleep # {} => Len(queue) <= Cardinality(Woken)
      BY DEF QueueInvariant, WokenEnough
    <3>3. asleep' # {} => Len(queue') <= Cardinality(Woken)
      BY <2>2, <2>3, <3>1, <3>2
    <3> QED
      BY <2>3, <3>3 DEF WokenEnough
  <2> QED
    BY <2>2, <2>4 DEF QueueInvariant
<1> QED
  BY <1>1, <1>2 DEF Remove

\* A woken consumer that takes an item is no longer woken, and the item it
\* was needed for is gone as well.
LEMMA RemoveWokenStep ==
    ASSUME QueueInvariant, NEW t \in Consumers, RemoveWoken(t)
    PROVE  QueueInvariant'
<1>1. CASE Sleep(t)
  BY <1>1, SleepStep DEF RemoveWoken
<1>2. CASE Take(t)
  <2>1. t \notin asleep /\ at[t] # "working" /\ t \in Woken
    BY DEF QueueInvariant, TypeOK, RemoveWoken, Woken
  <2>2. /\ TypeOK' /\ Fifo' /\ WorksOnItems' /\ HandedOnce'
        /\ Len(queue') = Len(queue) - 1
    BY <1>2, <2>1, TakeStep DEF QueueInvariant
  <2>3. Woken' = Woken \ {t} /\ asleep' = asleep
    BY <1>2 DEF QueueInvariant, TypeOK, RemoveWoken, Take, Woken
  <2>4. Cardinality(Woken') = Cardinality(Woken) - 1
    BY <2>1, <2>3, WokenFinite, FS_RemoveElement
  <2>5. WokenEnough'
    <3>1. Len(queue) \in Nat /\ Cardinality(Woken) \in Nat
      BY WokenFinite DEF QueueInvariant, TypeOK
    <3>2. asleep # {} => Len(queue) <= Cardinality(Woken)
      BY DEF QueueInvariant, WokenEnough
    <3>3. asleep' # {} => Len(queue') <= Cardinality(Woken')
      BY <2>2, <2>3, <2>4, <3>1, <3>2
    <3> QED
      BY <3>3 DEF WokenEnough
  <2> QED
    BY <2>2, <2>5 DEF QueueInvariant
<1> QED
  BY <1>1, <1>2 DEF RemoveWoken

\* One item more, and one consumer more to take it if any was asleep.
LEMMA AddStep ==
    ASSUME QueueInvariant, Add
    PROVE  QueueInvariant'
<1>1. /\ queue' \in Seq(Nat)
      /\ Len(queue') = Len(queue) + 1
      /\ queue'[Len(queue) + 1] = added + 1
      /\ \A n \in 1..Len(queue) : queue'[n] = queue[n]
      /\ added' = added + 1
      /\ taken' = taken /\ at' = at /\ holding' = holding
      /\ asleep' \subseteq asleep
  BY DEF QueueInvariant, TypeOK, Add
<1>2. TypeOK'
  BY <1>1 DEF QueueInvariant, TypeOK
<1>3. Fifo'
  BY SMTT(60), <1>1 DEF QueueInvariant, TypeOK, Fifo
<1>4. WorksOnItems' /\ HandedOnce'
  BY <1>1 DEF QueueInvariant, WorksOnItems, HandedOnce
<1>5. WokenEnough'
  <2>1. CASE asleep = {}
    BY <1>1, <2>1 DEF WokenEnough
  <2>2. CASE asleep # {}
    <3>1. PICK t \in asleep : asleep' = asleep \ {t}
      BY <2>2 DEF Add
    <3>2. t \notin Woken /\ Woken' = Woken \cup {t}
      BY <1>1, <3>1 DEF QueueInvariant, TypeOK, Woken
    <3>3. Cardinality(Woken') = Cardinality(Woken) + 1
      BY <3>2, WokenFinite, FS_AddElement
    <3> QED
      BY <1>1, <2>2, <3>3, WokenFinite DEF QueueInvariant, TypeOK, WokenEnough
  <2> QED
    BY <2>1, <2>2
<1> QED
  BY <1>2, <1>3, <1>4, <1>5 DEF QueueInvariant

LEMMA NextInvariant ==
    ASSUME QueueInvariant, [Next]_vars
    PROVE  QueueInvariant'
<1>1. CASE UNCHANGED vars
  BY <1>1 DEF vars, QueueInvariant, TypeOK, Fifo, WorksOnItems, HandedOnce, WokenEnough, Woken
<1>2. ASSUME NEW t \in Consumers, SpuriousWakeup(t)
      PROVE  QueueInvariant'
  <2>1. TypeOK' /\ Fifo' /\ WorksOnItems' /\ HandedOnce'
    BY <1>2 DEF QueueInvariant, TypeOK, Fifo, WorksOnItems, HandedOnce, SpuriousWakeup
  <2>2. Woken' = Woken \cup {t} /\ t \notin Woken
    BY <1>2 DEF QueueInvariant, TypeOK, Woken, SpuriousWakeup
  <2>3. Cardinality(Woken') = Cardinality(Woken) + 1
    BY <2>2, WokenFinite, FS_AddElement
  <2>4. WokenEnough'
    BY <1>2, <2>3, WokenFinite DEF QueueInvariant, TypeOK, WokenEnough, SpuriousWakeup
  <2> QED
    BY <2>1, <2>4 DEF QueueInvariant
<1>3. ASSUME NEW t \in Consumers, Return(t)
      PROVE  QueueInvariant'
  <2>1. TypeOK' /\ Fifo' /\ WorksOnItems' /\ HandedOnce'
    BY <1>3 DEF QueueInvariant, TypeOK, Fifo, WorksOnItems, HandedOnce, Return
  <2>2. Woken' = Woken
    BY <1>3 DEF QueueInvariant, TypeOK, Woken, Return
  <2> QED
    BY <1>3, <2>1, <2>2 DEF QueueInvariant, WokenEnough, Return
<1> QED
  BY <1>1, <1>2, <1>3, AddStep, RemoveStep, RemoveWokenStep DEF Next, Consume

\* First in, first out; no item twice; no lost wakeup.
THEOREM Safety == Spec => []QueueInvariant
<1>1. Init => QueueInvariant
  BY InitInvariant
<1>2. QueueInvariant /\ [Next]_vars => QueueInvariant'
  BY NextInvariant
<1> QED
  BY <1>1, <1>2, PTL DEF Spec

\* Items leave in the order in which add put them in.
THEOREM FirstInFirstOut == Spec => []Fifo
<1>1. QueueInvariant => Fifo
  BY DEF QueueInvariant
<1> QED
  BY <1>1, Safety, PTL

\* remove returns only with an item, whatever woke its caller.
THEOREM NobodyWorksOnNothing == Spec => []WorksOnItems
<1>1. QueueInvariant => WorksOnItems
  BY DEF QueueInvariant
<1> QED
  BY <1>1, Safety, PTL

\* While a consumer sleeps there is an awake one for each item in the list.
THEOREM NoLostWakeup == Spec => []WokenEnough
<1>1. QueueInvariant => WokenEnough
  BY DEF QueueInvariant
<1> QED
  BY <1>1, Safety, PTL

-----------------------------------------------------------------------------
(* The queue as the server sees it *)

\* Only Take moves an item, to a consumer that works on none.
LEMMA QueueStep == ASSUME QueueInvariant, [Next]_vars PROVE [Queue!Next]_Queue!queueVars
<1>1. CASE Add
  <2>1. added + 1 \in 1..MaxItems
    BY <1>1, MaxItemsAssumption DEF Add, QueueInvariant, TypeOK
  <2>2. Queue!Put(added + 1)
    BY <1>1 DEF Add, Queue!Put
  <2> QED
    BY <2>1, <2>2 DEF Queue!Next
<1>2. ASSUME NEW t \in Consumers, Remove(t) \/ RemoveWoken(t)
      PROVE  [Queue!Next]_Queue!queueVars
  <2>1. CASE Take(t)
    <3>1. holding[t] = 0
      BY <1>2 DEF Remove, RemoveWoken, QueueInvariant, WorksOnItems
    <3>2. Queue!Get(t)
      BY <2>1, <3>1 DEF Take, Queue!Get
    <3> QED
      BY <3>2 DEF Queue!Next
  <2>2. CASE Sleep(t)
    BY <2>2 DEF Sleep, Queue!queueVars
  <2> QED
    BY <1>2, <2>1, <2>2 DEF Remove, RemoveWoken
<1>3. ASSUME NEW t \in Consumers, Return(t) PROVE [Queue!Next]_Queue!queueVars
  <2>1. holding[t] # 0
    BY <1>3 DEF Return, QueueInvariant, TypeOK, WorksOnItems
  <2>2. Queue!Finish(t)
    BY <1>3, <2>1 DEF Return, Queue!Finish
  <2> QED
    BY <2>2 DEF Queue!Next
<1>4. ASSUME NEW t \in Consumers, SpuriousWakeup(t) PROVE [Queue!Next]_Queue!queueVars
  BY <1>4 DEF SpuriousWakeup, Queue!queueVars
<1>5. CASE UNCHANGED vars
  BY <1>5 DEF vars, Queue!queueVars
<1> QED
  BY <1>1, <1>2, <1>3, <1>4, <1>5 DEF Next, Consume

\* ts_queue is a queue whose add and remove take one step each, which is how the
\* threads of the server use c_queue and msg_queue.
THEOREM Implementation == Spec => ImplementsQueue
<1>1. Init => Queue!Init
  BY DEF Init, Queue!Init
<1> QED
  BY <1>1, QueueStep, Safety, PTL DEF Spec, ImplementsQueue, Queue!Spec
=============================================================================
