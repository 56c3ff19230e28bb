------------------------------- MODULE TsQueue -------------------------------
(***************************************************************************)
(* ts_queue (GameServer/inc/tsqueue.h), the blocking queue between the main *)
(* thread, the producers and the consumers: a list, a mutex and a condition *)
(* variable.                                                                *)
(*                                                                          *)
(* add pushes and notifies with the mutex locked, and remove tests the list *)
(* and goes to sleep without unlocking it in between: each is one step.  A  *)
(* remove that slept is another: it was woken, locks the mutex again, maybe *)
(* after somebody else took the item it was woken for, and tests again.     *)
(*                                                                          *)
(* Items are numbered in the order in which they are added.                 *)
(***************************************************************************)
EXTENDS Integers, Sequences, FiniteSets

CONSTANTS Consumers,   \* the threads that loop over remove()
          MaxItems     \* bound of the model: items ever added

ASSUME ConsumersAssumption == IsFiniteSet(Consumers)
ASSUME MaxItemsAssumption == MaxItems \in Nat

VARIABLES queue,    \* the list of items
          added,    \* items added so far
          taken,    \* items removed so far
          at,       \* where each consumer is in its loop
          holding,  \* the item each consumer works on, 0 for none
          asleep    \* consumers blocked in condv.wait

vars == <<queue, added, taken, at, holding, asleep>>

Init ==
    /\ queue = << >>
    /\ added = 0
    /\ taken = 0
    /\ at = [t \in Consumers |-> "calling"]
    /\ holding = [t \in Consumers |-> 0]
    /\ asleep = {}

-----------------------------------------------------------------------------
\* A mutant: no notification.
AddSilently ==
    /\ added < MaxItems
    /\ added' = added + 1
    /\ queue' = Append(queue, added + 1)
    /\ UNCHANGED <<taken, at, holding, asleep>>

\* notify_one wakes one of the sleepers, if there is any.
Add ==
    /\ added < MaxItems
    /\ added' = added + 1
    /\ queue' = Append(queue, added + 1)
    /\ IF asleep = {} THEN UNCHANGED asleep
                      ELSE \E t \in asleep : asleep' = asleep \ {t}
    /\ UNCHANGED <<taken, at, holding>>

\* A mutant: the item is taken from the back.
TakeLast(t) ==
    /\ queue # << >>
    /\ holding' = [holding EXCEPT ![t] = queue[Len(queue)]]
    /\ queue' = SubSeq(queue, 1, Len(queue) - 1)
    /\ taken' = taken + 1
    /\ at' = [at EXCEPT ![t] = "working"]
    /\ UNCHANGED <<added, asleep>>

Take(t) ==
    /\ queue # << >>
    /\ holding' = [holding EXCEPT ![t] = Head(queue)]
    /\ queue' = Tail(queue)
    /\ taken' = taken + 1
    /\ at' = [at EXCEPT ![t] = "working"]
    /\ UNCHANGED <<added, asleep>>

Sleep(t) ==
    /\ queue = << >>
    /\ asleep' = asleep \cup {t}
    /\ at' = [at EXCEPT ![t] = "waiting"]
    /\ UNCHANGED <<queue, added, taken, holding>>

Remove(t) ==
    /\ at[t] = "calling"
    /\ Take(t) \/ Sleep(t)

\* A mutant: the predicate is tested once, a wakeup is trusted.
RemoveTrusting(t) ==
    /\ at[t] = "waiting"
    /\ t \notin asleep
    /\ \/ Take(t)
       \/ /\ queue = << >>
          /\ at' = [at EXCEPT ![t] = "working"]
          /\ UNCHANGED <<queue, added, taken, holding, asleep>>

\* The loop inside wait: test again, take or sleep again.
RemoveWoken(t) ==
    /\ at[t] = "waiting"
    /\ t \notin asleep
    /\ Take(t) \/ Sleep(t)

SpuriousWakeup(t) ==
    /\ t \in asleep
    /\ asleep' = asleep \ {t}
    /\ UNCHANGED <<queue, added, taken, at, holding>>

\* The consumer is done with the item and comes back for the next.
Return(t) ==
    /\ at[t] = "working"
    /\ at' = [at EXCEPT ![t] = "calling"]
    /\ holding' = [holding EXCEPT ![t] = 0]
    /\ UNCHANGED <<queue, added, taken, asleep>>

Consume(t) == Remove(t) \/ RemoveWoken(t) \/ Return(t)

Next == Add \/ \E t \in Consumers : Consume(t) \/ SpuriousWakeup(t)

Spec == Init /\ [][Next]_vars

\* The threads loop forever and the mutex is held for a moment only; when
\* items are added, and whether a sleeper wakes by itself, is open.
FairSpec == Spec /\ \A t \in Consumers : WF_vars(Consume(t))

-----------------------------------------------------------------------------
(* Properties *)

\* Consumers that were woken and have not tested the list again.
Woken == {t \in Consumers : at[t] = "waiting"} \ asleep

\* The variables hold values of their types, and the sleepers are waiting.
TypeOK ==
    /\ queue \in Seq(Nat)
    /\ added \in Nat
    /\ taken \in Nat
    /\ at \in [Consumers -> {"calling", "waiting", "working"}]
    /\ holding \in [Consumers -> Nat]
    /\ asleep \subseteq {t \in Consumers : at[t] = "waiting"}

\* The list holds the items not yet taken, in the order they were added: none
\* is lost, doubled or overtaken.
Fifo ==
    /\ taken <= added
    /\ Len(queue) = added - taken
    /\ \A n \in 1..Len(queue) : queue[n] = taken + n

\* remove() returns only with an item: front() is never called on an empty
\* list, whatever woke the consumer and whoever was faster.
WorksOnItems ==
    \A t \in Consumers :
        IF at[t] = "working" THEN holding[t] \in 1..taken ELSE holding[t] = 0

\* No two consumers are given the same item.
HandedOnce ==
    \A t, u \in Consumers :
        holding[t] = holding[u] /\ holding[t] # 0 => t = u

\* No lost wakeup: while somebody sleeps, there is a woken consumer for every
\* item in the list.
WokenEnough == asleep # {} => Len(queue) <= Cardinality(Woken)

QueueInvariant ==
    /\ TypeOK
    /\ Fifo
    /\ WorksOnItems
    /\ HandedOnce
    /\ WokenEnough

\* With all its sleeping and waking, the queue is the one the server counts on:
\* remove() takes the first item as if in one step.
Queue == INSTANCE AtomicQueue WITH
    Threads <- Consumers, Items <- 1..MaxItems, NoItem <- 0,
    items <- queue, got <- holding
ImplementsQueue == Queue!Spec

\* Every item that is added is taken by somebody.
EveryItemTaken == \A n \in 1..MaxItems : added >= n ~> taken >= n
=============================================================================
