----------------------------- MODULE AtomicQueue -----------------------------
(***************************************************************************)
(* What ts_queue promises to the producers and the consumers, and what the  *)
(* model of the server takes its two queues for: an item goes to the end,   *)
(* a thread that comes for one is given the first, in one step each, and    *)
(* waits while there is none.  How it waits, and what wakes it, is left to  *)
(* TsQueue.                                                                 *)
(***************************************************************************)
EXTENDS Sequences

CONSTANTS Threads,   \* the threads that come for items
          Items,     \* what may be put into the queue
          NoItem     \* "nothing"

VARIABLES items,     \* the queue
          got        \* the item each thread works on, or NoItem

queueVars == <<items, got>>

Init ==
    /\ items = << >>
    /\ got = [t \in Threads |-> NoItem]

Put(i) ==
    /\ items' = Append(items, i)
    /\ UNCHANGED got

Get(t) ==
    /\ got[t] = NoItem
    /\ items # << >>
    /\ got' = [got EXCEPT ![t] = Head(items)]
    /\ items' = Tail(items)

Finish(t) ==
    /\ got[t] # NoItem
    /\ got' = [got EXCEPT ![t] = NoItem]
    /\ UNCHANGED items

Next == \/ \E i \in Items : Put(i)
        \/ \E t \in Threads : Get(t) \/ Finish(t)

Spec == Init /\ [][Next]_queueVars
=============================================================================
