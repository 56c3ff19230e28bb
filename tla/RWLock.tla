------------------------------- MODULE RWLock -------------------------------
(***************************************************************************)
(* What the reader and writer sections of the server's two pools promise    *)
(* to the code that runs inside them: any number of readers at a time, or   *)
(* one writer alone.  client_pool and game_pool declare the same three      *)
(* members for it, reader_count, writer_mutex and writer_condv; PoolLock    *)
(* models how they are used and is shown to implement this specification.   *)
(***************************************************************************)
CONSTANTS Threads,   \* the server's threads that use the pool
          NoThread   \* "nobody"

VARIABLES readers,   \* the threads inside a reader section
          writer     \* the thread inside a writer section, or NoThread

rwVars == <<readers, writer>>

Init ==
    /\ readers = {}
    /\ writer = NoThread

StartReading(t) ==
    /\ writer = NoThread
    /\ readers' = readers \cup {t}
    /\ UNCHANGED writer

StopReading(t) ==
    /\ t \in readers
    /\ readers' = readers \ {t}
    /\ UNCHANGED writer

StartWriting(t) ==
    /\ readers = {}
    /\ writer = NoThread
    /\ writer' = t
    /\ UNCHANGED readers

StopWriting(t) ==
    /\ writer = t
    /\ writer' = NoThread
    /\ UNCHANGED readers

Next ==
    \E t \in Threads : \/ StartReading(t) \/ StopReading(t)
                       \/ StartWriting(t) \/ StopWriting(t)

Spec == Init /\ [][Next]_rwVars
=============================================================================
