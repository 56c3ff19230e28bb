------------------------------ MODULE PoolLock ------------------------------
(***************************************************************************)
(* The readers-writers protocol of client_pool and game_pool, whose text is *)
(* the same in both classes (inc/clientpool.h and inc/gamepool.h):          *)
(*                                                                          *)
(*   reader:  { lock writer_mutex; reader_count += 1; }  read the pool      *)
(*            reader_count -= 1;                                            *)
(*            if (reader_count == 0) writer_condv.notify_one();             *)
(*   writer:  lock writer_mutex;                                            *)
(*            writer_condv.wait(lock, [] { return reader_count == 0; });    *)
(*            change the pool; unlock                                       *)
(*                                                                          *)
(* A reader leaves without taking the mutex, so its decrement, its test and *)
(* its notification each interleave with a writer that is between testing   *)
(* the predicate and going to sleep.  Neither constructor gives             *)
(* reader_count a value: its first value is a constant of the model.        *)
(***************************************************************************)
EXTENDS Integers, FiniteSets

CONSTANTS Threads,              \* the server's threads that use the pool
          NoThread,             \* owner of an unlocked mutex
          InitialReaderCounts   \* what the uninitialized counter may hold

ASSUME ThreadsAssumption ==
    /\ IsFiniteSet(Threads)
    /\ NoThread \notin Threads

ASSUME CountsAssumption == InitialReaderCounts \subseteq Int

VARIABLES pc,            \* where each thread is in the protocol
          writer_mutex,  \* the thread that owns the mutex, or NoThread
          reader_count,  \* the atomic counter
          asleep         \* threads blocked in writer_condv.wait

vars == <<pc, writer_mutex, reader_count, asleep>>

PCs == {"idle", "reading", "leaving", "notifying",
        "testing", "blocking", "waiting", "writing"}

Init ==
    /\ pc = [t \in Threads |-> "idle"]
    /\ writer_mutex = NoThread
    /\ reader_count \in InitialReaderCounts
    /\ asleep = {}

Goto(t, from, to) ==
    /\ pc[t] = from
    /\ pc' = [pc EXCEPT ![t] = to]

-----------------------------------------------------------------------------
(* Readers *)

\* A mutant: the increment without the mutex.
EnterUnlocked(t) ==
    /\ Goto(t, "idle", "reading")
    /\ reader_count' = reader_count + 1
    /\ UNCHANGED <<writer_mutex, asleep>>

\* The mutex is held only across the increment, so the three steps are one.
EnterReaderSection(t) ==
    /\ Goto(t, "idle", "reading")
    /\ writer_mutex = NoThread
    /\ reader_count' = reader_count + 1
    /\ UNCHANGED <<writer_mutex, asleep>>

ExitReaderSection(t) ==
    /\ Goto(t, "reading", "leaving")
    /\ reader_count' = reader_count - 1
    /\ UNCHANGED <<writer_mutex, asleep>>

\* The counter is read again after the decrement.
ExitTestsCount(t) ==
    /\ Goto(t, "leaving", IF reader_count = 0 THEN "notifying" ELSE "idle")
    /\ UNCHANGED <<writer_mutex, reader_count, asleep>>

\* A notification that finds nobody asleep is lost.
NotifyOne(t) ==
    /\ Goto(t, "notifying", "idle")
    /\ IF asleep = {} THEN UNCHANGED asleep
                      ELSE \E w \in asleep : asleep' = asleep \ {w}
    /\ UNCHANGED <<writer_mutex, reader_count>>

-----------------------------------------------------------------------------
(* Writers *)

LockWriterMutex(t) ==
    /\ Goto(t, "idle", "testing")
    /\ writer_mutex = NoThread
    /\ writer_mutex' = t
    /\ UNCHANGED <<reader_count, asleep>>

TestPredicate(t) ==
    /\ Goto(t, "testing", IF reader_count = 0 THEN "writing" ELSE "blocking")
    /\ UNCHANGED <<writer_mutex, reader_count, asleep>>

\* A mutant: sleeping with the mutex locked.
BlockHolding(t) ==
    /\ Goto(t, "blocking", "waiting")
    /\ asleep' = asleep \cup {t}
    /\ UNCHANGED <<writer_mutex, reader_count>>

\* condition_variable::wait gives the mutex back and sleeps in one step.
Block(t) ==
    /\ Goto(t, "blocking", "waiting")
    /\ writer_mutex' = NoThread
    /\ asleep' = asleep \cup {t}
    /\ UNCHANGED reader_count

\* The standard lets a wait return although nobody notified it.
SpuriousWakeup(t) ==
    /\ t \in asleep
    /\ asleep' = asleep \ {t}
    /\ UNCHANGED <<pc, writer_mutex, reader_count>>

\* A mutant: a wait without its predicate, which trusts every wakeup.
ReacquireTrusting(t) ==
    /\ Goto(t, "waiting", "writing")
    /\ t \notin asleep
    /\ writer_mutex = NoThread
    /\ writer_mutex' = t
    /\ UNCHANGED <<reader_count, asleep>>

\* A writer that was woken owns the mutex again before it tests.
Reacquire(t) ==
    /\ Goto(t, "waiting", "testing")
    /\ t \notin asleep
    /\ writer_mutex = NoThread
    /\ writer_mutex' = t
    /\ UNCHANGED <<reader_count, asleep>>

\* The unique_lock goes out of scope.
ReleaseWriterMutex(t) ==
    /\ Goto(t, "writing", "idle")
    /\ writer_mutex' = NoThread
    /\ UNCHANGED <<reader_count, asleep>>

-----------------------------------------------------------------------------
\* The steps of a thread that has entered the protocol.
Continue(t) ==
    \/ ExitReaderSection(t) \/ ExitTestsCount(t) \/ NotifyOne(t)
    \/ TestPredicate(t) \/ Block(t) \/ Reacquire(t) \/ ReleaseWriterMutex(t)

Next ==
    \E t \in Threads : \/ EnterReaderSection(t) \/ LockWriterMutex(t)
                       \/ SpuriousWakeup(t) \/ Continue(t)

Spec == Init /\ [][Next]_vars

\* A thread that has entered runs on; whether a thread ever enters, and
\* whether a sleeper is woken for no reason, is nobody's promise.
FairSpec == Spec /\ \A t \in Threads : WF_vars(Continue(t))

-----------------------------------------------------------------------------
(* Properties *)

Readers == {t \in Threads : pc[t] = "reading"}
Writers == {t \in Threads : pc[t] = "writing"}

\* The variables hold values of their types.
TypeOK ==
    /\ pc \in [Threads -> PCs]
    /\ writer_mutex \in Threads \cup {NoThread}
    /\ reader_count \in Int
    /\ asleep \subseteq Threads

\* The mutex is owned by the thread that is between its lock and its unlock.
Owners == {"testing", "blocking", "writing"}
MutexOwner ==
    /\ \A t \in Threads : pc[t] \in Owners <=> writer_mutex = t
    /\ \A t \in asleep : pc[t] = "waiting"

\* The counter counts the threads inside a reader section.
CountsReaders == reader_count = Cardinality(Readers)

\* A pool is never changed while somebody reads it, and never by two threads
\* at once: what every method of client_pool and game_pool relies on.
Exclusion ==
    /\ Writers # {} => Readers = {}
    /\ \A t, u \in Writers : t = u

\* Readers and writers exclude each other, because the mutex has the one owner it
\* says and reader_count counts the readers, which are the decrements that are
\* still to come.
LockInvariant ==
    /\ TypeOK
    /\ MutexOwner
    /\ CountsReaders
    /\ Exclusion

\* The protocol implements a readers-writers lock: to a thread inside a
\* section of a pool, a reader is one between its two counts and the writer
\* the thread whose wait has returned.
TheWriter == IF Writers = {} THEN NoThread ELSE CHOOSE t \in Writers : TRUE
Abstract == INSTANCE RWLock WITH readers <- Readers, writer <- TheWriter
ImplementsRWLock == Abstract!Spec

\* No thread keeps the mutex: a writer that finds readers inside gives it up
\* by sleeping, so readers and other writers are never shut out for good.
MutexIsGivenBack == \A t \in Threads : writer_mutex = t ~> writer_mutex # t

\* "Decrease readerCount to allow writer threads to run, notify a possibly
\* waiting writer thread to stop waiting" (inc/clientpool.h:55): once the
\* readers are gone and every thread has left the protocol or sleeps in it,
\* no writer is left asleep.
NoStrandedWriter ==
    (\A t \in Threads : pc[t] = "idle" \/ t \in asleep) /\ reader_count = 0
        => asleep = {}
=============================================================================
