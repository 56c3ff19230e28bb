--------------------------- MODULE PoolLock_proofs ---------------------------
(***************************************************************************)
(* For any finite set of threads, and a counter that starts at zero, the    *)
(* protocol of the two pools keeps readers and writers apart and implements *)
(* the abstract lock RWLock.                                                *)
(*                                                                          *)
(* Exclusion alone is not inductive: that no reader is inside when a writer *)
(* finds reader_count at zero needs CountsReaders, and that no second       *)
(* writer and no new reader comes in while one writes needs MutexOwner.     *)
(***************************************************************************)
EXTENDS PoolLock, FiniteSetTheorems, TLAPS

LEMMA ReadersFinite ==
    /\ IsFiniteSet(Readers)
    /\ Cardinality(Readers) \in Nat
    /\ Cardinality(Readers) = 0 <=> Readers = {}
<1>1. IsFiniteSet(Readers)
  BY ThreadsAssumption, FS_Subset DEF Readers
<1> QED
  BY <1>1, FS_CardinalityType, FS_EmptySet

\* The counter starts at zero: with no thread inside, it counts the readers.
LEMMA InitInvariant ==
    ASSUME InitialReaderCounts \subseteq {0}, Init
    PROVE  LockInvariant
<1>1. TypeOK
  BY DEF Init, TypeOK, PCs
<1>2. MutexOwner
  BY ThreadsAssumption DEF Init, MutexOwner, Owners
<1>3. Readers = {} /\ Writers = {}
  BY DEF Init, Readers, Writers
<1>4. CountsReaders
  BY <1>3, FS_EmptySet DEF CountsReaders, Init
<1>5. Exclusion
  BY <1>3 DEF Exclusion
<1> QED
  BY <1>1, <1>2, <1>4, <1>5 DEF LockInvariant

LEMMA TypeStep ==
    ASSUME TypeOK, [Next]_vars
    PROVE  TypeOK'
<1> USE DEF TypeOK, Goto, PCs
<1>1. CASE UNCHANGED vars
  BY <1>1 DEF vars
<1>2. ASSUME NEW t \in Threads, EnterReaderSection(t)
      PROVE  TypeOK'
  BY <1>2 DEF EnterReaderSection
<1>3. ASSUME NEW t \in Threads, LockWriterMutex(t)
      PROVE  TypeOK'
  BY <1>3 DEF LockWriterMutex
<1>4. ASSUME NEW t \in Threads, SpuriousWakeup(t)
      PROVE  TypeOK'
  BY <1>4 DEF SpuriousWakeup
<1>5. ASSUME NEW t \in Threads, Continue(t)
      PROVE  TypeOK'
  <2>1. CASE ExitReaderSection(t)
    BY <2>1 DEF ExitReaderSection
  <2>2. CASE ExitTestsCount(t)
    BY <2>2 DEF ExitTestsCount
  <2>3. CASE NotifyOne(t)
    BY <2>3 DEF NotifyOne
  <2>4. CASE TestPredicate(t)
    BY <2>4 DEF TestPredicate
  <2>5. CASE Block(t)
    BY <2>5 DEF Block
  <2>6. CASE Reacquire(t)
    BY <2>6 DEF Reacquire
  <2>7. CASE ReleaseWriterMutex(t)
    BY <2>7 DEF ReleaseWriterMutex
  <2> QED
    BY <1>5, <2>1, <2>2, <2>3, <2>4, <2>5, <2>6, <2>7 DEF Continue
<1> QED
  BY <1>1, <1>2, <1>3, <1>4, <1>5 DEF Next

LEMMA MutexStep ==
    ASSUME TypeOK, MutexOwner, [Next]_vars
    PROVE  MutexOwner'
<1> USE ThreadsAssumption DEF TypeOK, MutexOwner, Owners, Goto
<1>1. CASE UNCHANGED vars
  BY <1>1 DEF vars
<1>2. ASSUME NEW t \in Threads, EnterReaderSection(t)
      PROVE  MutexOwner'
  BY <1>2 DEF EnterReaderSection
<1>3. ASSUME NEW t \in Threads, LockWriterMutex(t)
      PROVE  MutexOwner'
  BY <1>3 DEF LockWriterMutex
<1>4. ASSUME NEW t \in Threads, SpuriousWakeup(t)
      PROVE  MutexOwner'
  BY <1>4 DEF SpuriousWakeup
<1>5. ASSUME NEW t \in Threads, Continue(t)
      PROVE  MutexOwner'
  <2>1. CASE ExitReaderSection(t)
    BY <2>1 DEF ExitReaderSection
  <2>2. CASE ExitTestsCount(t)
    BY <2>2 DEF ExitTestsCount
  <2>3. CASE NotifyOne(t)
    BY <2>3 DEF NotifyOne
  <2>4. CASE TestPredicate(t)
    BY <2>4 DEF TestPredicate
  <2>5. CASE Block(t)
    BY <2>5 DEF Block
  <2>6. CASE Reacquire(t)
    BY <2>6 DEF Reacquire
  <2>7. CASE ReleaseWriterMutex(t)
    BY <2>7 DEF ReleaseWriterMutex
  <2> QED
    BY <1>5, <2>1, <2>2, <2>3, <2>4, <2>5, <2>6, <2>7 DEF Continue
<1> QED
  BY <1>1, <1>2, <1>3, <1>4, <1>5 DEF Next

\* A step changes the set of readers only by a reader coming in or leaving.
LEMMA ReadersStep ==
    ASSUME TypeOK, [Next]_vars
    PROVE  \/ /\ Readers' = Readers
              /\ reader_count' = reader_count
           \/ \E t \in Threads \ Readers :
                 /\ Readers' = Readers \cup {t}
                 /\ reader_count' = reader_count + 1
                 /\ writer_mutex = NoThread
           \/ \E t \in Readers :
                 /\ Readers' = Readers \ {t}
                 /\ reader_count' = reader_count - 1
<1> USE DEF TypeOK, Readers, Goto
<1>1. CASE UNCHANGED vars
  BY <1>1 DEF vars
<1>2. ASSUME NEW t \in Threads, EnterReaderSection(t)
      PROVE  /\ t \in Threads \ Readers
             /\ Readers' = Readers \cup {t}
             /\ reader_count' = reader_count + 1
             /\ writer_mutex = NoThread
  BY <1>2 DEF EnterReaderSection
<1>3. ASSUME NEW t \in Threads, ExitReaderSection(t)
      PROVE  /\ t \in Readers
             /\ Readers' = Readers \ {t}
             /\ reader_count' = reader_count - 1
  BY <1>3 DEF ExitReaderSection
<1>4. ASSUME NEW t \in Threads,
             \/ LockWriterMutex(t) \/ SpuriousWakeup(t) \/ ExitTestsCount(t)
             \/ NotifyOne(t) \/ TestPredicate(t) \/ Block(t) \/ Reacquire(t)
             \/ ReleaseWriterMutex(t)
      PROVE  Readers' = Readers /\ reader_count' = reader_count
  BY <1>4 DEF LockWriterMutex, SpuriousWakeup, ExitTestsCount, NotifyOne,
              TestPredicate, Block, Reacquire, ReleaseWriterMutex
<1>5. CASE Next
  <2>1. PICK t \in Threads : \/ EnterReaderSection(t) \/ LockWriterMutex(t)
                             \/ SpuriousWakeup(t) \/ Continue(t)
    BY <1>5 DEF Next
  <2>2. CASE EnterReaderSection(t)
    BY <1>2, <2>2
  <2>3. CASE ExitReaderSection(t)
    BY <1>3, <2>3
  <2>4. CASE ~ EnterReaderSection(t) /\ ~ ExitReaderSection(t)
    BY <1>4, <2>1, <2>4 DEF Continue
  <2> QED
    BY <2>2, <2>3, <2>4
<1> QED
  BY <1>1, <1>5

LEMMA CountStep ==
    ASSUME TypeOK, CountsReaders, [Next]_vars
    PROVE  CountsReaders'
<1> USE DEF CountsReaders
<1>1. ASSUME NEW t \in Threads \ Readers, Readers' = Readers \cup {t}
      PROVE  Cardinality(Readers') = Cardinality(Readers) + 1
  BY <1>1, ReadersFinite, FS_AddElement
<1>2. ASSUME NEW t \in Readers, Readers' = Readers \ {t}
      PROVE  Cardinality(Readers') = Cardinality(Readers) - 1
  BY <1>2, ReadersFinite, FS_RemoveElement
<1> QED
  BY <1>1, <1>2, ReadersStep

\* A writer goes in with no reader inside, and shuts the door behind it.
LEMMA ExclusionStep ==
    ASSUME LockInvariant, [Next]_vars
    PROVE  Exclusion'
<1> USE DEF LockInvariant
<1>1. \A t, u \in Writers' : t = u
  BY MutexStep DEF MutexOwner, Owners, Writers
<1>2. ASSUME Writers' # {}
      PROVE  Readers' = {}
  <2>1. CASE Writers = {}
    <3>1. PICK t \in Threads : pc[t] # "writing" /\ pc'[t] = "writing"
      BY <1>2, <2>1 DEF Writers
    <3>2. TestPredicate(t) /\ reader_count = 0
      BY <3>1 DEF Next, vars, Continue, TypeOK, Goto, EnterReaderSection,
             ExitReaderSection, ExitTestsCount, NotifyOne, LockWriterMutex,
             TestPredicate, Block, SpuriousWakeup, Reacquire, ReleaseWriterMutex
    <3>3. Readers = {}
      BY <3>2, ReadersFinite DEF CountsReaders
    <3>4. Readers' = Readers
      BY <3>2 DEF TestPredicate, Goto, TypeOK, Readers
    <3> QED
      BY <3>3, <3>4
  <2>2. CASE Writers # {}
    <3>1. Readers = {} /\ writer_mutex # NoThread
      BY <2>2, ThreadsAssumption DEF Exclusion, MutexOwner, Owners, Writers
    <3> QED
      BY <3>1, ReadersStep
  <2> QED
    BY <2>1, <2>2
<1> QED
  BY <1>1, <1>2 DEF Exclusion

LEMMA NextInvariant ==
    ASSUME LockInvariant, [Next]_vars
    PROVE  LockInvariant'
BY TypeStep, MutexStep, CountStep, ExclusionStep DEF LockInvariant

\* The pools are never read and written at once, nor written by two threads:
\* for every number of threads, if the counter starts at zero.
THEOREM Safety ==
    ASSUME InitialReaderCounts \subseteq {0}
    PROVE  Spec => []LockInvariant
<1>1. Init => LockInvariant
  BY InitInvariant
<1>2. LockInvariant /\ [Next]_vars => LockInvariant'
  BY NextInvariant
<1> QED
  BY <1>1, <1>2, PTL DEF Spec

-----------------------------------------------------------------------------
(* The refinement *)

LEMMA TheWriterIs ==
    ASSUME Exclusion
    PROVE  /\ Writers = {} => TheWriter = NoThread
           /\ \A t \in Writers : TheWriter = t
BY DEF TheWriter, Exclusion

\* Every step of a thread is a step of the abstract lock or changes nothing
\* a reader or a writer of the pool could see.
LEMMA AbstractStep ==
    ASSUME LockInvariant, [Next]_vars
    PROVE  [Abstract!Next]_(Abstract!rwVars)
<1>0. LockInvariant' /\ TypeOK /\ MutexOwner /\ Exclusion /\ Exclusion'
  BY NextInvariant DEF LockInvariant
<1>1. ASSUME Readers' = Readers, Writers' = Writers
      PROVE  UNCHANGED Abstract!rwVars
  BY <1>1 DEF Abstract!rwVars, TheWriter
<1>2. CASE UNCHANGED vars
  BY <1>1, <1>2 DEF vars, Readers, Writers
<1>3. ASSUME NEW t \in Threads, EnterReaderSection(t)
      PROVE  Abstract!StartReading(t)
  <2>1. Readers' = Readers \cup {t} /\ Writers' = Writers
    BY <1>0, <1>3 DEF EnterReaderSection, Goto, TypeOK, Readers, Writers
  <2>2. Writers = {}
    BY <1>0, <1>3, ThreadsAssumption
    DEF EnterReaderSection, MutexOwner, Owners, Writers
  <2>3. TheWriter = NoThread /\ TheWriter' = TheWriter
    BY <1>0, <2>1, <2>2, TheWriterIs DEF TheWriter
  <2> QED
    BY <2>1, <2>3 DEF Abstract!StartReading
<1>4. ASSUME NEW t \in Threads, ExitReaderSection(t)
      PROVE  Abstract!StopReading(t)
  <2>1. t \in Readers /\ Readers' = Readers \ {t} /\ Writers' = Writers
    BY <1>0, <1>4 DEF ExitReaderSection, Goto, TypeOK, Readers, Writers
  <2> QED
    BY <2>1 DEF Abstract!StopReading, TheWriter
<1>5. ASSUME NEW t \in Threads, TestPredicate(t), reader_count = 0
      PROVE  Abstract!StartWriting(t)
  <2>1. Readers = {} /\ Readers' = {}
    BY <1>0, <1>5, ReadersFinite
    DEF LockInvariant, CountsReaders, TestPredicate, Goto, TypeOK, Readers
  <2>2. t \in Writers' /\ Writers = {}
    BY <1>0, <1>5
    DEF TestPredicate, Goto, TypeOK, Writers, MutexOwner, Owners
  <2>3. TheWriter = NoThread
    BY <1>0, <2>2, TheWriterIs
  <2>4. TheWriter' = t
    BY <1>0, <2>2 DEF TheWriter, Exclusion
  <2> QED
    BY <2>1, <2>3, <2>4 DEF Abstract!StartWriting
<1>6. ASSUME NEW t \in Threads, ReleaseWriterMutex(t)
      PROVE  Abstract!StopWriting(t)
  <2>1. t \in Writers /\ Writers' = {} /\ Readers' = Readers
    BY <1>0, <1>6
    DEF ReleaseWriterMutex, Goto, TypeOK, Readers, Writers, Exclusion
  <2>2. TheWriter = t /\ TheWriter' = NoThread
    BY <1>0, <2>1, TheWriterIs DEF TheWriter
  <2> QED
    BY <2>1, <2>2 DEF Abstract!StopWriting
<1>7. ASSUME NEW t \in Threads,
             \/ LockWriterMutex(t) \/ SpuriousWakeup(t) \/ ExitTestsCount(t)
             \/ NotifyOne(t) \/ (TestPredicate(t) /\ reader_count # 0)
             \/ Block(t) \/ Reacquire(t)
      PROVE  Readers' = Readers /\ Writers' = Writers
  BY <1>0, <1>7 DEF LockWriterMutex, SpuriousWakeup, ExitTestsCount, NotifyOne,
     TestPredicate, Block, Reacquire, Goto, TypeOK, Readers, Writers
<1>8. CASE Next
  <2>1. PICK t \in Threads : \/ EnterReaderSection(t) \/ LockWriterMutex(t)
                             \/ SpuriousWakeup(t) \/ Continue(t)
    BY <1>8 DEF Next
  <2>2. CASE \/ EnterReaderSection(t) \/ ExitReaderSection(t)
             \/ (TestPredicate(t) /\ reader_count = 0) \/ ReleaseWriterMutex(t)
    BY <1>3, <1>4, <1>5, <1>6, <2>2 DEF Abstract!Next
  <2>3. CASE ~ (\/ EnterReaderSection(t) \/ ExitReaderSection(t)
                \/ (TestPredicate(t) /\ reader_count = 0)
                \/ ReleaseWriterMutex(t))
    BY <1>1, <1>7, <2>1, <2>3 DEF Continue
  <2> QED
    BY <2>2, <2>3
<1> QED
  BY <1>2, <1>8

\* The protocol implements the readers-writers lock that the methods of
\* client_pool and game_pool take it for.
THEOREM Implementation ==
    ASSUME InitialReaderCounts \subseteq {0}
    PROVE  Spec => ImplementsRWLock
<1>1. Init => Abstract!Init
  BY DEF Init, Abstract!Init, Readers, Writers, TheWriter
<1>2. LockInvariant /\ [Next]_vars => [Abstract!Next]_(Abstract!rwVars)
  BY AbstractStep
<1> QED
  BY <1>1, <1>2, Safety, PTL DEF Spec, ImplementsRWLock, Abstract!Spec

\* A writer has the pool to itself, and readers share it with readers only.
THEOREM ExclusiveSections ==
    ASSUME InitialReaderCounts \subseteq {0}
    PROVE  Spec => []Exclusion
<1>1. LockInvariant => Exclusion
  BY DEF LockInvariant
<1> QED
  BY <1>1, Safety, PTL
=============================================================================
