SPECIFICATION FairSpec
INVARIANTS LockInvariant
PROPERTIES ImplementsRWLock MutexIsGivenBack
CONSTANTS
    t1 = t1
    t2 = t2
    t3 = t3
    NoThread = NoThread
    Threads <- MCThreads
    InitialReaderCounts <- MCZeroed
