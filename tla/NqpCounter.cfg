SPECIFICATION FairSpec
CONSTANTS
    t1 = t1
    t2 = t2
    t3 = t3
    Threads <- MCThreads
    Increments = 3
INVARIANTS NoLostUpdate LockAlive
PROPERTIES Termination
