SPECIFICATION FairSpec
CONSTANTS
    t1 = t1
    t2 = t2
    t3 = t3
    t4 = t4
    Main = Main
    NULL = NULL
    Threads <- MCThreads
    MAX_THREADS = 4
    InitArgs <- OnlyRR
PROPERTIES LockAcquired
