SPECIFICATION FairRRSpec
CONSTANTS
    t1 = t1
    t2 = t2
    t3 = t3
    t4 = t4
    Main = Main
    NULL = NULL
    Threads <- MCThreads
    MAX_THREADS = 3
    InitArgs <- AllButMlfq
    MayCreate <- MCFlows
    MayExit <- MCThreads
    MayJoin <- JoinChain
    Endless <- None
    MaxCalls = 3
INVARIANTS ContextIntegrity FifoOrder BypassBound
PROPERTIES ImplementsCoop Termination
