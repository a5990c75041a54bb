SPECIFICATION MlfqSpec
CONSTANTS
    t1 = t1
    t2 = t2
    t3 = t3
    Main = Main
    NULL = NULL
    Threads <- MCThreads
    MAX_THREADS = 3
    InitArgs <- Mlfq
    MayCreate <- MCFlows
    MayExit <- MCThreads
    MayJoin <- Joins
    Endless <- MCThreads
    MaxCalls = 2
    TIME_SLICE = 2
    BOOST_INTERVAL = 5
    SliceLengths <- Lengths
    ClockSettings <- Settings
    MaxSettings = 1
    MaxStarts = 2
INVARIANTS EachInOneQueue ChargesWhoRan ReturnsWhenDone
PROPERTIES NoStarvation
