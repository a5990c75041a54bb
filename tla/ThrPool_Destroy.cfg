SPECIFICATION FairSpec
CONSTANTS
    w1 = w1
    w2 = w2
    c1 = c1
    c2 = c2
    j1 = j1
    j2 = j2
    j3 = j3
    NULL = NULL
    Workers <- MCWorkers
    Clients <- MCClients
    Jobs <- MCJobs
    Exiting <- MCExiting
    pool_minimum = 0
    pool_maximum = 1
    Linger = TRUE
    MayDestroyEarly = TRUE
    MaxFailures = 0
PROPERTIES DestroyComesBack
CHECK_DEADLOCK FALSE
