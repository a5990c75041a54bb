SPECIFICATION FairSpec
CONSTANTS
    w1 = w1
    w2 = w2
    c1 = c1
    c2 = c2
    j1 = j1
    j2 = j2
    j3 = j3
    NULL = NULL
    Workers <- MCWorkers
    Clients <- MCClients
    Jobs <- MCJobs
    Exiting <- MCExiting
    pool_minimum = 1
    pool_maximum = 2
    Linger = TRUE
    MayDestroyEarly = FALSE
    MaxFailures = 1
INVARIANTS CountsExact
PROPERTIES WaitIsComplete MinimumKept ImplementsJobPool EachJobRuns WaitComesBack
