SPECIFICATION FairSpec
CONSTANTS
    w1 = w1
    w2 = w2
    c1 = c1
    c2 = c2
    j1 = j1
    j2 = j2
    j3 = j3
    NULL = NULL
    Workers <- TwoWorkers
    Clients <- TwoClients
    Jobs <- ThreeJobs
    MaxFailures = 1
INVARIANTS MutexMatchesCode SomebodyAwake NoneRunsAfterWait 
PROPERTIES ImplementsJobPool EachJobRuns WaitComesBack
