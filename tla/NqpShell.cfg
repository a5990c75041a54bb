SPECIFICATION FairSpec
CONSTANTS
    MAX_CMDS = 3
    MAX_ARGS = 4
    PIPE_CAPACITY = 1
    Versions <- MCVersions
    Logging = {TRUE, FALSE}
    Sessions <- MCSessions
    PathOf <- MCPathOf
    Volume <- MCVolume
    HostDirs <- MCHostDirs
    MAX_LINES = 2
    MaxFailures = 1
    NONE = NONE
INVARIANTS OnlyNeighboursHold NothingLeft CwdIsValid
PROPERTIES PromptReturns LeftoversEnd
