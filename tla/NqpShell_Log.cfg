SPECIFICATION FairSpec
CONSTANTS
    MAX_CMDS = 3
    MAX_ARGS = 4
    PIPE_CAPACITY = 1
    Versions <- MCVersions
    Logging = {TRUE, FALSE}
    Sessions <- LogSessions
    PathOf <- MCPathOf
    Volume <- MCVolume
    HostDirs <- MCHostDirs
    MAX_LINES = 1
    MaxFailures = 0
    NONE = NONE
PROPERTIES OutputIsLogged
CHECK_DEADLOCK FALSE
