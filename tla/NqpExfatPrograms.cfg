SPECIFICATION ProgramsSpec
CONSTANTS
    MAX_OPEN_FILES = 3
    CLUSTER_SIZE = 2
    Fat <- MCFat
    EOC = 999
    LongestChain = 3
    Root = 2
    Directory <- MCDirectory
    END = END
    Paths <- MCPaths
    Files <- MCFiles
    Dirs <- MCDirs
    Counts <- MCCounts
    Jobs <- MCJobs
    CHUNK = 2
    Newlines <- MCNewlines
    NL = NL
INVARIANTS ReadsInOrder OffsetIsWhatWasRead ListingInOrder ProgramsPrint
PROPERTIES ProgramsEnd
