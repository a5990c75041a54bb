SPECIFICATION Spec
CONSTANTS
    Programs <- MCPrograms
    Transfers <- MCTransfers
    Opening = 3
    Sizes <- MCSizes
    NUM_THREADS = 3
    SIZE = 3
    Increments = 2
    MAX_SPURIOUS = 2
INVARIANTS ResultIsRight NoneTakenTwice
PROPERTIES ProgramsEnd
CHECK_DEADLOCK FALSE
