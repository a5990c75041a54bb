SPECIFICATION DemosSpec
CONSTANTS
    t1 = t1
    t2 = t2
    t3 = t3
    t4 = t4
    Threads = {t1, t2, t3, t4}
    Main = Main
    NULL = NULL
    MAX_THREADS = 4
    Libraries = {"Erebor", "Legacy"}
    MAX_PROGRESS = 2
    MAX_WORK_UNIT = 3
    THREADS = 3
    Id <- MCId
INVARIANTS OutputOrder
PROPERTIES Completes
