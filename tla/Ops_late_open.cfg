SPECIFICATION FairSpec
CONSTANTS
    Threads = {t1, t2, d1}
    Destroyers = {d1}
    NoThread = NoThread
    MAX_OPEN_FILES = 2
    SpuriousWakeups = FALSE
    RepeatedDestroys = FALSE
    LateOpens = TRUE
PROPERTIES DestroyReturns
CHECK_DEADLOCK FALSE
