SPECIFICATION Spec
CONSTANTS
    Threads = {t1, d1, d2}
    Destroyers = {d1, d2}
    NoThread = NoThread
    MAX_OPEN_FILES = 2
    SpuriousWakeups = TRUE
    RepeatedDestroys = TRUE
    LateOpens = TRUE
INVARIANTS CountMatches
CHECK_DEADLOCK FALSE
