SPECIFICATION FairSpec
CONSTANTS
    Threads = {t1, d1, d2}
    Destroyers = {d1, d2}
    NoThread = NoThread
    MAX_OPEN_FILES = 2
    SpuriousWakeups = FALSE
    RepeatedDestroys = FALSE
    LateOpens = FALSE
INVARIANTS TypeOK NoLostWakeup
PROPERTIES DestroyOnlyWhenAllClosed CallsReturn DestroyReturns ImplementsBarrier
