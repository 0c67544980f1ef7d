SPECIFICATION FairSpec
CONSTANTS
    Clients = {c1, c2}
    S = 2
    Free = Free
    Reserved = Reserved
    NoClient = NoClient
    SettledStart = TRUE
    QuietHandover = TRUE
    Deaths = FALSE
    MAX_OPEN_FILES = 1
    Orderly = TRUE
INVARIANTS ExitsInOrder
PROPERTIES ShutdownHappens OthersServed ImplementsSessions
CHECK_DEADLOCK FALSE
