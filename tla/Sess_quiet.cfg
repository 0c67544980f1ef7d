SPECIFICATION FairSpec
CONSTANTS
    Clients = {c1, c2, c3}
    S = 2
    Free = Free
    Reserved = Reserved
    NoClient = NoClient
    SettledStart = TRUE
    QuietHandover = TRUE
    Deaths = FALSE
PROPERTIES CallsReturn SessionsReturn ImplementsService
CHECK_DEADLOCK FALSE
