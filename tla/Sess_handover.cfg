SPECIFICATION Spec
CONSTANTS
    Clients = {c1, c2, c3}
    S = 2
    Free = Free
    Reserved = Reserved
    NoClient = NoClient
    SettledStart = TRUE
    QuietHandover = FALSE
    Deaths = FALSE
INVARIANTS SessionExclusive
CHECK_DEADLOCK FALSE
