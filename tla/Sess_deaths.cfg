SPECIFICATION Spec
CONSTANTS
    Clients = {c1, c2, c3}
    S = 2
    Free = Free
    Reserved = Reserved
    NoClient = NoClient
    SettledStart = TRUE
    QuietHandover = TRUE
    Deaths = TRUE
INVARIANTS TypeOK SessionExclusive RepliesMatch
PROPERTIES NoRequestOverwritten ServiceSafety
CHECK_DEADLOCK FALSE
