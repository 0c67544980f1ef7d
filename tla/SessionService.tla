--------------------------- MODULE SessionService ---------------------------
(***************************************************************************)
(* What the TecnicoFS server promises its clients about sessions: a client *)
(* that asks for a session gets one that nobody has, or is refused when    *)
(* none is left; it keeps it until it gives it back.                       *)
(***************************************************************************)
CONSTANTS
    Clients,    \* one for each call of tfs_mount
    Sessions,   \* session identifiers
    Nobody      \* the owner of a session that is free

VARIABLES
    owner,      \* who has each session
    asking,     \* clients whose mount is not decided
    leaving     \* clients that asked to unmount, or that are gone

vars == <<owner, asking, leaving>>

Init ==
    /\ owner = [s \in Sessions |-> Nobody]
    /\ asking = {}
    /\ leaving = {}

Ask(c) ==
    /\ c \notin asking
    /\ asking' = asking \cup {c}
    /\ UNCHANGED <<owner, leaving>>

Grant(c, s) ==
    /\ c \in asking
    /\ owner[s] = Nobody
    /\ asking' = asking \ {c}
    /\ owner' = [owner EXCEPT ![s] = c]
    /\ UNCHANGED leaving

Refuse(c) ==
    /\ c \in asking
    /\ \A s \in Sessions : owner[s] # Nobody
    /\ asking' = asking \ {c}
    /\ UNCHANGED <<owner, leaving>>

Leave(c) ==
    /\ leaving' = leaving \cup {c}
    /\ UNCHANGED <<owner, asking>>

Release(s) ==
    /\ owner[s] \in leaving
    /\ owner' = [owner EXCEPT ![s] = Nobody]
    /\ UNCHANGED <<asking, leaving>>

Decide(c) == Refuse(c) \/ \E s \in Sessions : Grant(c, s)

Next ==
    \/ \E c \in Clients : Ask(c) \/ Decide(c) \/ Leave(c)
    \/ \E s \in Sessions : Release(s)

Spec == Init /\ [][Next]_vars /\ \A c \in Clients : WF_vars(Decide(c))

=============================================================================
