--------------------------- MODULE DestroyBarrier ---------------------------
(***************************************************************************)
(* What tfs_destroy_after_all_closed promises its callers, without locks,  *)
(* counters or condition variables: once a destruction is requested no     *)
(* file can be opened any more, the files that are open can still be       *)
(* closed, the file system goes down only when the last of them is closed, *)
(* and then it does go down.                                               *)
(***************************************************************************)
CONSTANT Handles          \* file handles

VARIABLES open,           \* handles of the files that are open
          phase           \* "running", "draining" or "destroyed"

vars == <<open, phase>>

Init == open = {} /\ phase = "running"

Open(h) ==
    /\ phase = "running"
    /\ h \notin open
    /\ open' = open \cup {h}
    /\ UNCHANGED phase

Close(h) ==
    /\ h \in open
    /\ open' = open \ {h}
    /\ UNCHANGED phase

\* A request that finds no open file destroys at once.
Request ==
    /\ phase = "running"
    /\ phase' = IF open = {} THEN "destroyed" ELSE "draining"
    /\ UNCHANGED open

Destroy ==
    /\ phase = "draining"
    /\ open = {}
    /\ phase' = "destroyed"
    /\ UNCHANGED open

\* A later tfs_init makes the file system usable again.
Restart ==
    /\ phase = "destroyed"
    /\ phase' = "running"
    /\ open' = {}

Next ==
    \/ \E h \in Handles : Open(h) \/ Close(h)
    \/ Request
    \/ Destroy
    \/ Restart

Spec == Init /\ [][Next]_vars /\ WF_vars(Destroy)

=============================================================================
