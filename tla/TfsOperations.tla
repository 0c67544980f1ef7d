---------------------------- MODULE TfsOperations ----------------------------
(***************************************************************************)
(* Parte2/tecnicofs_ex2/fs/operations.c, its synchronisation: every tfs_*  *)
(* call runs under single_global_lock, and tfs_destroy_after_all_closed    *)
(* sleeps on condVar until the last open file is closed.  openFiles counts *)
(* the open files and, by its sign, says whether a destruction is pending. *)
(*                                                                         *)
(* A call is two steps: the thread calls (and is then blocked in           *)
(* pthread_mutex_lock), and later it gets the lock, runs the body and      *)
(* unlocks in one step, for nothing else touches this state without the    *)
(* lock.  Only the condition wait cuts the critical section in two.  Of    *)
(* the file system itself only the set of open handles matters here:       *)
(* TfsState models the rest.                                               *)
(***************************************************************************)
EXTENDS Integers, FiniteSets

CONSTANTS
    Threads,          \* threads of the process that use the library
    Destroyers,       \* those that may call tfs_destroy_after_all_closed
    NoThread,         \* owner of a mutex that is free
    MAX_OPEN_FILES,   \* size of the open file table
    SpuriousWakeups,  \* may pthread_cond_wait return with no signal?
    RepeatedDestroys, \* may a destruction be requested while one is, or once
                      \* it is done?
    LateOpens         \* may tfs_open be called once a destruction is requested?

ASSUME OperationsAssumption ==
    /\ MAX_OPEN_FILES \in Nat
    /\ NoThread \notin Threads
    /\ Destroyers \subseteq Threads
    /\ SpuriousWakeups \in BOOLEAN
    /\ RepeatedDestroys \in BOOLEAN
    /\ LateOpens \in BOOLEAN

VARIABLES
    single_global_lock, \* the thread that owns the mutex, or NoThread
    openFiles,          \* the signed counter
    taken,              \* handles whose open file table entry is TAKEN
    pc,                 \* what each thread is doing, see Stages
    fh                  \* the handle each thread passes to tfs_close

vars == <<single_global_lock, openFiles, taken, pc, fh>>

Handles == 0 .. MAX_OPEN_FILES - 1

\* "idle": outside the library; a tfs_ name: blocked in pthread_mutex_lock of
\* that call; "cond_wait": asleep in pthread_cond_wait; "signalled": woken
\* there, has to get the mutex back.
Stages == {"idle", "tfs_open", "tfs_close", "tfs_access", "tfs_destroy",
           "cond_wait", "signalled"}

Init ==
    /\ single_global_lock = NoThread
    /\ openFiles = 0
    /\ taken = {}
    /\ pc = [t \in Threads |-> "idle"]
    /\ fh = [t \in Threads |-> 0]

-----------------------------------------------------------------------------
(* The application calls the library. *)

Waiters == {t \in Threads : pc[t] = "cond_wait"}

Destroying == {t \in Threads : pc[t] \in {"tfs_destroy", "cond_wait", "signalled"}}

DestroyRequested == openFiles < 0 \/ Destroying # {}

Call(t, op) ==
    /\ pc[t] = "idle"
    /\ pc' = [pc EXCEPT ![t] = op]
    /\ UNCHANGED <<single_global_lock, openFiles, taken>>

CallOpen(t) ==
    /\ LateOpens \/ ~DestroyRequested
    /\ Call(t, "tfs_open")
    /\ UNCHANGED fh

\* Any handle may be passed, also one that is not open: the call then fails.
CallClose(t, h) ==
    /\ Call(t, "tfs_close")
    /\ fh' = [fh EXCEPT ![t] = h]

CallAccess(t) ==
    /\ Call(t, "tfs_access")
    /\ UNCHANGED fh

CallDestroy(t) ==
    /\ RepeatedDestroys \/ ~DestroyRequested
    /\ LateOpens \/ \A u \in Threads : pc[u] # "tfs_open"
    /\ Call(t, "tfs_destroy")
    /\ UNCHANGED fh

-----------------------------------------------------------------------------
(* The calls, once the thread gets the mutex. *)

Locks(t, stage) ==
    /\ pc[t] = stage
    /\ single_global_lock = NoThread

Returns(t) == pc' = [pc EXCEPT ![t] = "idle"]

\* The body of tfs_open failed: no such file, no free inode, directory entry
\* or open file table entry.
OpenFails(t) ==
    /\ openFiles >= 0
    /\ UNCHANGED <<single_global_lock, openFiles, taken>>

\* Mutant: the search of the open file table goes one entry too far.
FreeHandlesOffByOne == (0 .. MAX_OPEN_FILES) \ taken

FreeHandles == (0 .. MAX_OPEN_FILES - 1) \ taken

\* The first free entry of the open file table is taken.
OpenSucceeds(t) ==
    /\ openFiles >= 0
    /\ \E h \in FreeHandles :
         /\ 0 .. h - 1 \subseteq taken
         /\ taken' = taken \cup {h}
    /\ openFiles' = openFiles + 1
    /\ UNCHANGED single_global_lock

\* The early return of tfs_open leaves the mutex locked.
OpenRefused(t) ==
    /\ openFiles < 0
    /\ single_global_lock' = t
    /\ UNCHANGED <<openFiles, taken>>

tfs_open(t) ==
    /\ Locks(t, "tfs_open")
    /\ OpenFails(t) \/ OpenSucceeds(t) \/ OpenRefused(t)
    /\ Returns(t)
    /\ UNCHANGED fh

CloseFails(t) ==
    /\ fh[t] \notin taken
    /\ Returns(t)
    /\ UNCHANGED <<openFiles, taken>>

\* Mutant: the sign is forgotten.
AfterCloseUnsigned(n) == n - 1

\* One file less, whether or not a destruction is pending.
AfterClose(n) == IF n > 0 THEN n - 1 ELSE n + 1

\* pthread_cond_signal wakes one waiter, if there is one.
SignalsIf(t, condition) ==
    IF condition /\ Waiters # {}
    THEN \E w \in Waiters : pc' = [pc EXCEPT ![t] = "idle", ![w] = "signalled"]
    ELSE Returns(t)

ForgetsHandle(t) ==
    /\ fh[t] \in taken
    /\ taken' = taken \ {fh[t]}
    /\ openFiles' = AfterClose(openFiles)

\* Mutants: no signal, a signal when the counter is 0, a signal at every close.
CloseSilently(t) == ForgetsHandle(t) /\ Returns(t)
CloseSignalsAtZero(t) == ForgetsHandle(t) /\ SignalsIf(t, openFiles' = 0)
CloseSignalsAlways(t) == ForgetsHandle(t) /\ SignalsIf(t, TRUE)

CloseSucceeds(t) == ForgetsHandle(t) /\ SignalsIf(t, openFiles' = -1)

tfs_close(t) ==
    /\ Locks(t, "tfs_close")
    /\ CloseFails(t) \/ CloseSucceeds(t)
    /\ UNCHANGED <<single_global_lock, fh>>

\* Mutant: an error path returns with the mutex locked.
tfs_access_leaks(t) ==
    /\ Locks(t, "tfs_access")
    /\ Returns(t)
    /\ single_global_lock' \in {t, NoThread}
    /\ UNCHANGED <<openFiles, taken, fh>>

\* tfs_lookup, tfs_read and tfs_write lock, leave this state alone, unlock.
tfs_access(t) ==
    /\ Locks(t, "tfs_access")
    /\ Returns(t)
    /\ UNCHANGED <<single_global_lock, openFiles, taken, fh>>

\* Mutant: the destruction keeps the mutex while it waits.
DestroyKeepsMutex(t) ==
    /\ Locks(t, "tfs_destroy")
    /\ openFiles' = -(openFiles + 1)
    /\ pc' = [pc EXCEPT ![t] = IF openFiles' # -1 THEN "cond_wait" ELSE "idle"]
    /\ single_global_lock' = IF openFiles' # -1 THEN t ELSE NoThread
    /\ UNCHANGED <<taken, fh>>

\* From the call to the condition wait, which releases the mutex, or to the
\* return if there is nothing to wait for.
tfs_destroy_after_all_closed(t) ==
    /\ Locks(t, "tfs_destroy")
    /\ openFiles' = -(openFiles + 1)
    /\ pc' = [pc EXCEPT ![t] = IF openFiles' # -1 THEN "cond_wait" ELSE "idle"]
    /\ UNCHANGED <<single_global_lock, taken, fh>>

\* The rest of the call: the condition is not looked at again.
DestroyResumes(t) ==
    /\ Locks(t, "signalled")
    /\ Returns(t)
    /\ UNCHANGED <<single_global_lock, openFiles, taken, fh>>

\* POSIX allows pthread_cond_wait to return although nobody signalled.
SpuriousWakeup(t) ==
    /\ SpuriousWakeups
    /\ pc[t] = "cond_wait"
    /\ pc' = [pc EXCEPT ![t] = "signalled"]
    /\ UNCHANGED <<single_global_lock, openFiles, taken, fh>>

\* The application starts a destroyed file system again.
tfs_init ==
    /\ openFiles < 0
    /\ single_global_lock = NoThread
    /\ \A t \in Threads : pc[t] = "idle"
    /\ openFiles' = 0
    /\ taken' = {}
    /\ UNCHANGED <<single_global_lock, pc, fh>>

-----------------------------------------------------------------------------
Calls(t) ==
    \/ CallOpen(t)
    \/ \E h \in Handles : CallClose(t, h)
    \/ CallAccess(t)
    \/ t \in Destroyers /\ CallDestroy(t)

Steps(t) ==
    \/ tfs_open(t)
    \/ tfs_close(t)
    \/ tfs_access(t)
    \/ tfs_destroy_after_all_closed(t)
    \/ DestroyResumes(t)

Next ==
    \/ \E t \in Threads : Calls(t) \/ Steps(t) \/ SpuriousWakeup(t)
    \/ tfs_init

Spec == Init /\ [][Next]_vars

\* Every thread that can go on goes on; and, the premise of the whole
\* operation, the application closes the files it opened.
Fairness ==
    /\ \A t \in Threads : WF_vars(Steps(t))
    /\ \A h \in Handles :
         SF_vars(\E t \in Threads : h \in taken /\ CallClose(t, h))

FairSpec == Spec /\ Fairness

-----------------------------------------------------------------------------
TypeOK ==
    /\ single_global_lock \in Threads \cup {NoThread}
    /\ openFiles \in Int
    /\ taken \in SUBSET Handles
    /\ pc \in [Threads -> Stages]
    /\ fh \in [Threads -> Int]
    /\ \A t \in Threads \ Destroyers :
         pc[t] \notin {"tfs_destroy", "cond_wait", "signalled"}

\* The counter tells the number of open files whatever its sign: n open files
\* are n, or -(n + 1) once a destruction is pending (operations.c:41-43 and
\* 145), after any sequence of opens, closes, failed closes and destroys.
CountMatches ==
    Cardinality(taken) = IF openFiles >= 0 THEN openFiles ELSE -openFiles - 1

\* Nobody sleeps on condVar with nothing left to wait for: as long as a thread
\* sleeps, a file is open whose tfs_close will signal (operations.c:43-45
\* and 146-148).
NoLostWakeup == Waiters # {} => openFiles < -1 /\ taken # {}

\* tfs_destroy_after_all_closed never goes on to destroy, and never returns,
\* while a file is open (operations.c:38-50).
DestroyOnlyWhenAllClosed ==
    [][\A t \in Threads :
         pc[t] \in {"tfs_destroy", "signalled"} /\ pc'[t] = "idle" => taken = {}]_vars

\* Every tfs_open, tfs_close, tfs_lookup, tfs_read and tfs_write returns: no
\* thread blocks for ever on single_global_lock.
CallsReturn ==
    \A t \in Threads : pc[t] \in {"tfs_open", "tfs_close", "tfs_access"} ~> pc[t] = "idle"

\* A destruction that was requested terminates, given that open files are
\* closed sooner or later.
DestroyReturns ==
    \A t \in Destroyers : pc[t] = "tfs_destroy" ~> pc[t] = "idle"

\* DestroyBarrier's phase, read off the counter and the condition variable.
Sleeping == {t \in Threads : pc[t] \in {"cond_wait", "signalled"}}

Phase ==
    CASE openFiles >= 0 -> "running"
      [] openFiles < 0 /\ Sleeping # {} -> "draining"
      [] openFiles < 0 /\ Sleeping = {} -> "destroyed"

Barrier == INSTANCE DestroyBarrier WITH
    open  <- taken,
    phase <- Phase

\* The protocol of the counter, the mutex and the condition variable implements
\* DestroyBarrier: opens are refused from the request on, the destruction
\* happens only when the last file has been closed, and then it does happen
\* (operations.c:38-50, 125-154).
ImplementsBarrier == Barrier!Spec

\* What it says without the liveness, for the proof.
BarrierSafety == Barrier!Init /\ [][Barrier!Next]_(Barrier!vars)

=============================================================================
