----------------------------- MODULE TfsServer -----------------------------
(***************************************************************************)
(* The whole server of Parte 2: the receiver, the workers and the sessions *)
(* of TfsSessions, whose workers are the threads of TfsOperations.  A      *)
(* worker that executes tfs_shutdown_after_all_closed sleeps in            *)
(* tfs_destroy_after_all_closed with the mutex of its session, and then    *)
(* ends the process under the other workers, whatever they are doing.      *)
(*                                                                         *)
(* Of the file calls, "access" stands for tfs_write and tfs_read.  A       *)
(* handle is chosen when the call is executed: nothing looks at it before. *)
(***************************************************************************)
EXTENDS Integers, Sequences

CONSTANTS
    Clients, S, Free, Reserved, NoClient,  \* as in TfsSessions
    SettledStart, QuietHandover, Deaths,
    MAX_OPEN_FILES,                        \* as in TfsOperations
    Orderly  \* is the shutdown asked for once, and nothing opened after that?

ASSUME ServerAssumption ==
    /\ S \in Nat /\ MAX_OPEN_FILES \in Nat
    /\ Free # Reserved /\ {Free, Reserved, NoClient} \cap Clients = {}
    /\ {SettledStart, QuietHandover, Deaths, Orderly} \subseteq BOOLEAN

VARIABLES
    pipe, receiver, clientsFHandle, threadBuffers, worker, client, replies,
    single_global_lock, openFiles, taken, pc, fh,
    process  \* "running", "unlinked" (its pipe has no name) or "exited"

sessVars == <<pipe, receiver, clientsFHandle, threadBuffers, worker, client, replies>>
opsVars == <<single_global_lock, openFiles, taken, pc, fh>>
vars == <<sessVars, opsVars, process>>

Sess == INSTANCE TfsSessions

Ops == INSTANCE TfsOperations WITH
    Threads <- Sess!Sessions, Destroyers <- Sess!Sessions, NoThread <- -1,
    SpuriousWakeups <- FALSE, RepeatedDestroys <- TRUE, LateOpens <- TRUE

Init == Sess!Init /\ Ops!Init /\ process = "running"

-----------------------------------------------------------------------------
(* The clients. *)

ShutdownAsked == openFiles < 0 \/ \E c \in Clients : client[c].op = "shutdown"

OpenInFlight == \E c \in Clients : client[c].stage = "reading" /\ client[c].op = "open"

Asks(c, op) == client[c].stage = "mounted" /\ Sess!Asks(c, op, "reading")

tfs_open(c) ==
    /\ Orderly => ~ShutdownAsked
    /\ Asks(c, "open")

tfs_shutdown_after_all_closed(c) ==
    /\ Orderly => ~ShutdownAsked /\ ~OpenInFlight
    /\ Asks(c, "shutdown")

ClientAsks(c) ==
    \/ Sess!tfs_mount(c) \/ Sess!tfs_unmount(c) \/ Sess!Dies(c)
    \/ tfs_open(c) \/ Asks(c, "close") \/ Asks(c, "access")
    \/ tfs_shutdown_after_all_closed(c)

Becomes(c, stage) ==
    /\ client' = [client EXCEPT ![c].stage = stage]
    /\ UNCHANGED <<pipe, receiver, clientsFHandle, threadBuffers, worker, replies>>

\* The pipe of the server is not there to be opened.
MountFails(c) ==
    /\ process # "running"
    /\ client[c].stage = "new"
    /\ Becomes(c, "refused")

\* SIGPIPE, which the library does not ignore; a new client had opened the
\* pipe before.
WriteBreaks(c) ==
    /\ process = "exited"
    /\ client[c].stage \in {"new", "mounted"}
    /\ Becomes(c, "dead")

\* End of file: the call returns what its variable happens to hold; a mount
\* finds session_id as it was, 0.
ReadEnds(c) ==
    /\ process = "exited"
    /\ client[c].stage = "reading"
    /\ replies[c] = <<>>
    /\ \E val \in IF client[c].op = "mount" THEN {0} ELSE {-1, 0} :
         Becomes(c, Sess!StageAfter(client[c].op, val))

-----------------------------------------------------------------------------
(* The workers.  Stages "executing", in a call of the library, and          *)
(* "exiting" and "unlinked", after the loop, in addition to those of        *)
(* TfsSessions.                                                             *)

\* Mutant: the session is given back while the call lasts.
Enters_releasing(s, op) ==
    /\ Sess!Runs(s, op)
    /\ worker' = [worker EXCEPT ![s].stage = "executing", ![s].fd = clientsFHandle[s]]
    /\ clientsFHandle' = [clientsFHandle EXCEPT ![s] = Free]
    /\ UNCHANGED <<pipe, receiver, threadBuffers, client, replies>>

\* The pipe of the client is looked up before the call.
Enters(s, op) ==
    /\ Sess!Runs(s, op)
    /\ worker' = [worker EXCEPT ![s].stage = "executing", ![s].fd = clientsFHandle[s]]
    /\ UNCHANGED <<pipe, receiver, clientsFHandle, threadBuffers, client, replies>>

handle_tfs_open(s) == Enters(s, "open") /\ Ops!CallOpen(s)
handle_tfs_close(s) == Enters(s, "close") /\ \E h \in Ops!Handles : Ops!CallClose(s, h)
handle_tfs_access(s) == Enters(s, "access") /\ Ops!CallAccess(s)
handle_tfs_shutdown_after_all_closed(s) == Enters(s, "shutdown") /\ Ops!CallDestroy(s)

\* Mutant: the worker of a shutdown leaves without writing the reply.
Executes_unanswered(s) ==
    /\ worker[s].stage = "executing"
    /\ Ops!Steps(s)
    /\ LET after == IF worker[s].req.op = "shutdown" THEN "exiting" ELSE "replying"
       IN  worker' = IF pc'[s] = "idle" THEN [worker EXCEPT ![s].stage = after] ELSE worker
    /\ UNCHANGED <<pipe, receiver, clientsFHandle, threadBuffers, client, replies>>

\* The call goes on, up to its return.
Executes(s) ==
    /\ worker[s].stage = "executing"
    /\ Ops!Steps(s)
    /\ worker' = IF pc'[s] = "idle" THEN [worker EXCEPT ![s].stage = "replying"] ELSE worker
    /\ UNCHANGED <<pipe, receiver, clientsFHandle, threadBuffers, client, replies>>

\* The worker of a shutdown leaves its loop.
Replies(s) ==
    Sess!RepliesThen(s, IF worker[s].req.op = "shutdown" THEN "exiting" ELSE "checking")

Unlinks(s) ==
    /\ worker[s].stage = "exiting"
    /\ worker' = [worker EXCEPT ![s].stage = "unlinked"]
    /\ process' = "unlinked"
    /\ UNCHANGED <<pipe, receiver, clientsFHandle, threadBuffers, client, replies>>

Exits(s) ==
    /\ worker[s].stage = "unlinked"
    /\ process' = "exited"
    /\ UNCHANGED sessVars

WorkerNext(s) ==
    \/ /\ \/ Sess!ChecksBuffer(s) \/ Sess!Wakes(s) \/ Sess!MountOpens(s) \/ Replies(s)
          \/ Sess!UnmountFinishes(s) \/ Sess!UnmountReplies(s) \/ Sess!UnmountFinishesAgain(s)
       /\ UNCHANGED <<opsVars, process>>
    \/ /\ \/ handle_tfs_open(s) \/ handle_tfs_close(s) \/ handle_tfs_access(s)
          \/ handle_tfs_shutdown_after_all_closed(s)
          \/ Executes(s)
       /\ UNCHANGED process
    \/ (Unlinks(s) \/ Exits(s)) /\ UNCHANGED opsVars

-----------------------------------------------------------------------------
Alive == process # "exited" /\ receiver.stage # "exited"

ReceiverStep == Alive /\ Sess!ReceiverNext /\ UNCHANGED <<opsVars, process>>
WorkerStep(s) == Alive /\ WorkerNext(s)
ReaderStep(c) == (Sess!Reads(c) \/ ReadEnds(c)) /\ UNCHANGED <<opsVars, process>>
ClientStep(c) ==
    /\ (process # "exited" /\ ClientAsks(c)) \/ MountFails(c) \/ WriteBreaks(c)
    /\ UNCHANGED <<opsVars, process>>

Next ==
    \/ \E c \in Clients : ClientStep(c) \/ ReaderStep(c)
    \/ ReceiverStep
    \/ \E s \in Sess!Sessions : WorkerStep(s)

Spec == Init /\ [][Next]_vars

\* As in TfsSessions.
Fairness ==
    /\ WF_vars(ReceiverStep)
    /\ \A s \in Sess!Sessions : WF_vars(WorkerStep(s))
    /\ \A c \in Clients : WF_vars(ReaderStep(c))

FairSpec == Spec /\ Fairness

-----------------------------------------------------------------------------
Waits(c) == client[c].stage = "reading" /\ replies[c] = <<>>

\* The process ends with no file open and with the shutdown answered: its
\* caller is the one client that can rely on a reply (tfs_server.c:251-263,
\* 463-469; operations.c:38-50).
ExitsInOrder ==
    process # "running" =>
      /\ taken = {} /\ openFiles = -1
      /\ \A c \in Clients : client[c].op = "shutdown" => ~Waits(c)

\* A shutdown that was asked for happens once no file is open, whichever
\* worker closes the last one (tfs_server.c:251-263; operations.c:38-50,
\* 145-148).
ShutdownHappens ==
    (ShutdownAsked /\ taken = {}) ~> process = "exited"

\* A worker that sleeps in a shutdown does not stop the others: every other
\* call returns, or ends with the process.  Only a mount whose pipe the server
\* had not opened yet is left behind (tfs_server.c:257, 445-469).
OthersServed ==
    \A c \in Clients :
      /\ (client[c].stage = "reading" /\ client[c].op # "shutdown") ~> client[c].stage # "reading"
      /\ client[c].stage = "opening" ~> (client[c].stage # "opening" \/ process = "exited")

\* The file calls and the shutdown are the "call" of TfsSessions: it stays
\* true, whatever happens during the call, that its reply goes to the pipe the
\* session has when it returns (tfs_server.c:176-182, 255-259).
CoarseOp(op) == IF op \in {"open", "close", "access", "shutdown"} THEN "call" ELSE op
CoarseReq(req) == [req EXCEPT !.op = CoarseOp(@)]
CoarseSeq(reqs) == [i \in DOMAIN reqs |-> CoarseReq(reqs[i])]
CoarseStage(stage) ==
    CASE stage = "executing" -> "running"
      [] stage \in {"exiting", "unlinked"} -> "checking"
      [] OTHER -> stage

CoarseBuffer(b) == [readable |-> b.readable, info |-> CoarseReq(b.info)]
CoarseThread(w) ==
    [stage |-> CoarseStage(w.stage), req |-> CoarseReq(w.req),
     fd |-> IF w.stage = "executing" THEN NoClient ELSE w.fd]
CoarseState(k) ==
    [stage |-> IF k.op = "none" THEN "new" ELSE k.stage, op |-> CoarseOp(k.op),
     session_id |-> k.session_id]

CoarsePipe == CoarseSeq(pipe)
CoarseReceiver == [stage |-> receiver.stage, req |-> CoarseReq(receiver.req)]
CoarseBuffers == [s \in Sess!Sessions |-> CoarseBuffer(threadBuffers[s])]
CoarseWorker == [s \in Sess!Sessions |-> CoarseThread(worker[s])]
CoarseClient == [c \in Clients |-> CoarseState(client[c])]
CoarseReplies == [c \in Clients |-> CoarseSeq(replies[c])]

Coarse == INSTANCE TfsSessions WITH
    pipe <- CoarsePipe, receiver <- CoarseReceiver, threadBuffers <- CoarseBuffers,
    worker <- CoarseWorker, client <- CoarseClient, replies <- CoarseReplies

ImplementsSessions ==
    Coarse!Init /\ [][process = "exited" \/ Coarse!Next]_(Coarse!vars)

=============================================================================
