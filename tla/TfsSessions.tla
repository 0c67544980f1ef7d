---------------------------- MODULE TfsSessions ----------------------------
(***************************************************************************)
(* Parte2/tecnicofs_ex2/fs/tfs_server.c with the clients of                *)
(* client/tecnicofs_client_api.c.  The receiver thread takes the requests  *)
(* out of the server's pipe and leaves each in the buffer of its session,  *)
(* whose worker thread executes it and writes the reply to the client's    *)
(* pipe.  A worker holds the mutex of its session all the time, except     *)
(* before it starts, asleep on the condition variable and while it wakes.  *)
(*                                                                         *)
(* A client is one call of tfs_mount and what follows until tfs_unmount    *)
(* returns.  tfs_open, tfs_close, tfs_write and tfs_read are the request   *)
(* "call": TfsOperations and TfsState model what they do.                  *)
(***************************************************************************)
EXTENDS Integers, Sequences

CONSTANTS
    Clients,
    S,                \* number of sessions
    Free, Reserved,   \* the values -1 and -2 of clientsFHandle
    NoClient,         \* no client; not the address of any
    SettledStart,     \* do workers go to sleep before the first request is read?
    QuietHandover,    \* is no mount read while a worker is between the two
                      \* finishClientSession of an unmount?
    Deaths            \* may clients die?

Sessions == 0 .. S - 1

ASSUME SessionsAssumption ==
    /\ S \in Nat
    /\ Free # Reserved /\ {Free, Reserved, NoClient} \cap Clients = {}
    /\ {SettledStart, QuietHandover, Deaths} \subseteq BOOLEAN

VARIABLES
    pipe,            \* requests in the pipe of the server
    receiver,        \* stage, request in hand and its session
    clientsFHandle,  \* Free, Reserved or the client whose pipe is open
    threadBuffers,   \* readable, info
    worker,          \* stage, request in hand and the pipe it answers to
    client,          \* stage, last request and session_id
    replies          \* replies in the pipe of each client

vars == <<pipe, receiver, clientsFHandle, threadBuffers, worker, client, replies>>
server == <<receiver, clientsFHandle, threadBuffers, worker>>

NoRequest == [op |-> "none", client |-> NoClient, sessionID |-> -1]

Init ==
    /\ pipe = <<>>
    /\ receiver = [stage |-> "reading", req |-> NoRequest]
    /\ clientsFHandle = [s \in Sessions |-> Free]
    /\ threadBuffers = [s \in Sessions |-> [readable |-> FALSE, info |-> NoRequest]]
    /\ worker = [s \in Sessions |-> [stage |-> "starting", req |-> NoRequest, fd |-> NoClient]]
    /\ client = [c \in Clients |-> [stage |-> "new", op |-> "none", session_id |-> -1]]
    /\ replies = [c \in Clients |-> <<>>]

-----------------------------------------------------------------------------
(* The clients.  Stages: "new"; "opening", blocked in open of its pipe;     *)
(* "reading", blocked in read; "mounted"; "left", "refused", "dead".        *)

Asks(c, op, stage) ==
    /\ pipe' = Append(pipe, [op |-> op, client |-> c, sessionID |-> client[c].session_id])
    /\ client' = [client EXCEPT ![c].stage = stage, ![c].op = op]
    /\ UNCHANGED <<server, replies>>

\* The request is sent, and then the client waits for the server at its pipe.
tfs_mount(c) == client[c].stage = "new" /\ Asks(c, "mount", "opening")
tfs_call(c) == client[c].stage = "mounted" /\ Asks(c, "call", "reading")
tfs_unmount(c) == client[c].stage = "mounted" /\ Asks(c, "unmount", "reading")

StageAfter(op, val) ==
    CASE op = "mount" -> IF val = -1 THEN "refused" ELSE "mounted"
      [] op = "unmount" -> IF val >= 0 THEN "left" ELSE "mounted"
      [] OTHER -> "mounted"

\* The read of the reply, whatever request it answers.
Reads(c) ==
    /\ client[c].stage = "reading"
    /\ replies[c] # <<>>
    /\ LET val == Head(replies[c]).val
           op == client[c].op
       IN  client' = [client EXCEPT ![c].stage = StageAfter(op, val),
                                    ![c].session_id = IF op = "mount" THEN val ELSE @]
    /\ replies' = [replies EXCEPT ![c] = Tail(@)]
    /\ UNCHANGED <<pipe, server>>

Dies(c) ==
    /\ Deaths
    /\ client[c].stage \in {"opening", "reading", "mounted"}
    /\ client' = [client EXCEPT ![c].stage = "dead"]
    /\ UNCHANGED <<pipe, server, replies>>

\* open(client_pipe_name, O_WRONLY) returns once the client reads its pipe.
OpensPipe(c) ==
    /\ client[c].stage \in {"opening", "reading", "mounted"}
    /\ client' = [client EXCEPT ![c].stage = IF @ = "opening" THEN "reading" ELSE @]

\* Does a write to the pipe of this client succeed?
Reachable(c) == c \in Clients /\ client[c].stage \in {"reading", "mounted"}

WritesReply(c, req, val) ==
    replies' = [replies EXCEPT ![c] = Append(@, [op |-> req.op, client |-> req.client, val |-> val])]

-----------------------------------------------------------------------------
(* The receiver.  Stages: "reading"; "storing", blocked on the mutex of the *)
(* session; "signalling"; "refusing", opening the pipe of a client that has *)
(* no session; "refused", about to write there; "exited".                   *)

Settled == \A s \in Sessions : worker[s].stage # "starting"

HandingOver == \E s \in Sessions : worker[s].stage \in {"unmounting", "unmounted"}

\* Mutants: a session that is reserved counts as free; the last one is never
\* given.
FreeSessions_reserved == {s \in Sessions : clientsFHandle[s] \notin Clients}
FreeSessions_short == {s \in Sessions \ {S - 1} : clientsFHandle[s] = Free}

FreeSessions == {s \in Sessions : clientsFHandle[s] = Free}

\* readFromPipe and, for a mount, getAvailableSession.
ReceiveMount ==
    /\ Head(pipe).op = "mount"
    /\ QuietHandover => ~HandingOver
    /\ \/ \E s \in FreeSessions :
            /\ \A r \in FreeSessions : s <= r
            /\ clientsFHandle' = [clientsFHandle EXCEPT ![s] = Reserved]
            /\ receiver' = [stage |-> "storing", req |-> [Head(pipe) EXCEPT !.sessionID = s]]
       \/ /\ FreeSessions = {}
          /\ receiver' = [stage |-> "refusing", req |-> Head(pipe)]
          /\ UNCHANGED clientsFHandle

ReceiveOther ==
    /\ Head(pipe).op # "mount"
    /\ receiver' = [stage |-> "storing", req |-> Head(pipe)]
    /\ UNCHANGED clientsFHandle

Receive ==
    /\ receiver.stage = "reading"
    /\ pipe # <<>>
    /\ SettledStart => Settled
    /\ ReceiveMount \/ ReceiveOther
    /\ pipe' = Tail(pipe)
    /\ UNCHANGED <<threadBuffers, worker, client, replies>>

MutexFree(s) == worker[s].stage \in {"starting", "waiting", "signalled"}

writeToBufferPC ==
    LET s == receiver.req.sessionID
    IN  /\ receiver.stage = "storing"
        /\ MutexFree(s)
        /\ threadBuffers' = [threadBuffers EXCEPT ![s] = [readable |-> TRUE, info |-> receiver.req]]
        /\ receiver' = [receiver EXCEPT !.stage = "signalling"]
        /\ UNCHANGED <<pipe, clientsFHandle, worker, client, replies>>

\* Mutant: it is always the same condition variable that is signalled.
Signal_first ==
    /\ receiver.stage = "signalling"
    /\ worker' = IF worker[0].stage = "waiting"
                 THEN [worker EXCEPT ![0].stage = "signalled"] ELSE worker
    /\ receiver' = [stage |-> "reading", req |-> NoRequest]
    /\ UNCHANGED <<pipe, clientsFHandle, threadBuffers, client, replies>>

\* The mutex is not held here: the worker may have come and gone since.
Signal ==
    LET s == receiver.req.sessionID
    IN  /\ receiver.stage = "signalling"
        /\ worker' = IF worker[s].stage = "waiting"
                     THEN [worker EXCEPT ![s].stage = "signalled"] ELSE worker
        /\ receiver' = [stage |-> "reading", req |-> NoRequest]
        /\ UNCHANGED <<pipe, clientsFHandle, threadBuffers, client, replies>>

RefusalOpens ==
    /\ receiver.stage = "refusing"
    /\ OpensPipe(receiver.req.client)
    /\ receiver' = [receiver EXCEPT !.stage = "refused"]
    /\ UNCHANGED <<pipe, clientsFHandle, threadBuffers, worker, replies>>

\* Mutant: the refusal carries the mark of a reserved session.
RefusalWrites_reserved ==
    /\ receiver.stage = "refused"
    /\ WritesReply(receiver.req.client, receiver.req, -2)
    /\ receiver' = [stage |-> "reading", req |-> NoRequest]
    /\ UNCHANGED <<pipe, clientsFHandle, threadBuffers, worker, client>>

\* The process ends if the client is no longer there.
RefusalWrites ==
    LET c == receiver.req.client
    IN  /\ receiver.stage = "refused"
        /\ IF Reachable(c)
           THEN /\ WritesReply(c, receiver.req, -1)
                /\ receiver' = [stage |-> "reading", req |-> NoRequest]
           ELSE /\ receiver' = [receiver EXCEPT !.stage = "exited"]
                /\ UNCHANGED replies
        /\ UNCHANGED <<pipe, clientsFHandle, threadBuffers, worker, client>>

ReceiverNext == Receive \/ writeToBufferPC \/ Signal \/ RefusalOpens \/ RefusalWrites

-----------------------------------------------------------------------------
(* The worker of session s.  Stages: "starting", without the mutex;         *)
(* "checking", at the head of the loop; "waiting", asleep; "signalled";     *)
(* "running", the request read; "replying", about to write the reply;       *)
(* "unmounting" and "unmounted", about to write the reply of an unmount and *)
(* to finish the session again.                                             *)

Turns(s, stage) == worker' = [worker EXCEPT ![s].stage = stage]

\* Mutant: the buffer stays readable.
Takes_rereadable(s) ==
    /\ worker' = [worker EXCEPT ![s] =
                    [stage |-> "running", req |-> threadBuffers[s].info, fd |-> NoClient]]
    /\ UNCHANGED threadBuffers

\* readFromBufferPC.
Takes(s) ==
    /\ worker' = [worker EXCEPT ![s] =
                    [stage |-> "running", req |-> threadBuffers[s].info, fd |-> NoClient]]
    /\ threadBuffers' = [threadBuffers EXCEPT ![s].readable = FALSE]

\* The head of the loop, at the start with the mutex just taken: if nothing
\* can be read, the worker waits.
ChecksBuffer(s) ==
    /\ worker[s].stage \in {"starting", "checking"}
    /\ IF threadBuffers[s].readable THEN Takes(s)
       ELSE Turns(s, "waiting") /\ UNCHANGED threadBuffers
    /\ UNCHANGED <<pipe, receiver, clientsFHandle, client, replies>>

\* readable is not looked at again.
Wakes(s) ==
    /\ worker[s].stage = "signalled"
    /\ Takes(s)
    /\ UNCHANGED <<pipe, receiver, clientsFHandle, client, replies>>

Runs(s, op) == worker[s].stage = "running" /\ worker[s].req.op = op

\* Mutant: the pipe of the client is not entered in the table.
MountOpens_unrecorded(s) ==
    LET c == worker[s].req.client
    IN  /\ Runs(s, "mount")
        /\ OpensPipe(c)
        /\ worker' = [worker EXCEPT ![s].stage = "replying", ![s].fd = c]
        /\ UNCHANGED <<pipe, receiver, clientsFHandle, threadBuffers, replies>>

\* openClientSession.
MountOpens(s) ==
    LET c == worker[s].req.client
    IN  /\ Runs(s, "mount")
        /\ OpensPipe(c)
        /\ clientsFHandle' = [clientsFHandle EXCEPT ![s] = c]
        /\ worker' = [worker EXCEPT ![s].stage = "replying", ![s].fd = c]
        /\ UNCHANGED <<pipe, receiver, threadBuffers, replies>>

Executes(s) ==
    /\ Runs(s, "call")
    /\ worker' = [worker EXCEPT ![s].stage = "replying", ![s].fd = clientsFHandle[s]]
    /\ UNCHANGED <<pipe, receiver, clientsFHandle, threadBuffers, client, replies>>

\* Mutant: the session is given back although the reply went out.
Replies_releasing(s) ==
    LET fd == worker[s].fd
    IN  /\ worker[s].stage = "replying"
        /\ IF Reachable(fd) THEN WritesReply(fd, worker[s].req, s) ELSE UNCHANGED replies
        /\ clientsFHandle' = [clientsFHandle EXCEPT ![s] = Free]
        /\ Turns(s, "checking")
        /\ UNCHANGED <<pipe, receiver, threadBuffers, client>>

\* A write that fails gives the session back.
RepliesThen(s, stage) ==
    LET fd == worker[s].fd
    IN  /\ worker[s].stage = "replying"
        /\ IF Reachable(fd)
           THEN WritesReply(fd, worker[s].req, s) /\ UNCHANGED clientsFHandle
           ELSE clientsFHandle' = [clientsFHandle EXCEPT ![s] = Free] /\ UNCHANGED replies
        /\ Turns(s, stage)
        /\ UNCHANGED <<pipe, receiver, threadBuffers, client>>

Replies(s) == RepliesThen(s, "checking")

\* The first finishClientSession, if the session has a pipe.
UnmountFinishes(s) ==
    LET fd == clientsFHandle[s]
    IN  /\ Runs(s, "unmount")
        /\ clientsFHandle' = IF fd \in Clients THEN [clientsFHandle EXCEPT ![s] = Free]
                             ELSE clientsFHandle
        /\ worker' = [worker EXCEPT ![s].stage = "unmounting", ![s].fd = fd]
        /\ UNCHANGED <<pipe, receiver, threadBuffers, client, replies>>

UnmountReplies(s) ==
    LET fd == worker[s].fd
    IN  /\ worker[s].stage = "unmounting"
        /\ IF Reachable(fd) THEN WritesReply(fd, worker[s].req, 0) ELSE UNCHANGED replies
        /\ Turns(s, "unmounted")
        /\ UNCHANGED <<pipe, receiver, clientsFHandle, threadBuffers, client>>

\* The second one, unconditional.
UnmountFinishesAgain(s) ==
    /\ worker[s].stage = "unmounted"
    /\ clientsFHandle' = [clientsFHandle EXCEPT ![s] = Free]
    /\ Turns(s, "checking")
    /\ UNCHANGED <<pipe, receiver, threadBuffers, client, replies>>

WorkerNext(s) ==
    \/ ChecksBuffer(s) \/ Wakes(s)
    \/ MountOpens(s) \/ Executes(s) \/ Replies(s)
    \/ UnmountFinishes(s) \/ UnmountReplies(s) \/ UnmountFinishesAgain(s)

-----------------------------------------------------------------------------
ClientNext(c) == tfs_mount(c) \/ tfs_call(c) \/ tfs_unmount(c) \/ Dies(c)

Next ==
    \/ \E c \in Clients : ClientNext(c) \/ Reads(c)
    \/ /\ receiver.stage # "exited"
       /\ ReceiverNext \/ \E s \in Sessions : WorkerNext(s)

Spec == Init /\ [][Next]_vars

\* The server's threads and a client blocked in read run when they can.
\* Whether a client asks for anything else is up to it.
Fairness ==
    /\ WF_vars(receiver.stage # "exited" /\ ReceiverNext)
    /\ \A s \in Sessions : WF_vars(receiver.stage # "exited" /\ WorkerNext(s))
    /\ \A c \in Clients : WF_vars(Reads(c))

FairSpec == Spec /\ Fairness

-----------------------------------------------------------------------------
Requests == [op : {"none", "mount", "call", "unmount"},
             client : Clients \cup {NoClient}, sessionID : Sessions \cup {-1}]

TypeOK ==
    /\ pipe \in Seq(Requests)
    /\ receiver \in [stage : {"reading", "storing", "signalling", "refusing", "refused", "exited"},
                     req : Requests]
    /\ clientsFHandle \in [Sessions -> Clients \cup {Free, Reserved}]
    /\ threadBuffers \in [Sessions -> [readable : BOOLEAN, info : Requests]]
    /\ worker \in [Sessions -> [stage : {"starting", "checking", "waiting", "signalled", "running",
                                         "replying", "unmounting", "unmounted"},
                                req : Requests,
                                fd : Clients \cup {NoClient, Free, Reserved}]]
    /\ client \in [Clients -> [stage : {"new", "opening", "reading", "mounted", "left",
                                        "refused", "dead"},
                               op : {"none", "mount", "call", "unmount"},
                               session_id : Sessions \cup {-1}]]
    /\ \A c \in Clients : replies[c] \in
         Seq([op : {"mount", "call", "unmount"}, client : Clients, val : Sessions \cup {-1, 0}])

\* A client that has a session: mounted and not asking to leave.
Active(c) ==
    \/ client[c].stage = "mounted"
    \/ client[c].stage = "reading" /\ client[c].op = "call"

\* The server writes the replies of a session to the client that has it: the
\* session table and what each client believes agree, and so no two clients
\* share a session (tfs_server.c:101-137).
SessionExclusive ==
    \A c \in Clients : Active(c) => clientsFHandle[client[c].session_id] = c

\* Every reply in a client's pipe answers the request this client is waiting
\* for, and there is no other: no request is executed twice, none is answered
\* to somebody else (tfs_server.c:445-467, tecnicofs_client_api.c).
RepliesMatch ==
    \A c \in Clients : replies[c] # <<>> =>
      /\ Len(replies[c]) = 1
      /\ replies[c][1].client = c
      /\ replies[c][1].op = client[c].op
      /\ client[c].stage \in {"reading", "dead"}

\* The receiver never writes over a request that the worker has not taken
\* (tfs_server.c:326-331 and 405-408).
NoRequestOverwritten ==
    [][\A s \in Sessions :
         threadBuffers[s].readable => threadBuffers'[s].info = threadBuffers[s].info]_vars

\* Every request is answered: no call of the client library blocks for ever.
CallsReturn ==
    \A c \in Clients :
      client[c].stage \in {"opening", "reading"} ~> client[c].stage \notin {"opening", "reading"}

\* A session that was reserved comes to have a client, and one whose client
\* left comes to be free (tfs_server.c:101-137, 154-170).
InUse(s) ==
    clientsFHandle[s] \in {c \in Clients : client[c].stage # "left"}

SessionsReturn ==
    \A s \in Sessions :
      (clientsFHandle[s] # Free /\ ~InUse(s)) ~> (clientsFHandle[s] = Free \/ InUse(s))

\* The client a session was reserved for.
MountOf(s) ==
    IF receiver.stage = "storing" /\ receiver.req.op = "mount" /\ receiver.req.sessionID = s
    THEN receiver.req.client
    ELSE IF threadBuffers[s].readable THEN threadBuffers[s].info.client
    ELSE worker[s].req.client

\* Who has each session, whose mount is not decided, who is leaving.
SessionOwner ==
    [s \in Sessions |-> IF clientsFHandle[s] = Reserved THEN MountOf(s) ELSE clientsFHandle[s]]

PendingMounts ==
    {c \in Clients : \E i \in DOMAIN pipe : pipe[i].op = "mount" /\ pipe[i].client = c}

LeavingClients ==
    {c \in Clients : client[c].stage \in {"left", "dead"} \/ client[c].op = "unmount"}

\* The receiver, the workers and the session table implement SessionService.
Service == INSTANCE SessionService WITH
    Nobody <- Free, owner <- SessionOwner, asking <- PendingMounts, leaving <- LeavingClients

ServiceSafety == Service!Init /\ [][Service!Next]_(Service!vars)
ImplementsService == Service!Spec

=============================================================================
