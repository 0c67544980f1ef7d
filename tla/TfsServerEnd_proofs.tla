------------------------ MODULE TfsServerEnd_proofs ------------------------
(***************************************************************************)
(* Proofs about the end of the server of TfsServer: no file is open, and   *)
(* the shutdown is answered.  The invariants of TfsSessions and            *)
(* TfsOperations are taken over from their proofs.                         *)
(***************************************************************************)
EXTENDS TfsServer_proofs

\* The library when its destruction is asked for once, with what is proved of it.
OP == INSTANCE TfsOperations_proofs WITH
    Threads <- Sess!Sessions, Destroyers <- Sess!Sessions, NoThread <- -1,
    SpuriousWakeups <- FALSE, RepeatedDestroys <- FALSE, LateOpens <- TRUE

LEMMA LibraryAssumption == OP!OperationsAssumption
BY ServerAssumption DEF Sess!Sessions, OP!OperationsAssumption

-----------------------------------------------------------------------------
(* The requests, the library and the end *)

\* c has asked for op, and no worker has begun it.
Pends(op, c) ==
    \/ \E i \in DOMAIN pipe : pipe[i].op = op /\ pipe[i].client = c
    \/ receiver.stage = "storing" /\ receiver.req.op = op /\ receiver.req.client = c
    \/ \E s \in Sessions :
         \/ /\ threadBuffers[s].readable
            /\ threadBuffers[s].info.op = op /\ threadBuffers[s].info.client = c
         \/ worker[s].stage = "running" /\ worker[s].req.op = op /\ worker[s].req.client = c

\* It is being executed or answered.
Served(s) == worker[s].stage \in {"executing", "replying"}
Engaged(s) == worker[s].stage = "running" \/ Served(s)
Leaving(s) == worker[s].stage \in {"exiting", "unlinked"}

\* What is asked is what its client last asked.
AskedInv ==
    /\ \A op \in Ops0, c \in Clients : Pends(op, c) => client[c].op = op
    /\ \A s \in Sessions :
         Served(s) => client[worker[s].req.client].op = worker[s].req.op

\* One client asks for the shutdown, and not once it has begun.
OnceInv ==
    /\ \A c, d \in Clients : client[c].op = "shutdown" /\ client[d].op = "shutdown" => c = d
    /\ openFiles < 0 => \A c \in Clients : ~Pends("shutdown", c)

LibraryInv == OP!TypeOK /\ OP!CountMatches /\ OP!DestroyInv

Over == process # "running" \/ \E s \in Sessions : Leaving(s)
Destroyed ==
    Over \/ \E s \in Sessions : worker[s].stage = "replying" /\ worker[s].req.op = "shutdown"

\* From the return of the shutdown on no file is open, and from its reply on
\* nobody waits for it.
EndInv ==
    /\ Destroyed => openFiles = -1 /\ taken = {}
    /\ Over => \A c \in Clients : client[c].op = "shutdown" => ~Waits(c)

Ordered == AskedInv /\ OnceInv /\ LibraryInv /\ EndInv

\* The client whose request a worker has in hand has no other anywhere.
LEMMA OneRequest ==
    ASSUME Running, NEW s \in Sessions, Engaged(s)
    PROVE  LET c == worker[s].req.client
           IN  /\ c \in Clients /\ ~threadBuffers[s].readable
               /\ \A i \in DOMAIN pipe : pipe[i].client # c
               /\ receiver.stage = "storing" => receiver.req.client # c
               /\ \A t \in Sessions :
                    /\ threadBuffers[t].readable => threadBuffers[t].info.client # c
                    /\ Engaged(t) /\ worker[t].req.client = c => t = s
               /\ worker[s].stage = "replying" =>
                    /\ worker[s].fd = c /\ client[c].stage \in {"reading", "dead"}
                    /\ worker[s].req.op # "unmount"
<1> DEFINE c == worker[s].req.client
<1>0. TypeInv /\ AskInv /\ SP!SessInv
  BY DEF Running
<1>1. ASSUME NEW t \in Sessions
      PROVE  /\ CoarseBuffers[t].readable = threadBuffers[t].readable
             /\ CoarseBuffers[t].info.client = threadBuffers[t].info.client
             /\ CoarseWorker[t].req.client = worker[t].req.client
             /\ CoarseWorker[t].req.op = CoarseOp(worker[t].req.op)
             /\ worker[t].req \in Request
             /\ Engaged(t) => CoarseWorker[t].stage \in {"running", "replying"}
             /\ worker[t].stage = "replying" =>
                  CoarseWorker[t].stage = "replying" /\ CoarseWorker[t].fd = worker[t].fd
  <2>1. /\ worker[t] \in WorkerType /\ CoarseWorker[t] = CoarseThread(worker[t])
        /\ threadBuffers[t] \in BufferType /\ CoarseBuffers[t] = CoarseBuffer(threadBuffers[t])
    BY <1>0, CoarseStages
  <2>2. worker[t].req \in Request /\ threadBuffers[t].info \in Request
    BY <2>1 DEF WorkerType, BufferType
  <2>3. /\ CoarseBuffers[t].readable = threadBuffers[t].readable
        /\ CoarseBuffers[t].info = CoarseReq(threadBuffers[t].info)
    BY <2>1 DEF CoarseBuffer
  <2>4. /\ CoarseWorker[t].req = CoarseReq(worker[t].req)
        /\ CoarseWorker[t].stage = CoarseStage(worker[t].stage)
        /\ worker[t].stage # "executing" => CoarseWorker[t].fd = worker[t].fd
    BY <2>1 DEF CoarseThread
  <2> QED
    BY <2>2, <2>3, <2>4, CoarseFields DEF Engaged, Served, CoarseStage
<1>2. \A t \in Sessions : Engaged(t) =>
        /\ ~threadBuffers[t].readable /\ SP!Busy(t) /\ SP!RequestOf(t).client = worker[t].req.client
  BY <1>0, <1>1, Assumptions DEF SP!SessInv, SP!SessionInv, SP!SessionOK, SP!Busy, SP!RequestOf
<1>3. c \in Clients /\ \A t \in Sessions : SP!Busy(t) /\ SP!RequestOf(t).client = c => t = s
  BY <1>0, <1>2, Assumptions DEF SP!SessInv, SP!SessionInv, SP!SessionOK, SP!Asked
<1>4. ASSUME NEW i \in DOMAIN pipe PROVE pipe[i].client # c
  <2>1. /\ i \in DOMAIN CoarsePipe /\ CoarsePipe[i] = CoarseReq(pipe[i]) /\ pipe[i] \in Request
    <3>1. pipe \in Seq(Request)
      BY <1>0 DEF TypeInv
    <3> QED
      BY <3>1, CoarseSeqIs DEF CoarsePipe
  <2>2. CoarsePipe[i].client = pipe[i].client
    BY <2>1, CoarseFields
  <2> QED
    BY <1>0, <1>2, <2>1, <2>2, Assumptions DEF SP!SessInv, SP!PipeInv, SP!PipeOK
<1>5. receiver.stage = "storing" => receiver.req.client # c
  <2>1. CoarseReceiver.stage = receiver.stage /\ CoarseReceiver.req.client = receiver.req.client
    BY <1>0, InHandIs, CoarseStages
  <2> QED
    BY <1>0, <1>2, <2>1, Assumptions DEF SP!SessInv, SP!ReceiverInv, SP!InHand
<1>6. ASSUME NEW t \in Sessions, threadBuffers[t].readable
      PROVE  threadBuffers[t].info.client # c
  <2>1. SP!Busy(t) /\ SP!RequestOf(t).client = threadBuffers[t].info.client /\ t # s
    BY <1>1, <1>2, <1>6 DEF SP!Busy, SP!RequestOf
  <2> QED
    BY <1>3, <2>1
<1>7. worker[s].stage = "replying" =>
        /\ worker[s].fd = c /\ client[c].stage \in {"reading", "dead"}
        /\ worker[s].req.op # "unmount"
  <2> SUFFICES ASSUME worker[s].stage = "replying"
               PROVE  /\ worker[s].fd = c /\ client[c].stage \in {"reading", "dead"}
                      /\ worker[s].req.op # "unmount"
    OBVIOUS
  <2>1. /\ CoarseWorker[s].fd = c /\ CoarseWorker[s].req.op \in {"mount", "call"}
        /\ CoarseClient[c].stage \in {"reading", "dead"}
    <3>1. SP!SessionOK(s) /\ CoarseWorker[s].stage = "replying"
      BY <1>0, <1>1, Assumptions DEF SP!SessInv, SP!SessionInv
    <3>2. SP!RequestOf(s) = CoarseWorker[s].req
      BY <1>1, <1>2 DEF Engaged, Served, SP!RequestOf
    <3>3. SP!RequestOf(s).client = c
      BY <1>1, <3>2
    <3>4. /\ CoarseWorker[s].fd = c /\ SP!RequestOf(s).op \in {"mount", "call"}
          /\ SP!Waits(c, "reading")
      BY <3>1, <3>3 DEF SP!SessionOK
    <3> QED
      BY <3>2, <3>4 DEF SP!Waits
  <2>2. client[c].stage = CoarseClient[c].stage
    BY <1>3, <2>1 DEF CoarseClient, CoarseState
  <2>3. worker[s].req.op # "unmount"
    BY <1>1, <2>1 DEF CoarseOp
  <2> QED
    BY <1>1, <2>1, <2>2, <2>3
<1> QED
  BY <1>2, <1>3, <1>4, <1>5, <1>6, <1>7

\* A client that asks has no request anywhere.
LEMMA NoRequestYet ==
    ASSUME Running, NEW c \in Clients, client[c].stage \in {"new", "mounted"}
    PROVE  /\ \A i \in DOMAIN pipe : pipe[i].client # c
           /\ receiver.stage = "storing" => receiver.req.client # c
           /\ \A s \in Sessions :
                /\ threadBuffers[s].readable => threadBuffers[s].info.client # c
                /\ Engaged(s) => worker[s].req.client # c
<1>0. TypeInv /\ AskInv /\ SP!SessInv
  BY DEF Running
<1>1. CoarseClient[c].stage \notin {"opening", "reading", "dead"}
  BY <1>0, CoarseStages
<1>2. /\ \A i \in DOMAIN CoarsePipe : CoarsePipe[i].client # c
      /\ SP!InHand => CoarseReceiver.req.client # c
      /\ \A s \in Sessions : SP!Busy(s) => SP!RequestOf(s).client # c
  BY <1>0, <1>1, SP!NothingAsked, Assumptions
<1>3. ASSUME NEW i \in DOMAIN pipe PROVE pipe[i].client # c
  <2>1. pipe \in Seq(Request)
    BY <1>0 DEF TypeInv
  <2>2. i \in DOMAIN CoarsePipe /\ CoarsePipe[i] = CoarseReq(pipe[i]) /\ pipe[i] \in Request
    BY <2>1, CoarseSeqIs DEF CoarsePipe
  <2> QED
    BY <1>2, <2>2, CoarseFields
<1>4. receiver.stage = "storing" => receiver.req.client # c
  BY <1>0, <1>2, InHandIs, CoarseStages DEF SP!InHand
<1>5. ASSUME NEW s \in Sessions
      PROVE  /\ threadBuffers[s].readable => threadBuffers[s].info.client # c
             /\ Engaged(s) => worker[s].req.client # c
  <2>1. CASE Engaged(s)
    <3>1. worker[s].req.client \in Clients /\ ~threadBuffers[s].readable
      BY <2>1, OneRequest
    <3>2. worker[s] \in WorkerType /\ CoarseWorker[s] = CoarseThread(worker[s])
          /\ CoarseBuffers[s] = CoarseBuffer(threadBuffers[s])
      BY <1>0, CoarseStages
    <3>3. CoarseWorker[s].req = CoarseReq(worker[s].req) /\ worker[s].req \in Request
          /\ CoarseWorker[s].stage \in {"running", "replying"}
          /\ CoarseBuffers[s].readable = threadBuffers[s].readable
      BY <2>1, <3>2 DEF CoarseThread, CoarseStage, CoarseBuffer, WorkerType, Engaged, Served
    <3>4. SP!Busy(s) /\ SP!RequestOf(s).client = worker[s].req.client
      BY <3>1, <3>3, CoarseFields DEF SP!Busy, SP!RequestOf
    <3> QED
      BY <1>2, <3>1, <3>4
  <2>2. CASE threadBuffers[s].readable
    <3>1. threadBuffers[s] \in BufferType /\ CoarseBuffers[s] = CoarseBuffer(threadBuffers[s])
      BY <1>0, CoarseStages
    <3>2. /\ CoarseBuffers[s].readable /\ CoarseBuffers[s].info = CoarseReq(threadBuffers[s].info)
          /\ threadBuffers[s].info \in Request
      BY <2>2, <3>1 DEF CoarseBuffer, BufferType
    <3>3. SP!Busy(s) /\ SP!RequestOf(s).client = threadBuffers[s].info.client
      BY <3>2, CoarseFields DEF SP!Busy, SP!RequestOf
    <3> QED
      BY <1>2, <2>1, <2>2, <3>3
  <2> QED
    BY <2>1, <2>2
<1> QED
  BY <1>3, <1>4, <1>5

\* What a client does: it asks for something, or goes on without asking.
LEMMA ClientMoves ==
    ASSUME TypeInv, AskInv, NEW c \in Clients, ClientStep(c) \/ ReaderStep(c)
    PROVE  /\ UNCHANGED <<receiver, clientsFHandle, threadBuffers, worker, opsVars, process>>
           /\ \A d \in Clients \ {c} : client'[d] = client[d] /\ replies'[d] = replies[d]
           /\ \/ /\ UNCHANGED pipe /\ client'[c].op = client[c].op
                 /\ client'[c].stage \in {"refused", "dead", "mounted", "left"}
              \/ \E op \in Ops0 :
                   /\ client[c].stage \in {"new", "mounted"} /\ process # "exited"
                   /\ client'[c].op = op
                   /\ pipe' = Append(pipe, [op |-> op, client |-> c, sessionID |-> client[c].session_id])
                   /\ op = "shutdown" /\ Orderly => ~ShutdownAsked
<1>1. client \in [Clients -> ClientType] /\ replies \in [Clients -> Seq(Reply)]
  BY DEF TypeInv
<1>2. UNCHANGED <<receiver, clientsFHandle, threadBuffers, worker, opsVars, process>>
  BY DEF ClientStep, ReaderStep, ClientAsks, Sess!tfs_mount, Sess!tfs_unmount, tfs_open,
     tfs_shutdown_after_all_closed, Asks, Sess!Asks, Sess!Dies, Sess!Reads, Sess!server, ReadEnds,
     MountFails, WriteBreaks, Becomes
<1> DEFINE Others == \A d \in Clients \ {c} : client'[d] = client[d] /\ replies'[d] = replies[d]
           Goes == /\ UNCHANGED pipe /\ client'[c].op = client[c].op
                   /\ client'[c].stage \in {"refused", "dead", "mounted", "left"}
           Calls(op) ==
             /\ client[c].stage \in {"new", "mounted"} /\ process # "exited"
             /\ client'[c].op = op
             /\ pipe' = Append(pipe, [op |-> op, client |-> c, sessionID |-> client[c].session_id])
             /\ op = "shutdown" /\ Orderly => ~ShutdownAsked
<1>3. ASSUME NEW op \in Ops0, NEW stage, Sess!Asks(c, op, stage), process # "exited",
             client[c].stage \in {"new", "mounted"}, op = "shutdown" /\ Orderly => ~ShutdownAsked
      PROVE  Others /\ Calls(op)
  <2>1. /\ pipe' = Append(pipe, [op |-> op, client |-> c, sessionID |-> client[c].session_id])
        /\ client' = [client EXCEPT ![c].stage = stage, ![c].op = op]
        /\ UNCHANGED replies
    BY <1>3 DEF Sess!Asks
  <2>2. client'[c].op = op /\ \A d \in Clients \ {c} : client'[d] = client[d]
    BY <1>1, <2>1 DEF ClientType
  <2> QED
    BY <1>3, <2>1, <2>2
<1>4. ASSUME NEW stage \in {"refused", "dead", "mounted", "left"}, Becomes(c, stage)
      PROVE  Others /\ Goes
  BY <1>1, <1>4 DEF Becomes, ClientType
<1>5. ASSUME NEW op, NEW val PROVE Sess!StageAfter(op, val) \in {"refused", "mounted", "left"}
  BY DEF Sess!StageAfter
<1>6. CASE Sess!Reads(c)
  <2> DEFINE val == Head(replies[c]).val
             op == client[c].op
             stage == Sess!StageAfter(op, val)
             id == IF op = "mount" THEN val ELSE client[c].session_id
  <2>1. /\ client' = [client EXCEPT ![c].stage = stage, ![c].session_id = id]
        /\ replies' = [replies EXCEPT ![c] = Tail(replies[c])]
        /\ UNCHANGED pipe
    BY <1>6 DEF Sess!Reads
  <2>2. stage \in {"refused", "mounted", "left"}
    BY <1>5
  <2> HIDE DEF stage, id
  <2>3. Others /\ Goes
    BY <1>1, <2>1, <2>2 DEF ClientType
  <2> QED
    BY <1>2, <2>3
<1>7. CASE Sess!Dies(c)
  <2>1. Becomes(c, "dead")
    BY <1>7 DEF Sess!Dies, Becomes, Sess!server
  <2>2. Others /\ Goes
    BY <1>4, <2>1
  <2> QED
    BY <1>2, <2>2
<1>8. CASE ReadEnds(c)
  <2>1. PICK val : Becomes(c, Sess!StageAfter(client[c].op, val))
    BY <1>8 DEF ReadEnds
  <2>2. Others /\ Goes
    BY <1>4, <1>5, <2>1
  <2> QED
    BY <1>2, <2>2
<1>9. CASE MountFails(c) \/ WriteBreaks(c)
  <2>1. Others /\ Goes
    BY <1>4, <1>9 DEF MountFails, WriteBreaks
  <2> QED
    BY <1>2, <2>1
<1>10. CASE process # "exited" /\ (Sess!tfs_mount(c) \/ Sess!tfs_unmount(c) \/ tfs_open(c)
                                     \/ Asks(c, "close") \/ Asks(c, "access")
                                     \/ tfs_shutdown_after_all_closed(c))
  <2>1. PICK op \in Ops0, stage \in {"opening", "reading"} :
          /\ Sess!Asks(c, op, stage) /\ client[c].stage \in {"new", "mounted"}
          /\ op = "shutdown" /\ Orderly => ~ShutdownAsked
    BY <1>10 DEF Sess!tfs_mount, Sess!tfs_unmount, tfs_open, Asks, tfs_shutdown_after_all_closed,
       Ops0, Called
  <2>2. Others /\ Calls(op)
    BY <1>3, <1>10, <2>1
  <2> QED
    BY <1>2, <2>2
<1> QED
  BY <1>6, <1>7, <1>8, <1>9, <1>10 DEF ClientStep, ReaderStep, ClientAsks

\* A request that is added to the pipe is its last, and the first is taken out.
LEMMA PipeMoves ==
    ASSUME TypeInv
    PROVE  /\ \A r \in Request : pipe' = Append(pipe, r) =>
                \A i \in DOMAIN pipe' : (i \in DOMAIN pipe /\ pipe'[i] = pipe[i]) \/ pipe'[i] = r
           /\ pipe # <<>> /\ pipe' = Tail(pipe) =>
                /\ 1 \in DOMAIN pipe /\ Head(pipe) = pipe[1] /\ Head(pipe) \in Request
                /\ \A i \in DOMAIN pipe' : \E j \in DOMAIN pipe : pipe'[i] = pipe[j]
<1>1. pipe \in Seq(Request) /\ Len(pipe) \in Nat /\ DOMAIN pipe = 1 .. Len(pipe)
  BY LenProperties DEF TypeInv
<1>2. ASSUME NEW r \in Request, pipe' = Append(pipe, r), NEW i \in DOMAIN pipe'
      PROVE  (i \in DOMAIN pipe /\ pipe'[i] = pipe[i]) \/ pipe'[i] = r
  <2>1. /\ pipe' \in Seq(Request) /\ Len(pipe') = Len(pipe) + 1
        /\ \A j \in 1 .. Len(pipe) : pipe'[j] = pipe[j]
        /\ pipe'[Len(pipe) + 1] = r
    BY <1>1, <1>2, AppendProperties
  <2>2. i \in 1 .. Len(pipe) + 1
    BY <1>2, <2>1, LenProperties
  <2> QED
    BY <1>1, <2>1, <2>2
<1>3. ASSUME pipe # <<>>, pipe' = Tail(pipe)
      PROVE  /\ 1 \in DOMAIN pipe /\ Head(pipe) = pipe[1] /\ Head(pipe) \in Request
             /\ \A i \in DOMAIN pipe' : \E j \in DOMAIN pipe : pipe'[i] = pipe[j]
  <2>1. /\ Head(pipe) \in Request /\ pipe' \in Seq(Request) /\ Len(pipe') = Len(pipe) - 1
        /\ \A i \in 1 .. Len(pipe') : pipe'[i] = pipe[i + 1]
    BY <1>1, <1>3, HeadTailProperties
  <2>2. DOMAIN pipe' = 1 .. Len(pipe') /\ Len(pipe') \in Nat
    BY <2>1, LenProperties
  <2>3. \A i \in DOMAIN pipe' : i + 1 \in DOMAIN pipe /\ pipe'[i] = pipe[i + 1]
    BY <1>1, <2>1, <2>2
  <2> QED
    BY <1>1, <2>1, <2>2, <2>3
<1> QED
  BY <1>2, <1>3

\* What the threads of the server do to the clients: at most they let one that
\* is opening go on, or answer.
KeptClients ==
    \A c \in Clients :
      /\ client'[c].op = client[c].op
      /\ client'[c].stage = client[c].stage \/ client[c].stage = "opening"
      /\ replies'[c] = <<>> => replies[c] = <<>>

LEMMA AnswersKeep ==
    ASSUME TypeInv, NEW d
    PROVE  /\ Sess!OpensPipe(d) =>
                \A c \in Clients : /\ client'[c].op = client[c].op
                                   /\ client'[c].stage = client[c].stage \/ client[c].stage = "opening"
           /\ \A req \in Request, val \in Int :
                Sess!WritesReply(d, req, val) =>
                  /\ d \in Clients => replies'[d] # <<>>
                  /\ \A c \in Clients : replies'[c] = <<>> => replies[c] = <<>>
<1>1. client \in [Clients -> ClientType] /\ replies \in [Clients -> Seq(Reply)]
  BY DEF TypeInv
<1>2. ASSUME Sess!OpensPipe(d), NEW c \in Clients
      PROVE  /\ client'[c].op = client[c].op
             /\ client'[c].stage = client[c].stage \/ client[c].stage = "opening"
  <2>1. \E stage : /\ client' = [client EXCEPT ![d].stage = stage]
                   /\ stage = client[d].stage \/ client[d].stage = "opening"
    BY <1>2 DEF Sess!OpensPipe
  <2> QED
    BY <1>1, <2>1 DEF ClientType
<1>3. ASSUME NEW req \in Request, NEW val \in Int, Sess!WritesReply(d, req, val)
      PROVE  /\ d \in Clients => replies'[d] # <<>>
             /\ \A c \in Clients : replies'[c] = <<>> => replies[c] = <<>>
  <2> DEFINE r == [op |-> req.op, client |-> req.client, val |-> val]
  <2>1. replies' = [replies EXCEPT ![d] = Append(replies[d], r)]
    BY <1>3 DEF Sess!WritesReply
  <2>2. r \in Reply
    BY DEF Request, Reply
  <2> HIDE DEF r
  <2>3. d \in Clients => Append(replies[d], r) # <<>>
    BY <1>1, <2>2, AppendProperties
  <2> QED
    BY <1>1, <2>1, <2>3
<1> QED
  BY <1>2, <1>3

\* The receiver takes the first request of the pipe, and hands it to a session.
LEMMA ReceiverMoves ==
    ASSUME TypeInv, ReceiverStep
    PROVE  /\ KeptClients /\ UNCHANGED <<opsVars, process>>
           /\ \A s \in Sessions :
                /\ worker'[s].req = worker[s].req
                /\ worker'[s].stage = worker[s].stage
                     \/ (worker[s].stage = "waiting" /\ worker'[s].stage = "signalled")
           /\ \A op, c : Pends(op, c)' => Pends(op, c)
<1>1. Sess!ReceiverNext /\ UNCHANGED <<opsVars, process>>
  BY DEF ReceiverStep
<1>2. /\ receiver \in ReceiverType /\ receiver.req \in Request
      /\ threadBuffers \in [Sessions -> BufferType] /\ worker \in [Sessions -> WorkerType]
  BY DEF TypeInv, ReceiverType
<1>3. CASE Sess!Receive
  <2>1. /\ pipe # <<>> /\ pipe' = Tail(pipe) /\ UNCHANGED <<threadBuffers, worker, client, replies>>
        /\ Sess!ReceiveMount \/ Sess!ReceiveOther
    BY <1>3 DEF Sess!Receive
  <2>2. /\ 1 \in DOMAIN pipe /\ Head(pipe) = pipe[1] /\ Head(pipe) \in Request
        /\ \A i \in DOMAIN pipe' : \E j \in DOMAIN pipe : pipe'[i] = pipe[j]
    BY <2>1, PipeMoves
  <2>3. receiver'.stage = "storing" =>
          receiver'.req.op = Head(pipe).op /\ receiver'.req.client = Head(pipe).client
    BY <2>1, <2>2 DEF Sess!ReceiveMount, Sess!ReceiveOther, Request
  <2>4. \A op, c : Pends(op, c)' => Pends(op, c)
    BY <2>1, <2>2, <2>3 DEF Pends
  <2> QED
    BY <1>1, <2>1, <2>4 DEF KeptClients
<1>4. CASE Sess!writeToBufferPC
  <2>1. /\ receiver.stage = "storing" /\ receiver'.stage = "signalling"
        /\ \E b : b = [readable |-> TRUE, info |-> receiver.req]
                  /\ threadBuffers' = [threadBuffers EXCEPT ![receiver.req.sessionID] = b]
        /\ UNCHANGED <<pipe, worker, client, replies>>
    BY <1>2, <1>4 DEF Sess!writeToBufferPC, ReceiverType
  <2>2. ASSUME NEW s \in Sessions
        PROVE  threadBuffers'[s] = threadBuffers[s] \/ threadBuffers'[s].info = receiver.req
    BY <1>2, <2>1
  <2>3. ASSUME NEW op, NEW c, Pends(op, c)' PROVE Pends(op, c)
    BY <2>1, <2>2, <2>3 DEF Pends
  <2> QED
    BY <1>1, <2>1, <2>3 DEF KeptClients
<1>5. CASE Sess!Signal
  <2>1. /\ receiver'.stage = "reading" /\ UNCHANGED <<pipe, threadBuffers, client, replies>>
        /\ \/ UNCHANGED worker
           \/ /\ worker[receiver.req.sessionID].stage = "waiting"
              /\ worker' = [worker EXCEPT ![receiver.req.sessionID].stage = "signalled"]
    BY <1>5 DEF Sess!Signal
  <2>2. ASSUME NEW s \in Sessions
        PROVE  /\ worker'[s].req = worker[s].req
               /\ worker'[s].stage = worker[s].stage
                    \/ (worker[s].stage = "waiting" /\ worker'[s].stage = "signalled")
    BY <1>2, <2>1 DEF WorkerType
  <2>3. ASSUME NEW op, NEW c, Pends(op, c)' PROVE Pends(op, c)
    BY <2>1, <2>2, <2>3 DEF Pends
  <2> QED
    BY <1>1, <2>1, <2>2, <2>3 DEF KeptClients
<1>6. CASE Sess!RefusalOpens \/ Sess!RefusalWrites
  <2>1. /\ receiver'.stage # "storing" /\ UNCHANGED <<pipe, threadBuffers, worker>>
        /\ \/ Sess!OpensPipe(receiver.req.client) /\ UNCHANGED replies
           \/ Sess!WritesReply(receiver.req.client, receiver.req, -1) /\ UNCHANGED client
           \/ UNCHANGED <<client, replies>>
    BY <1>2, <1>6 DEF Sess!RefusalOpens, Sess!RefusalWrites, ReceiverType
  <2>2. KeptClients
    BY <1>2, <2>1, AnswersKeep DEF KeptClients
  <2>3. \A op, c : Pends(op, c)' => Pends(op, c)
    BY <2>1 DEF Pends
  <2> QED
    BY <1>1, <2>1, <2>2, <2>3
<1> QED
  BY <1>1, <1>3, <1>4, <1>5, <1>6 DEF Sess!ReceiverNext

\* What a worker does: it takes a request, or goes on with the one it has.
LEMMA WorkerMoves ==
    ASSUME Running, NEW s \in Sessions, WorkerNext(s)
    PROVE  /\ KeptClients
           /\ \A t \in Sessions \ {s} : worker'[t] = worker[t]
           /\ \A op, c : Pends(op, c)' => Pends(op, c)
           /\ \/ worker'[s].stage \in {"waiting", "running", "unmounting", "unmounted", "checking"}
              \/ /\ worker'[s].stage \in {"replying", "executing", "exiting", "unlinked"}
                 /\ worker'[s].req = worker[s].req
<1>1. TypeInv /\ SP!SessInv /\ AskInv
  BY DEF Running
<1>2. /\ threadBuffers \in [Sessions -> BufferType] /\ worker \in [Sessions -> WorkerType]
      /\ worker[s] \in WorkerType /\ worker[s].req \in Request /\ threadBuffers[s] \in BufferType
  BY <1>1 DEF TypeInv, WorkerType
<1>3. worker[s].stage = "signalled" => threadBuffers[s].readable
  <2>1. CoarseWorker[s].stage = "signalled" <=> worker[s].stage = "signalled"
    BY <1>1, CoarseStages
  <2>2. CoarseBuffers[s].readable = threadBuffers[s].readable
    <3>1. CoarseBuffers[s] = CoarseBuffer(threadBuffers[s])
      BY <1>1, CoarseStages
    <3> QED
      BY <3>1 DEF CoarseBuffer
  <2>3. CoarseWorker[s].stage = "signalled" => CoarseBuffers[s].readable
    BY <1>1, Assumptions DEF SP!SessInv, SP!SessionInv, SP!SessionOK
  <2> QED
    BY <2>1, <2>2, <2>3
<1> DEFINE Conclusion ==
             /\ KeptClients
             /\ \A t \in Sessions \ {s} : worker'[t] = worker[t]
             /\ \A op, c : Pends(op, c)' => Pends(op, c)
             /\ \/ worker'[s].stage \in {"waiting", "running", "unmounting", "unmounted", "checking"}
                \/ /\ worker'[s].stage \in {"replying", "executing", "exiting", "unlinked"}
                   /\ worker'[s].req = worker[s].req
<1>4. ASSUME Sess!Takes(s), threadBuffers[s].readable, UNCHANGED <<pipe, receiver, client, replies>>
      PROVE  Conclusion
  <2> DEFINE w == [stage |-> "running", req |-> threadBuffers[s].info, fd |-> NoClient]
  <2>1. /\ worker' = [worker EXCEPT ![s] = w]
        /\ threadBuffers' = [threadBuffers EXCEPT ![s].readable = FALSE]
    BY <1>4 DEF Sess!Takes
  <2>2. w.req = threadBuffers[s].info /\ w.stage = "running"
    OBVIOUS
  <2> HIDE DEF w
  <2>3. /\ worker'[s] = w /\ \A t \in Sessions \ {s} : worker'[t] = worker[t]
        /\ ~threadBuffers'[s].readable
        /\ \A t \in Sessions \ {s} : threadBuffers'[t] = threadBuffers[t]
    BY <1>2, <2>1 DEF BufferType
  <2>4. ASSUME NEW op, NEW c, Pends(op, c)' PROVE Pends(op, c)
    BY <1>4, <2>2, <2>3, <2>4 DEF Pends
  <2> QED
    BY <1>4, <2>2, <2>3, <2>4 DEF KeptClients
<1>5. ASSUME NEW stage, NEW fd,
             worker' = [worker EXCEPT ![s] = [stage |-> stage, req |-> worker[s].req, fd |-> fd]],
             stage \in {"waiting", "replying", "executing", "unmounting", "unmounted", "checking",
                        "exiting", "unlinked"},
             UNCHANGED <<pipe, receiver, threadBuffers>>, KeptClients
      PROVE  Conclusion
  <2> DEFINE w == [stage |-> stage, req |-> worker[s].req, fd |-> fd]
  <2>1. w.stage = stage /\ w.req = worker[s].req /\ worker' = [worker EXCEPT ![s] = w]
    BY <1>5
  <2> HIDE DEF w
  <2>2. worker'[s] = w /\ \A t \in Sessions \ {s} : worker'[t] = worker[t]
    BY <1>2, <2>1
  <2>3. ASSUME NEW op, NEW c, Pends(op, c)' PROVE Pends(op, c)
    BY <1>5, <2>1, <2>2, <2>3 DEF Pends
  <2> QED
    BY <1>5, <2>1, <2>2, <2>3
<1>6. ASSUME NEW stage, worker' = [worker EXCEPT ![s].stage = stage],
             stage \in {"waiting", "replying", "executing", "unmounting", "unmounted", "checking",
                        "exiting", "unlinked"},
             UNCHANGED <<pipe, receiver, threadBuffers>>, KeptClients
      PROVE  Conclusion
  <2>1. [worker[s] EXCEPT !.stage = stage]
            = [stage |-> stage, req |-> worker[s].req, fd |-> worker[s].fd]
    BY <1>2 DEF WorkerType
  <2>2. worker' = [worker EXCEPT ![s] = [stage |-> stage, req |-> worker[s].req,
                                         fd |-> worker[s].fd]]
    BY <1>6, <2>1
  <2> HIDE DEF Conclusion
  <2> QED
    BY <1>5, <1>6, <2>2
<1>7. CASE Sess!ChecksBuffer(s) \/ Sess!Wakes(s)
  <2>1. UNCHANGED <<pipe, receiver, client, replies>>
    BY <1>7 DEF Sess!ChecksBuffer, Sess!Wakes
  <2>2. KeptClients
    BY <2>1 DEF KeptClients
  <2>3. \/ Sess!Takes(s) /\ threadBuffers[s].readable
        \/ worker' = [worker EXCEPT ![s].stage = "waiting"] /\ UNCHANGED threadBuffers
    BY <1>3, <1>7 DEF Sess!ChecksBuffer, Sess!Wakes, Sess!Turns
  <2> HIDE DEF Conclusion
  <2>4. Conclusion
    BY <1>4, <1>6, <2>1, <2>2, <2>3
  <2> QED
    BY <2>4 DEF Conclusion
<1>8. CASE Sess!MountOpens(s)
  <2>1. /\ UNCHANGED <<pipe, receiver, threadBuffers, replies>>
        /\ Sess!OpensPipe(worker[s].req.client)
        /\ worker' = [worker EXCEPT ![s] = [stage |-> "replying", req |-> worker[s].req,
                                            fd |-> worker[s].req.client]]
    BY <1>1, <1>8, WorkerAfter DEF Sess!MountOpens
  <2>2. KeptClients
    BY <1>1, <2>1, AnswersKeep DEF KeptClients
  <2> HIDE DEF Conclusion
  <2>3. Conclusion
    BY <1>5, <2>1, <2>2
  <2> QED
    BY <2>3 DEF Conclusion
<1>9. CASE Sess!UnmountFinishes(s)
  <2>1. /\ UNCHANGED <<pipe, receiver, threadBuffers, client, replies>>
        /\ worker' = [worker EXCEPT ![s] = [stage |-> "unmounting", req |-> worker[s].req,
                                            fd |-> clientsFHandle[s]]]
    BY <1>1, <1>9, WorkerAfter DEF Sess!UnmountFinishes
  <2>2. KeptClients
    BY <2>1 DEF KeptClients
  <2> HIDE DEF Conclusion
  <2>3. Conclusion
    BY <1>5, <2>1, <2>2
  <2> QED
    BY <2>3 DEF Conclusion
<1>10. CASE Replies(s) \/ Sess!UnmountReplies(s)
  <2>1. /\ UNCHANGED <<pipe, receiver, threadBuffers, client>>
        /\ \E stage \in {"checking", "exiting", "unmounted"} :
             worker' = [worker EXCEPT ![s].stage = stage]
        /\ \/ UNCHANGED replies
           \/ \E d : Sess!WritesReply(d, worker[s].req, s) \/ Sess!WritesReply(d, worker[s].req, 0)
    BY <1>10 DEF Replies, Sess!RepliesThen, Sess!UnmountReplies, Sess!Turns
  <2>2. \A c \in Clients : replies'[c] = <<>> => replies[c] = <<>>
    <3>1. s \in Int /\ 0 \in Int
      BY Assumptions
    <3>2. \A d : \A val \in Int : Sess!WritesReply(d, worker[s].req, val) =>
            \A c \in Clients : replies'[c] = <<>> => replies[c] = <<>>
      BY <1>1, <1>2, AnswersKeep
    <3> QED
      BY <2>1, <3>1, <3>2
  <2>3. KeptClients
    BY <2>1, <2>2 DEF KeptClients
  <2> HIDE DEF Conclusion
  <2>4. Conclusion
    BY <1>6, <2>1, <2>3
  <2> QED
    BY <2>4 DEF Conclusion
<1>11. CASE Sess!UnmountFinishesAgain(s) \/ Unlinks(s)
  <2>1. /\ UNCHANGED <<pipe, receiver, threadBuffers, client, replies>>
        /\ \E stage \in {"checking", "unlinked"} : worker' = [worker EXCEPT ![s].stage = stage]
    BY <1>11 DEF Sess!UnmountFinishesAgain, Unlinks, Sess!Turns
  <2>2. KeptClients
    BY <2>1 DEF KeptClients
  <2> HIDE DEF Conclusion
  <2>3. Conclusion
    BY <1>6, <2>1, <2>2
  <2> QED
    BY <2>3 DEF Conclusion
<1>12. ASSUME NEW op, Enters(s, op) PROVE Conclusion
  <2>1. /\ UNCHANGED <<pipe, receiver, threadBuffers, client, replies>>
        /\ worker' = [worker EXCEPT ![s] = [stage |-> "executing", req |-> worker[s].req,
                                            fd |-> clientsFHandle[s]]]
    BY <1>1, <1>12, WorkerAfter DEF Enters
  <2>2. KeptClients
    BY <2>1 DEF KeptClients
  <2> HIDE DEF Conclusion
  <2> QED
    BY <1>5, <2>1, <2>2
<1>13. CASE Executes(s) \/ Exits(s)
  <2>1. /\ UNCHANGED <<pipe, receiver, threadBuffers, client, replies>>
        /\ worker' = worker \/ worker' = [worker EXCEPT ![s].stage = "replying"]
        /\ worker[s].stage \in {"executing", "unlinked"}
    BY <1>13 DEF Executes, Exits, sessVars
  <2>2. KeptClients
    BY <2>1 DEF KeptClients
  <2>3. CASE worker' = worker
    BY <2>1, <2>2, <2>3 DEF Pends
  <2>4. CASE worker' = [worker EXCEPT ![s].stage = "replying"]
    <3> HIDE DEF Conclusion
    <3>1. Conclusion
      BY <1>6, <2>1, <2>2, <2>4
    <3> QED
      BY <3>1 DEF Conclusion
  <2> QED
    BY <2>1, <2>3, <2>4
<1> HIDE DEF Conclusion
<1>14. CASE handle_tfs_open(s) \/ handle_tfs_close(s) \/ handle_tfs_access(s)
              \/ handle_tfs_shutdown_after_all_closed(s)
  <2>1. \E op : Enters(s, op)
    BY <1>14 DEF handle_tfs_open, handle_tfs_close, handle_tfs_access,
       handle_tfs_shutdown_after_all_closed
  <2>2. Conclusion
    BY <1>12, <2>1
  <2> QED
    BY <2>2 DEF Conclusion
<1> QED
  BY <1>7, <1>8, <1>9, <1>10, <1>11, <1>13, <1>14 DEF WorkerNext

\* It executes or answers only what it had in hand.
LEMMA WorkerServes ==
    ASSUME Running, NEW s \in Sessions, WorkerNext(s), Served(s)'
    PROVE  Engaged(s)
<1>1. worker \in [Sessions -> WorkerType]
  BY DEF Running, TypeInv
<1>2. ASSUME NEW stage \in {"waiting", "checking", "unmounting", "unmounted", "exiting", "unlinked"},
             worker'[s].stage = stage
      PROVE  FALSE
  BY <1>2 DEF Served
<1>3. ASSUME NEW stage \in {"waiting", "checking", "unmounting", "unmounted", "exiting", "unlinked"},
             worker' = [worker EXCEPT ![s].stage = stage]
      PROVE  FALSE
  BY <1>1, <1>2, <1>3 DEF WorkerType
<1>4. ~(Sess!ChecksBuffer(s) \/ Sess!Wakes(s))
  <2>1. ASSUME Sess!Takes(s) PROVE FALSE
    BY <1>1, <2>1 DEF Sess!Takes, Served
  <2> QED
    BY <1>3, <2>1 DEF Sess!ChecksBuffer, Sess!Wakes, Sess!Turns
<1>5. ~Sess!UnmountFinishes(s)
  <2>1. ASSUME Sess!UnmountFinishes(s) PROVE worker'[s].stage = "unmounting"
    BY <1>1, <2>1, WorkerAfter DEF Running
  <2> QED
    BY <1>2, <2>1
<1>6. ~(Sess!UnmountReplies(s) \/ Sess!UnmountFinishesAgain(s) \/ Unlinks(s))
  BY <1>3 DEF Sess!UnmountReplies, Sess!UnmountFinishesAgain, Unlinks, Sess!Turns
<1>7. ~Exits(s)
  BY <1>2 DEF Exits, sessVars, Served
<1> QED
  BY <1>4, <1>5, <1>6, <1>7 DEF WorkerNext, handle_tfs_open, handle_tfs_close, handle_tfs_access,
     handle_tfs_shutdown_after_all_closed, Enters, Sess!MountOpens, Sess!Runs, Executes, Replies,
     Sess!RepliesThen, Engaged, Served

\* Whom a worker has in hand has nothing pending, but what it is about to begin.
LEMMA NothingPends ==
    ASSUME Running, NEW s \in Sessions, Engaged(s), NEW op
    PROVE  /\ Pends(op, worker[s].req.client) => worker[s].stage = "running" /\ worker[s].req.op = op
           /\ worker[s].stage = "running" => Pends(worker[s].req.op, worker[s].req.client)
<1>1. LET c == worker[s].req.client
      IN  /\ c \in Clients /\ ~threadBuffers[s].readable
          /\ \A i \in DOMAIN pipe : pipe[i].client # c
          /\ receiver.stage = "storing" => receiver.req.client # c
          /\ \A t \in Sessions :
               /\ threadBuffers[t].readable => threadBuffers[t].info.client # c
               /\ Engaged(t) /\ worker[t].req.client = c => t = s
  BY OneRequest
<1> QED
  BY <1>1 DEF Pends, Engaged

\* The client of a worker in a call asked for what is being done.
LEMMA WhoAsked ==
    ASSUME Running, AskedInv, NEW s \in Sessions, Engaged(s), worker[s].req.op \in Ops0
    PROVE  worker[s].req.client \in Clients /\ client[worker[s].req.client].op = worker[s].req.op
<1>1. worker[s].req.client \in Clients
  BY OneRequest
<1>2. worker[s].stage = "running" => Pends(worker[s].req.op, worker[s].req.client)
  BY NothingPends
<1> QED
  BY <1>1, <1>2 DEF AskedInv, Engaged

\* What is asked for remains what was asked for.
LEMMA AskedNext ==
    ASSUME Running, AskedInv, Next
    PROVE  AskedInv'
<1>1. TypeInv /\ AskInv /\ worker \in [Sessions -> WorkerType]
  BY DEF Running, TypeInv
<1>2. ASSUME NEW s \in Sessions PROVE worker[s].req.op \in Ops0
  BY <1>1 DEF WorkerType, Request
<1>3. ASSUME \A op, c : Pends(op, c)' => Pends(op, c), KeptClients,
             \A s \in Sessions : Served(s)' => Engaged(s) /\ worker'[s].req = worker[s].req
      PROVE  AskedInv'
  <2>1. ASSUME NEW s \in Sessions, Served(s)'
        PROVE  client'[worker'[s].req.client].op = worker'[s].req.op
    <3>1. Engaged(s) /\ worker'[s].req = worker[s].req
      BY <1>3, <2>1
    <3>2. worker[s].req.client \in Clients /\ client[worker[s].req.client].op = worker[s].req.op
      BY <1>2, <3>1, WhoAsked
    <3> QED
      BY <1>3, <3>1, <3>2 DEF KeptClients
  <2>2. ASSUME NEW op \in Ops0, NEW c \in Clients, Pends(op, c)' PROVE client'[c].op = op
    BY <1>3, <2>2 DEF KeptClients, AskedInv
  <2> QED
    BY <2>1, <2>2 DEF AskedInv
<1>4. ASSUME NEW c \in Clients, ClientStep(c) \/ ReaderStep(c) PROVE AskedInv'
  <2>1. /\ UNCHANGED <<receiver, threadBuffers, worker>>
        /\ \A d \in Clients \ {c} : client'[d] = client[d]
        /\ \/ UNCHANGED pipe /\ client'[c].op = client[c].op
           \/ \E op \in Ops0 :
                /\ client[c].stage \in {"new", "mounted"} /\ client'[c].op = op
                /\ pipe' = Append(pipe, [op |-> op, client |-> c, sessionID |-> client[c].session_id])
    BY <1>1, <1>4, ClientMoves
  <2>2. ASSUME NEW s \in Sessions, Served(s)' PROVE Engaged(s) /\ worker'[s] = worker[s]
    BY <2>1, <2>2 DEF Served, Engaged
  <2>3. CASE UNCHANGED pipe /\ client'[c].op = client[c].op
    <3>1. \A d \in Clients : client'[d].op = client[d].op
      BY <2>1, <2>3
    <3>2. \A op, d : Pends(op, d)' => Pends(op, d)
      BY <2>1, <2>3 DEF Pends
    <3>3. ASSUME NEW s \in Sessions, Served(s)'
          PROVE  client'[worker'[s].req.client].op = worker'[s].req.op
      <4>1. Engaged(s) /\ worker'[s] = worker[s]
        BY <2>2, <3>3
      <4>2. worker[s].req.client \in Clients /\ client[worker[s].req.client].op = worker[s].req.op
        BY <1>2, <4>1, WhoAsked
      <4> QED
        BY <3>1, <4>1, <4>2
    <3> QED
      BY <3>1, <3>2, <3>3 DEF AskedInv
  <2>4. ASSUME NEW op \in Ops0, client[c].stage \in {"new", "mounted"}, client'[c].op = op,
               pipe' = Append(pipe, [op |-> op, client |-> c, sessionID |-> client[c].session_id])
        PROVE  AskedInv'
    <3> DEFINE r == [op |-> op, client |-> c, sessionID |-> client[c].session_id]
    <3>1. r \in Request /\ r.op = op /\ r.client = c /\ pipe' = Append(pipe, r)
      BY <1>1, <2>4 DEF TypeInv, ClientType, Request
    <3> HIDE DEF r
    <3>2. \A i \in DOMAIN pipe' : (i \in DOMAIN pipe /\ pipe'[i] = pipe[i]) \/ pipe'[i] = r
      BY <1>1, <3>1, PipeMoves
    <3>3. /\ \A i \in DOMAIN pipe : pipe[i].client # c
          /\ receiver.stage = "storing" => receiver.req.client # c
          /\ \A s \in Sessions :
               /\ threadBuffers[s].readable => threadBuffers[s].info.client # c
               /\ Engaged(s) => worker[s].req.client # c
      BY <2>4, NoRequestYet
    <3>4. ASSUME NEW o \in Ops0, NEW d \in Clients, Pends(o, d)' PROVE client'[d].op = o
      <4>1. Pends(o, d) \/ (o = op /\ d = c)
        BY <2>1, <3>1, <3>2, <3>4 DEF Pends
      <4>2. d # c \/ ~Pends(o, d)
        BY <3>3 DEF Pends, Engaged
      <4> QED
        BY <2>1, <2>4, <4>1, <4>2 DEF AskedInv
    <3>5. ASSUME NEW s \in Sessions, Served(s)'
          PROVE  client'[worker'[s].req.client].op = worker'[s].req.op
      <4>1. Engaged(s) /\ worker'[s] = worker[s]
        BY <2>2, <3>5
      <4>2. worker[s].req.client \in Clients /\ client[worker[s].req.client].op = worker[s].req.op
        BY <1>2, <4>1, WhoAsked
      <4> QED
        BY <2>1, <3>3, <4>1, <4>2
    <3> QED
      BY <3>4, <3>5 DEF AskedInv
  <2> QED
    BY <2>1, <2>3, <2>4
<1>5. CASE ReceiverStep
  <2>1. /\ KeptClients /\ \A op, c : Pends(op, c)' => Pends(op, c)
        /\ \A s \in Sessions :
             /\ worker'[s].req = worker[s].req
             /\ worker'[s].stage = worker[s].stage
                  \/ (worker[s].stage = "waiting" /\ worker'[s].stage = "signalled")
    BY <1>1, <1>5, ReceiverMoves
  <2>2. \A s \in Sessions : Served(s)' => Engaged(s) /\ worker'[s].req = worker[s].req
    BY <2>1 DEF Served, Engaged
  <2> QED
    BY <1>3, <2>1, <2>2
<1>6. ASSUME NEW s \in Sessions, WorkerNext(s) PROVE AskedInv'
  <2>1. /\ KeptClients /\ \A op, c : Pends(op, c)' => Pends(op, c)
        /\ \A t \in Sessions \ {s} : worker'[t] = worker[t]
        /\ \/ worker'[s].stage \in {"waiting", "running", "unmounting", "unmounted", "checking"}
           \/ /\ worker'[s].stage \in {"replying", "executing", "exiting", "unlinked"}
              /\ worker'[s].req = worker[s].req
    BY <1>6, WorkerMoves
  <2>2. Served(s)' => Engaged(s)
    BY <1>6, <2>1, WorkerServes
  <2>3. \A t \in Sessions : Served(t)' => Engaged(t) /\ worker'[t].req = worker[t].req
    BY <2>1, <2>2 DEF Served, Engaged
  <2> QED
    BY <1>3, <2>1, <2>3
<1> QED
  BY <1>4, <1>5, <1>6 DEF Next, WorkerStep, Sessions

\* What a step of the library does to the counter and to the open files.
LEMMA CounterMoves ==
    ASSUME LibraryInv, NEW s \in Sessions, Ops!Steps(s)
    PROVE  /\ openFiles = -1 /\ taken = {} => UNCHANGED <<openFiles, taken>>
           /\ openFiles' < 0 => openFiles < 0 \/ pc[s] = "tfs_destroy"
           /\ pc[s] \in {"tfs_destroy", "cond_wait", "signalled"} /\ pc'[s] = "idle" =>
                openFiles' = -1 /\ taken' = {}
<1>1. /\ openFiles \in Int /\ taken \in SUBSET OP!Handles /\ pc \in [Sessions -> OP!Stages]
      /\ pc[s] = "tfs_destroy" => openFiles >= 0
      /\ pc[s] = "signalled" => openFiles = -1
  BY DEF LibraryInv, OP!TypeOK, OP!DestroyInv, Sessions
<1>2. openFiles = 0 \/ openFiles = -1 <=> taken = {}
  BY LibraryAssumption, OP!DrainedOrNot DEF LibraryInv
<1>3. CASE Ops!tfs_open(s)
  <2>1. /\ pc[s] = "tfs_open"
        /\ \/ UNCHANGED <<openFiles, taken>>
           \/ openFiles >= 0 /\ openFiles' = openFiles + 1
    BY <1>3 DEF Ops!tfs_open, Ops!Locks, Ops!OpenFails, Ops!OpenSucceeds, Ops!OpenRefused
  <2> QED
    BY <1>1, <2>1
<1>4. CASE Ops!tfs_close(s)
  <2>1. /\ pc[s] = "tfs_close"
        /\ \/ UNCHANGED <<openFiles, taken>>
           \/ taken # {} /\ openFiles' = IF openFiles > 0 THEN openFiles - 1 ELSE openFiles + 1
    BY <1>4 DEF Ops!tfs_close, Ops!Locks, Ops!CloseFails, Ops!CloseSucceeds, Ops!ForgetsHandle,
       Ops!AfterClose
  <2> QED
    BY <1>1, <1>2, <2>1
<1>5. CASE Ops!tfs_access(s) \/ Ops!DestroyResumes(s)
  BY <1>1, <1>2, <1>5 DEF Ops!tfs_access, Ops!DestroyResumes, Ops!Locks
<1>6. CASE Ops!tfs_destroy_after_all_closed(s)
  <2>1. /\ pc[s] = "tfs_destroy" /\ openFiles' = -(openFiles + 1) /\ UNCHANGED taken
        /\ pc'[s] = IF openFiles' # -1 THEN "cond_wait" ELSE "idle"
    BY <1>1, <1>6 DEF Ops!tfs_destroy_after_all_closed, Ops!Locks
  <2> QED
    BY <1>1, <1>2, <2>1
<1> QED
  BY <1>3, <1>4, <1>5, <1>6 DEF Ops!Steps

\* While a worker is about to begin the shutdown, no destruction is requested.
LEMMA NoneRequested ==
    ASSUME Running, AskedInv, OnceInv, LibraryInv, NEW s \in Sessions,
           worker[s].stage = "running", worker[s].req.op = "shutdown"
    PROVE  ~OP!DestroyRequested
<1>1. /\ worker[s].req.client \in Clients /\ client[worker[s].req.client].op = "shutdown"
      /\ Pends("shutdown", worker[s].req.client)
      /\ \A t \in Sessions :
           Engaged(t) /\ worker[t].req.client = worker[s].req.client => t = s
  <2>1. Engaged(s) /\ "shutdown" \in Ops0
    BY DEF Engaged, Ops0, Called
  <2>2. worker[s].req.client \in Clients /\ client[worker[s].req.client].op = "shutdown"
    BY <2>1, WhoAsked
  <2>3. Pends("shutdown", worker[s].req.client)
    BY <2>1, NothingPends
  <2> QED
    BY <2>1, <2>2, <2>3, OneRequest
<1>2. openFiles \in Int /\ ~(openFiles < 0)
  BY <1>1 DEF OnceInv, LibraryInv, OP!TypeOK
<1>3. ASSUME NEW t \in Sessions, pc[t] \in {"tfs_destroy", "cond_wait", "signalled"} PROVE FALSE
  <2>1. worker[t].stage = "executing" /\ worker[t].req.op = "shutdown"
    BY <1>3 DEF Running, CallInv
  <2>2. Engaged(t) /\ "shutdown" \in Ops0
    BY <2>1 DEF Engaged, Served, Ops0, Called
  <2>3. worker[t].req.client \in Clients /\ client[worker[t].req.client].op = "shutdown"
    BY <2>1, <2>2, WhoAsked
  <2>4. worker[t].req.client = worker[s].req.client
    BY <1>1, <2>3 DEF OnceInv
  <2> QED
    BY <1>1, <2>1, <2>2, <2>4
<1> QED
  BY <1>2, <1>3 DEF OP!DestroyRequested, OP!Destroying, Sessions

\* What the workers do to the library, TfsOperations allows.
LEMMA LibraryStep ==
    ASSUME Running, AskedInv, OnceInv, LibraryInv, NEW s \in Sessions, WorkerNext(s)
    PROVE  [OP!Next]_(OP!vars)
<1>0. Sessions = Sess!Sessions
  BY DEF Sessions
<1>1. ASSUME Ops!Steps(s) PROVE OP!Steps(s)
  <2>1. Ops!tfs_open(s) => OP!tfs_open(s)
    BY DEF Ops!tfs_open, Ops!Locks, Ops!OpenFails, Ops!OpenSucceeds, Ops!OpenRefused, Ops!Returns,
       Ops!FreeHandles, OP!tfs_open, OP!Locks, OP!OpenFails, OP!OpenSucceeds, OP!OpenRefused,
       OP!Returns, OP!FreeHandles
  <2>2. Ops!tfs_close(s) => OP!tfs_close(s)
    BY DEF Ops!tfs_close, Ops!Locks, Ops!CloseFails, Ops!CloseSucceeds, Ops!ForgetsHandle,
       Ops!AfterClose, Ops!SignalsIf, Ops!Returns, Ops!Waiters, OP!tfs_close, OP!Locks,
       OP!CloseFails, OP!CloseSucceeds, OP!ForgetsHandle, OP!AfterClose, OP!SignalsIf, OP!Returns,
       OP!Waiters
  <2>3. Ops!tfs_access(s) => OP!tfs_access(s)
    BY DEF Ops!tfs_access, Ops!Locks, Ops!Returns, OP!tfs_access, OP!Locks, OP!Returns
  <2>4. Ops!tfs_destroy_after_all_closed(s) => OP!tfs_destroy_after_all_closed(s)
    BY DEF Ops!tfs_destroy_after_all_closed, Ops!Locks, OP!tfs_destroy_after_all_closed, OP!Locks
  <2>5. Ops!DestroyResumes(s) => OP!DestroyResumes(s)
    BY DEF Ops!DestroyResumes, Ops!Locks, Ops!Returns, OP!DestroyResumes, OP!Locks, OP!Returns
  <2> QED
    BY <1>1, <2>1, <2>2, <2>3, <2>4, <2>5 DEF Ops!Steps, OP!Steps
<1>2. ASSUME OP!Calls(s) \/ OP!Steps(s) PROVE OP!Next
  BY <1>0, <1>2 DEF OP!Next
<1>3. CASE handle_tfs_open(s)
  <2>1. OP!CallOpen(s)
    BY <1>3 DEF handle_tfs_open, Ops!CallOpen, Ops!Call, OP!CallOpen, OP!Call
  <2> QED
    BY <1>2, <2>1 DEF OP!Calls
<1>4. CASE handle_tfs_close(s)
  <2>1. \E h \in OP!Handles : OP!CallClose(s, h)
    BY <1>4 DEF handle_tfs_close, Ops!CallClose, Ops!Call, Ops!Handles, OP!CallClose, OP!Call,
       OP!Handles
  <2> QED
    BY <1>2, <2>1 DEF OP!Calls
<1>5. CASE handle_tfs_access(s)
  <2>1. OP!CallAccess(s)
    BY <1>5 DEF handle_tfs_access, Ops!CallAccess, Ops!Call, OP!CallAccess, OP!Call
  <2> QED
    BY <1>2, <2>1 DEF OP!Calls
<1>6. CASE handle_tfs_shutdown_after_all_closed(s)
  <2>1. worker[s].stage = "running" /\ worker[s].req.op = "shutdown" /\ Ops!CallDestroy(s)
    BY <1>6 DEF handle_tfs_shutdown_after_all_closed, Enters, Sess!Runs
  <2>2. ~OP!DestroyRequested
    BY <2>1, NoneRequested
  <2>3. OP!CallDestroy(s)
    BY <2>1, <2>2 DEF Ops!CallDestroy, Ops!Call, OP!CallDestroy, OP!Call
  <2> QED
    BY <1>0, <1>2, <2>3 DEF OP!Calls
<1>7. CASE Executes(s)
  BY <1>1, <1>2, <1>7 DEF Executes
<1>8. CASE UNCHANGED opsVars
  BY <1>8 DEF opsVars, OP!vars
<1> QED
  BY <1>3, <1>4, <1>5, <1>6, <1>7, <1>8 DEF WorkerNext

\* So the library keeps its invariants.
LEMMA LibraryNext ==
    ASSUME Running, AskedInv, OnceInv, LibraryInv, process # "exited", [Next]_vars
    PROVE  LibraryInv'
<1>1. [OP!Next]_(OP!vars)
  <2>1. CASE UNCHANGED opsVars
    BY <2>1 DEF opsVars, OP!vars
  <2>2. CASE \E s \in Sessions : WorkerNext(s)
    BY <2>2, LibraryStep
  <2> QED
    BY <2>1, <2>2 DEF Next, vars, ReceiverStep, ClientStep, ReaderStep, WorkerStep, Sessions
<1>2. OP!Disciplined
  BY DEF OP!Disciplined
<1> QED
  BY <1>1, <1>2, LibraryAssumption, OP!TypesNext, OP!CountNext, OP!DestroyNext DEF LibraryInv

\* What a client does to the shutdown: it may ask for it, the first one and
\* before it has begun.
LEMMA ClientShutsDown ==
    ASSUME Orderly, TypeInv, AskInv, NEW c \in Clients, ClientStep(c) \/ ReaderStep(c)
    PROVE  /\ UNCHANGED <<worker, openFiles, taken, process>>
           /\ \A d \in Clients \ {c} : client'[d] = client[d] /\ replies'[d] = replies[d]
           /\ client'[c].op = "shutdown" =>
                \/ client[c].op = "shutdown" /\ client'[c].stage # "reading"
                \/ ~ShutdownAsked
           /\ openFiles < 0 => \A d : Pends("shutdown", d)' => Pends("shutdown", d)
<1>1. /\ UNCHANGED <<receiver, threadBuffers, worker, opsVars, process>>
      /\ \A d \in Clients \ {c} : client'[d] = client[d] /\ replies'[d] = replies[d]
      /\ \/ /\ UNCHANGED pipe /\ client'[c].op = client[c].op
            /\ client'[c].stage \in {"refused", "dead", "mounted", "left"}
         \/ \E op \in Ops0 :
              /\ client'[c].op = op
              /\ pipe' = Append(pipe, [op |-> op, client |-> c, sessionID |-> client[c].session_id])
              /\ op = "shutdown" /\ Orderly => ~ShutdownAsked
  BY ClientMoves
<1>2. UNCHANGED <<worker, openFiles, taken, process>>
  BY <1>1 DEF opsVars
<1>3. CASE /\ UNCHANGED pipe /\ client'[c].op = client[c].op
           /\ client'[c].stage \in {"refused", "dead", "mounted", "left"}
  <2>1. \A d : Pends("shutdown", d)' => Pends("shutdown", d)
    BY <1>1, <1>3 DEF Pends
  <2> QED
    BY <1>1, <1>2, <1>3, <2>1
<1>4. ASSUME NEW op \in Ops0, client'[c].op = op,
             pipe' = Append(pipe, [op |-> op, client |-> c, sessionID |-> client[c].session_id]),
             op = "shutdown" => ~ShutdownAsked
      PROVE  /\ client'[c].op = "shutdown" => ~ShutdownAsked
             /\ openFiles < 0 => \A d : Pends("shutdown", d)' => Pends("shutdown", d)
  <2> DEFINE r == [op |-> op, client |-> c, sessionID |-> client[c].session_id]
  <2>1. r \in Request /\ r.op = op /\ pipe' = Append(pipe, r)
    BY <1>4 DEF TypeInv, ClientType, Request
  <2> HIDE DEF r
  <2>2. \A i \in DOMAIN pipe' : (i \in DOMAIN pipe /\ pipe'[i] = pipe[i]) \/ pipe'[i] = r
    BY <2>1, PipeMoves
  <2>3. openFiles < 0 => op # "shutdown"
    BY <1>4 DEF ShutdownAsked
  <2>4. ASSUME openFiles < 0, NEW d, Pends("shutdown", d)' PROVE Pends("shutdown", d)
    BY <1>1, <2>1, <2>2, <2>3, <2>4 DEF Pends
  <2> QED
    BY <1>4, <2>4
<1> QED
  BY <1>1, <1>2, <1>3, <1>4

\* The shutdown is asked for by one client, and not once it has begun.
LEMMA OnceNext ==
    ASSUME Orderly, Running, AskedInv, OnceInv, LibraryInv, Next
    PROVE  OnceInv'
<1>0. TypeInv /\ AskInv /\ openFiles \in Int
  BY DEF Running, LibraryInv, OP!TypeOK
<1>1. ASSUME NEW c \in Clients, ClientStep(c) \/ ReaderStep(c) PROVE OnceInv'
  <2>1. /\ UNCHANGED openFiles
        /\ \A d \in Clients \ {c} : client'[d] = client[d]
        /\ client'[c].op = "shutdown" => client[c].op = "shutdown" \/ ~ShutdownAsked
        /\ openFiles < 0 => \A d : Pends("shutdown", d)' => Pends("shutdown", d)
    BY <1>0, <1>1, ClientShutsDown
  <2>2. \A d, e \in Clients : client'[d].op = "shutdown" /\ client'[e].op = "shutdown" => d = e
    BY <2>1 DEF OnceInv, ShutdownAsked
  <2> QED
    BY <2>1, <2>2 DEF OnceInv
<1>2. ASSUME KeptClients, \A op, c : Pends(op, c)' => Pends(op, c),
             openFiles' < 0 => openFiles < 0 \/ \A c \in Clients : ~Pends("shutdown", c)
      PROVE  OnceInv'
  BY <1>2 DEF OnceInv, KeptClients
<1>3. CASE ReceiverStep
  <2>1. KeptClients /\ UNCHANGED openFiles /\ \A op, c : Pends(op, c)' => Pends(op, c)
    BY <1>0, <1>3, ReceiverMoves DEF opsVars
  <2> QED
    BY <1>2, <2>1
<1>4. ASSUME NEW s \in Sessions, WorkerNext(s) PROVE OnceInv'
  <2>1. KeptClients /\ \A op, c : Pends(op, c)' => Pends(op, c)
    BY <1>4, WorkerMoves
  <2>2. ASSUME openFiles' < 0, ~(openFiles < 0), NEW c \in Clients, Pends("shutdown", c)
        PROVE  FALSE
    <3>1. Executes(s)
      BY <1>4, <2>2 DEF WorkerNext, opsVars, handle_tfs_open, handle_tfs_close, handle_tfs_access,
         handle_tfs_shutdown_after_all_closed, Ops!CallOpen, Ops!CallClose, Ops!CallAccess,
         Ops!CallDestroy, Ops!Call
    <3>2. worker[s].stage = "executing" /\ pc[s] = "tfs_destroy"
      BY <2>2, <3>1, CounterMoves DEF Executes
    <3>3. worker[s].req.op = "shutdown" /\ Engaged(s)
      BY <3>2 DEF Running, CallInv, Engaged, Served
    <3>4. /\ worker[s].req.client \in Clients /\ client[worker[s].req.client].op = "shutdown"
          /\ ~Pends("shutdown", worker[s].req.client)
      BY <3>2, <3>3, WhoAsked, NothingPends DEF Ops0, Called
    <3>5. client[c].op = "shutdown"
      BY <2>2 DEF AskedInv, Ops0, Called
    <3> QED
      BY <2>2, <3>4, <3>5 DEF OnceInv
  <2> QED
    BY <1>2, <2>1, <2>2
<1> QED
  BY <1>1, <1>3, <1>4 DEF Next, WorkerStep, Sessions

\* After the shutdown no file is open and nobody waits for it, whatever the
\* clients do: also once the process has exited.
LEMMA EndClient ==
    ASSUME Orderly, TypeInv, AskInv, EndInv, NEW c \in Clients, ClientStep(c) \/ ReaderStep(c)
    PROVE  EndInv'
<1>1. /\ UNCHANGED <<worker, openFiles, taken, process>>
      /\ \A d \in Clients \ {c} : client'[d] = client[d] /\ replies'[d] = replies[d]
      /\ client'[c].op = "shutdown" =>
           \/ client[c].op = "shutdown" /\ client'[c].stage # "reading"
           \/ ~ShutdownAsked
  BY ClientShutsDown
<1>2. (Over' <=> Over) /\ (Destroyed' <=> Destroyed)
  BY <1>1 DEF Over, Destroyed, Leaving
<1>3. ASSUME Over, NEW d \in Clients, client'[d].op = "shutdown", Waits(d)' PROVE FALSE
  <2>1. ShutdownAsked
    BY <1>3 DEF EndInv, Destroyed, ShutdownAsked
  <2> QED
    BY <1>1, <1>3, <2>1 DEF Waits, EndInv
<1> QED
  BY <1>1, <1>2, <1>3 DEF EndInv

\* Nobody begins to wait for the shutdown but who asks for it.
LEMMA NobodyWaits ==
    ASSUME Running, KeptClients, NEW c \in Clients, client'[c].op = "shutdown", Waits(c)'
    PROVE  client[c].op = "shutdown" /\ Waits(c)
<1>1. client[c].op = "shutdown" /\ replies[c] = <<>>
  BY DEF KeptClients, Waits
<1>2. client[c].stage # "opening"
  <2>1. /\ CoarseClient[c] = CoarseState(client[c])
        /\ CoarseClient[c].stage = "opening" <=> client[c].stage = "opening"
    BY CoarseStages DEF Running
  <2>2. CoarseClient[c].op = "call"
    BY <1>1, <2>1 DEF CoarseState, CoarseOp
  <2>3. CoarseClient[c].stage = "opening" => CoarseClient[c].op = "mount"
    BY DEF Running, SP!SessInv, SP!ClientInv, SP!ClientOK
  <2> QED
    BY <2>1, <2>2, <2>3
<1> QED
  BY <1>1, <1>2 DEF KeptClients, Waits

\* The receiver does not disturb the end.
LEMMA EndReceiver ==
    ASSUME Running, EndInv, ReceiverStep
    PROVE  EndInv'
<1>1. /\ KeptClients /\ UNCHANGED <<openFiles, taken, process>>
      /\ \A s \in Sessions :
           /\ worker'[s].req = worker[s].req
           /\ worker'[s].stage = worker[s].stage
                \/ (worker[s].stage = "waiting" /\ worker'[s].stage = "signalled")
  BY ReceiverMoves DEF Running, opsVars
<1>2. (Over' => Over) /\ (Destroyed' => Destroyed)
  BY <1>1 DEF Over, Destroyed, Leaving
<1> QED
  BY <1>1, <1>2, NobodyWaits DEF EndInv

\* A worker leaves its loop when it has answered the shutdown, and answers it
\* when the library has returned.
LEMMA WorkerLeaves ==
    ASSUME Running, NEW s \in Sessions, WorkerNext(s)
    PROVE  /\ Over' => Over \/ (Replies(s) /\ worker[s].req.op = "shutdown")
           /\ Destroyed' => \/ Destroyed
                            \/ Executes(s) /\ pc'[s] = "idle" /\ worker[s].req.op = "shutdown"
           /\ ~Executes(s) => UNCHANGED <<openFiles, taken>>
<1>1. /\ TypeInv /\ worker \in [Sessions -> WorkerType]
      /\ \A t \in Sessions \ {s} : worker'[t] = worker[t]
      /\ \/ worker'[s].stage \in {"waiting", "running", "unmounting", "unmounted", "checking"}
         \/ /\ worker'[s].stage \in {"replying", "executing", "exiting", "unlinked"}
            /\ worker'[s].req = worker[s].req
  BY WorkerMoves DEF Running, TypeInv
<1>2. ~Executes(s) => UNCHANGED <<openFiles, taken>>
  BY DEF WorkerNext, opsVars, handle_tfs_open, handle_tfs_close, handle_tfs_access,
     handle_tfs_shutdown_after_all_closed, Ops!CallOpen, Ops!CallClose, Ops!CallAccess,
     Ops!CallDestroy, Ops!Call
<1>3. CASE Unlinks(s) \/ Exits(s)
  <2>1. Leaving(s)
    BY <1>3 DEF Unlinks, Exits, Leaving
  <2> QED
    BY <1>2, <2>1 DEF Over, Destroyed
<1>4. ASSUME process' = process, ~Leaving(s)',
             (worker'[s].stage = "replying" /\ worker'[s].req.op = "shutdown") => Destroyed
      PROVE  (Over' => Over) /\ (Destroyed' => Destroyed)
  <2>1. Over' => Over
    BY <1>1, <1>4 DEF Over, Leaving
  <2>2. ASSUME NEW t \in Sessions, worker'[t].stage = "replying", worker'[t].req.op = "shutdown"
        PROVE  Destroyed
    BY <1>1, <1>4, <2>2 DEF Destroyed
  <2> QED
    BY <2>1, <2>2 DEF Destroyed
<1>5. CASE Executes(s)
  <2>1. /\ worker' = worker \/ worker' = [worker EXCEPT ![s].stage = "replying"]
        /\ pc'[s] # "idle" => worker' = worker
        /\ worker[s].stage = "executing" /\ process' = process
    BY <1>5 DEF Executes, WorkerNext, Exits, Unlinks, Enters, handle_tfs_open, handle_tfs_close,
       handle_tfs_access, handle_tfs_shutdown_after_all_closed, Sess!Runs
  <2>2. ~Leaving(s)' /\ worker'[s].req = worker[s].req
    BY <1>1, <2>1 DEF WorkerType, Leaving
  <2>3. pc'[s] # "idle" => worker'[s].stage # "replying"
    BY <2>1
  <2>4. CASE pc'[s] = "idle" /\ worker[s].req.op = "shutdown"
    <3>1. Over' => Over
      BY <1>1, <2>1, <2>2 DEF Over, Leaving
    <3> QED
      BY <1>5, <2>4, <3>1
  <2>5. CASE ~(pc'[s] = "idle" /\ worker[s].req.op = "shutdown")
    BY <1>4, <1>5, <2>1, <2>2, <2>3, <2>5
  <2> QED
    BY <2>4, <2>5
<1>6. CASE Replies(s) /\ process' = process
  <2>1. /\ worker[s].stage = "replying"
        /\ \E stage \in {"exiting", "checking"} :
             /\ worker' = [worker EXCEPT ![s].stage = stage]
             /\ stage = "exiting" => worker[s].req.op = "shutdown"
    BY <1>6 DEF Replies, Sess!RepliesThen, Sess!Turns
  <2>2. CASE worker[s].req.op = "shutdown"
    <3>1. Destroyed
      BY <2>1, <2>2 DEF Destroyed
    <3> QED
      BY <1>2, <1>6, <2>2, <3>1
  <2>3. CASE worker[s].req.op # "shutdown"
    <3>1. worker'[s].stage = "checking"
      BY <1>1, <2>1, <2>3 DEF WorkerType
    <3> QED
      BY <1>2, <1>4, <1>6, <3>1 DEF Leaving
  <2> QED
    BY <2>2, <2>3
<1>7. CASE Sess!MountOpens(s) /\ process' = process
  <2>1. worker[s].req.op = "mount" /\ worker'[s].stage = "replying" /\ worker'[s].req = worker[s].req
    <3>1. worker' = [worker EXCEPT ![s] = [stage |-> "replying", req |-> worker[s].req,
                                           fd |-> worker[s].req.client]]
      BY <1>1, <1>7, WorkerAfter
    <3> QED
      BY <1>1, <1>7, <3>1 DEF Sess!MountOpens, Sess!Runs
  <2> QED
    BY <1>2, <1>4, <1>7, <2>1 DEF Leaving
<1>8. ASSUME NEW op, Enters(s, op), process' = process
      PROVE  (Over' => Over) /\ (Destroyed' => Destroyed)
  <2>1. worker'[s].stage = "executing"
    <3>1. worker' = [worker EXCEPT ![s] = [stage |-> "executing", req |-> worker[s].req,
                                           fd |-> clientsFHandle[s]]]
      BY <1>1, <1>8, WorkerAfter
    <3> QED
      BY <1>1, <3>1
  <2> QED
    BY <1>4, <1>8, <2>1 DEF Leaving
<1>9. CASE /\ Sess!ChecksBuffer(s) \/ Sess!Wakes(s) \/ Sess!UnmountFinishes(s)
              \/ Sess!UnmountReplies(s) \/ Sess!UnmountFinishesAgain(s)
           /\ process' = process
  <2>1. worker'[s].stage \in {"waiting", "running", "unmounting", "unmounted", "checking"}
    <3>1. Sess!Takes(s) => worker'[s].stage = "running"
      BY <1>1 DEF Sess!Takes
    <3>2. Sess!UnmountFinishes(s) => worker'[s].stage = "unmounting"
      BY <1>1, WorkerAfter
    <3>3. ASSUME NEW stage \in {"waiting", "unmounted", "checking"},
                 worker' = [worker EXCEPT ![s].stage = stage]
          PROVE  worker'[s].stage \in {"waiting", "unmounted", "checking"}
      BY <1>1, <3>3 DEF WorkerType
    <3> QED
      BY <1>9, <3>1, <3>2, <3>3 DEF Sess!ChecksBuffer, Sess!Wakes, Sess!UnmountReplies,
         Sess!UnmountFinishesAgain, Sess!Turns
  <2> QED
    BY <1>2, <1>4, <1>9, <2>1 DEF Leaving
<1> QED
  BY <1>2, <1>3, <1>5, <1>6, <1>7, <1>8, <1>9 DEF WorkerNext, handle_tfs_open, handle_tfs_close,
     handle_tfs_access, handle_tfs_shutdown_after_all_closed

\* The workers.
LEMMA EndWorker ==
    ASSUME Running, Ordered, NEW s \in Sessions, WorkerNext(s)
    PROVE  EndInv'
<1>0. AskedInv /\ OnceInv /\ LibraryInv /\ EndInv /\ TypeInv
  BY DEF Ordered, Running
<1>1. ASSUME Destroyed' PROVE openFiles' = -1 /\ taken' = {}
  <2>1. CASE ~Executes(s)
    BY <1>0, <1>1, <2>1, WorkerLeaves DEF EndInv
  <2>2. CASE Executes(s)
    <3>1. worker[s].stage = "executing" /\ Ops!Steps(s)
      BY <2>2 DEF Executes
    <3>2. worker[s].req.op = "shutdown" => pc[s] \in {"tfs_destroy", "cond_wait", "signalled"}
      BY <3>1 DEF Running, CallInv
    <3>3. Destroyed => openFiles = -1 /\ taken = {}
      BY <1>0 DEF EndInv
    <3> QED
      BY <1>0, <1>1, <3>1, <3>2, <3>3, WorkerLeaves, CounterMoves
  <2> QED
    BY <2>1, <2>2
<1>2. ASSUME Over', NEW c \in Clients, client'[c].op = "shutdown", Waits(c)' PROVE FALSE
  <2>1. client[c].op = "shutdown" /\ Waits(c)
    BY <1>2, WorkerMoves, NobodyWaits
  <2>2. Replies(s) /\ worker[s].req.op = "shutdown"
    BY <1>0, <1>2, <2>1, WorkerLeaves DEF EndInv
  <2>3. worker[s].stage = "replying" /\ Engaged(s) /\ worker[s].req.op \in Ops0
    BY <2>2 DEF Replies, Sess!RepliesThen, Engaged, Served, Ops0, Called
  <2>4. worker[s].req.client \in Clients /\ client[worker[s].req.client].op = "shutdown"
    BY <1>0, <2>2, <2>3, WhoAsked
  <2>5. worker[s].req.client = c
    BY <1>0, <2>1, <2>4 DEF OnceInv
  <2>6. worker[s].fd = c
    BY <2>3, <2>5, OneRequest
  <2>7. Sess!WritesReply(c, worker[s].req, s)
    <3>1. Sess!Reachable(c)
      BY <2>1 DEF Sess!Reachable, Waits
    <3> QED
      BY <2>2, <2>6, <3>1 DEF Replies, Sess!RepliesThen
  <2>8. worker[s].req \in Request /\ s \in Int
    BY <1>0, Assumptions DEF TypeInv, WorkerType
  <2>9. replies'[c] # <<>>
    BY <1>0, <2>7, <2>8, AnswersKeep
  <2> QED
    BY <1>2, <2>9 DEF Waits
<1> QED
  BY <1>1, <1>2 DEF EndInv

-----------------------------------------------------------------------------
(* From the start to beyond the exit *)

LEMMA OrderedInit == Init => Ordered
<1> SUFFICES ASSUME Init PROVE Ordered
  OBVIOUS
<1>1. AskedInv /\ OnceInv /\ EndInv
  BY DEF Init, Sess!Init, Ops!Init, AskedInv, OnceInv, EndInv, Pends, Served, Destroyed, Over,
     Leaving, Sessions
<1>2. LibraryInv
  <2>1. OP!Init
    BY DEF Init, Ops!Init, OP!Init
  <2>2. OP!TypeOK
    BY <2>1, LibraryAssumption DEF OP!OperationsAssumption, OP!Init, OP!TypeOK, OP!Handles, OP!Stages
  <2>3. OP!CountMatches
    BY <2>1, <2>2, LibraryAssumption, OP!TakenCardinality DEF OP!Init, OP!TypeOK, OP!CountMatches
  <2>4. OP!DestroyInv
    BY <2>1 DEF OP!Init, OP!DestroyInv, OP!Destroying
  <2> QED
    BY <2>2, <2>3, <2>4 DEF LibraryInv
<1> QED
  BY <1>1, <1>2 DEF Ordered

LEMMA OrderedNext ==
    ASSUME Orderly, Running, Ordered, process # "exited", [Next]_vars
    PROVE  Ordered'
<1>1. AskedInv /\ OnceInv /\ LibraryInv /\ EndInv /\ TypeInv /\ AskInv
  BY DEF Ordered, Running
<1>2. LibraryInv'
  BY <1>1, LibraryNext
<1>3. CASE UNCHANGED vars
  BY <1>1, <1>2, <1>3 DEF vars, sessVars, opsVars, Ordered, AskedInv, OnceInv, EndInv, Pends, Served,
     Destroyed, Over, Leaving, Waits
<1>4. CASE Next
  <2>1. EndInv'
    BY <1>1, <1>4, EndClient, EndReceiver, EndWorker DEF Next, WorkerStep, Sessions
  <2> QED
    BY <1>1, <1>2, <1>4, <2>1, AskedNext, OnceNext DEF Ordered
<1> QED
  BY <1>3, <1>4

\* The clients go on after the exit.
LEMMA ExitedNext ==
    ASSUME Orderly, TypeInv, AskInv, CallInv, EndInv, process = "exited", [Next]_vars
    PROVE  TypeInv' /\ AskInv' /\ CallInv' /\ EndInv'
<1>1. CASE UNCHANGED vars
  BY <1>1 DEF vars, sessVars, opsVars, TypeInv, AskInv, CallInv, EndInv, Destroyed, Over, Leaving,
     Waits
<1>2. ASSUME NEW c \in Clients, ClientStep(c) \/ ReaderStep(c)
      PROVE  TypeInv' /\ AskInv' /\ CallInv' /\ EndInv'
  BY <1>2, ClientKeeps, EndClient
<1> QED
  BY <1>1, <1>2 DEF Next, ReceiverStep, WorkerStep, Alive

\* A shutdown that is asked for once, with nothing opened after that, ends the
\* server with no file open and with its caller answered.
THEOREM EndsInOrder == ASSUME SP!Orderly, Orderly PROVE Spec => []ExitsInOrder
<1> DEFINE Inv == /\ TypeInv /\ AskInv /\ CallInv /\ EndInv
                  /\ process # "exited" => Running /\ Ordered
<1>1. Init => Inv
  BY RunningInit, OrderedInit DEF Running, Ordered
<1>2. Inv /\ [Next]_vars => Inv'
  <2> SUFFICES ASSUME Inv, [Next]_vars PROVE Inv'
    OBVIOUS
  <2>1. CASE process = "exited"
    BY <2>1, ExitedNext, ExitIsFinal
  <2>2. CASE process # "exited"
    BY <2>2, RunningNext, OrderedNext DEF Running, Ordered
  <2> QED
    BY <2>1, <2>2
<1>3. Inv => ExitsInOrder
  BY DEF EndInv, Destroyed, Over, ExitsInOrder
<1> QED
  BY <1>1, <1>2, <1>3, PTL DEF Spec

=============================================================================
