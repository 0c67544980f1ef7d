-------------------------- MODULE TfsServer_proofs --------------------------
(***************************************************************************)
(* Proofs about TfsServer: that it implements TfsSessions until it exits.  *)
(* The invariants of TfsSessions are taken over from their proofs.         *)
(***************************************************************************)
EXTENDS TfsServer, SequenceTheorems, TLAPS

\* The sessions as TfsSessions sees them, with what is proved of them.
SP == INSTANCE TfsSessions_proofs WITH
    pipe <- CoarsePipe, receiver <- CoarseReceiver, threadBuffers <- CoarseBuffers,
    worker <- CoarseWorker, client <- CoarseClient, replies <- CoarseReplies

Sessions == Sess!Sessions

\* The constants of the two modules are those of this one.
LEMMA Assumptions ==
    /\ S \in Nat /\ Sessions = 0 .. S - 1 /\ SP!Sessions = Sessions
    /\ SP!SessionsAssumption
    /\ Free \notin Clients /\ Reserved \notin Clients /\ NoClient \notin Clients
    /\ Free # Reserved
BY ServerAssumption DEF Sessions, Sess!Sessions, SP!SessionsAssumption, SP!Sessions

-----------------------------------------------------------------------------
(* Types *)

Called == {"open", "close", "access", "shutdown"}
Ops0 == {"none", "mount", "unmount"} \cup Called
Request == [op : Ops0, client : Clients \cup {NoClient}, sessionID : Int]
Reply == [op : Ops0, client : Clients \cup {NoClient}, val : Int]
ReceiverType == [stage : {"reading", "storing", "signalling", "refusing", "refused", "exited"},
                 req : Request]
BufferType == [readable : BOOLEAN, info : Request]
WorkerType == [stage : {"starting", "checking", "waiting", "signalled", "running", "executing",
                        "replying", "unmounting", "unmounted", "exiting", "unlinked"},
               req : Request, fd : Clients \cup {NoClient, Free, Reserved}]
ClientType == [stage : {"new", "opening", "reading", "mounted", "left", "refused", "dead"},
               op : Ops0, session_id : Int]

TypeInv ==
    /\ pipe \in Seq(Request)
    /\ receiver \in ReceiverType
    /\ threadBuffers \in [Sessions -> BufferType]
    /\ worker \in [Sessions -> WorkerType]
    /\ client \in [Clients -> ClientType]
    /\ replies \in [Clients -> Seq(Reply)]
    /\ pc \in [Sessions -> Ops!Stages]

-----------------------------------------------------------------------------
(* What TfsSessions sees of a step *)

\* A request or reply keeps its fields but for what it asks.
LEMMA CoarseFields ==
    ASSUME NEW r, r \in Request \/ r \in Reply
    PROVE  /\ CoarseReq(r).op = CoarseOp(r.op) /\ CoarseReq(r).client = r.client
           /\ r \in Request => CoarseReq(r) = [op |-> CoarseOp(r.op), client |-> r.client,
                                               sessionID |-> r.sessionID]
           /\ r \in Reply => CoarseReq(r) = [op |-> CoarseOp(r.op), client |-> r.client,
                                             val |-> r.val]
BY DEF CoarseReq, Request, Reply

\* Which requests are told apart.
LEMMA CoarseOps ==
    ASSUME NEW op \in Ops0
    PROVE  /\ CoarseOp(op) \in {"none", "mount", "unmount", "call"}
           /\ CoarseOp(op) = "call" <=> op \in Called
           /\ \A o \in {"none", "mount", "unmount"} : CoarseOp(op) = o <=> op = o
BY DEF CoarseOp, Ops0, Called

\* The requests of a sequence, one by one.
LEMMA CoarseSeqIs ==
    ASSUME NEW T, NEW q \in Seq(T)
    PROVE  /\ CoarseSeq(q) \in Seq({CoarseReq(x) : x \in T})
           /\ Len(CoarseSeq(q)) = Len(q) /\ Len(q) \in Nat
           /\ DOMAIN q = 1 .. Len(q) /\ DOMAIN CoarseSeq(q) = 1 .. Len(q)
           /\ \A i \in 1 .. Len(q) : q[i] \in T /\ CoarseSeq(q)[i] = CoarseReq(q[i])
           /\ CoarseSeq(q) = <<>> <=> q = <<>>
<1> DEFINE n == Len(q)
           U == {CoarseReq(x) : x \in T}
<1>1. n \in Nat /\ DOMAIN q = 1 .. n /\ \A i \in 1 .. n : q[i] \in T
  BY LenProperties, ElementOfSeq
<1>2. CoarseSeq(q) = [i \in 1 .. n |-> CoarseReq(q[i])]
  BY <1>1 DEF CoarseSeq
<1>3. \A i \in 1 .. n : CoarseReq(q[i]) \in U
  BY <1>1
<1>4. CoarseSeq(q) \in Seq(U)
  <2> HIDE DEF U, n
  <2> QED
    BY <1>1, <1>2, <1>3, IsASeq
<1>5. DOMAIN CoarseSeq(q) = 1 .. n
  BY <1>2
<1>6. Len(CoarseSeq(q)) = n
  <2> HIDE DEF U, n
  <2> QED
    BY <1>1, <1>4, <1>5, LenProperties
<1>7. CoarseSeq(q) = <<>> <=> q = <<>>
  <2>1. CoarseSeq(q) = <<>> <=> n = 0
    <3> HIDE DEF U, n
    <3> QED
      BY <1>4, <1>6, EmptySeq
  <2> QED
    BY <2>1, EmptySeq
<1> QED
  BY <1>1, <1>2, <1>4, <1>5, <1>6, <1>7

\* A sequence of requests or replies with one more.
LEMMA CoarseAppend ==
    ASSUME NEW T, NEW q \in Seq(T), NEW e \in T
    PROVE  CoarseSeq(Append(q, e)) = Append(CoarseSeq(q), CoarseReq(e))
<1> DEFINE n == Len(q)
           U == {CoarseReq(x) : x \in T}
           a == CoarseSeq(Append(q, e))
           b == Append(CoarseSeq(q), CoarseReq(e))
<1>1. /\ Append(q, e) \in Seq(T) /\ Len(Append(q, e)) = n + 1
      /\ \A i \in 1 .. n : Append(q, e)[i] = q[i]
      /\ Append(q, e)[n + 1] = e
  BY AppendProperties
<1>2. /\ CoarseSeq(q) \in Seq(U) /\ Len(CoarseSeq(q)) = n /\ n \in Nat
      /\ \A i \in 1 .. n : CoarseSeq(q)[i] = CoarseReq(q[i])
  BY CoarseSeqIs
<1>3. /\ a \in Seq(U) /\ Len(a) = n + 1
      /\ \A i \in 1 .. n + 1 : a[i] = CoarseReq(Append(q, e)[i])
  BY <1>1, CoarseSeqIs
<1>4. CoarseReq(e) \in U
  OBVIOUS
<1>5. /\ b \in Seq(U) /\ Len(b) = n + 1 /\ b[n + 1] = CoarseReq(e)
      /\ \A i \in 1 .. n : b[i] = CoarseSeq(q)[i]
  <2> HIDE DEF U, n
  <2> QED
    BY <1>2, <1>4, AppendProperties
<1>6. \A i \in 1 .. n + 1 : a[i] = b[i]
  <2> HIDE DEF a, b, U, n
  <2>1. \A i \in 1 .. n + 1 : i \in 1 .. n \/ i = n + 1
    BY <1>2
  <2>2. \A i \in 1 .. n : a[i] = b[i]
    BY <1>1, <1>2, <1>3, <1>5
  <2>3. a[n + 1] = b[n + 1]
    BY <1>1, <1>2, <1>3, <1>5
  <2> QED
    BY <2>1, <2>2, <2>3
<1> HIDE DEF a, b, U, n
<1>7. a = b
  BY <1>3, <1>5, <1>6, SeqEqual
<1> QED
  BY <1>7 DEF a, b

\* A sequence of requests or replies without its first.
LEMMA CoarseTail ==
    ASSUME NEW T, NEW q \in Seq(T), q # <<>>
    PROVE  /\ CoarseSeq(Tail(q)) = Tail(CoarseSeq(q))
           /\ Head(CoarseSeq(q)) = CoarseReq(Head(q)) /\ Head(q) \in T /\ Tail(q) \in Seq(T)
<1> DEFINE n == Len(q)
           U == {CoarseReq(x) : x \in T}
           a == CoarseSeq(Tail(q))
           b == Tail(CoarseSeq(q))
<1>1. /\ Head(q) \in T /\ Tail(q) \in Seq(T) /\ Len(Tail(q)) = n - 1
      /\ \A i \in 1 .. Len(Tail(q)) : Tail(q)[i] = q[i + 1]
  BY HeadTailProperties
<1>2. /\ CoarseSeq(q) \in Seq(U) /\ Len(CoarseSeq(q)) = n /\ n \in Nat /\ CoarseSeq(q) # <<>>
      /\ \A i \in 1 .. n : CoarseSeq(q)[i] = CoarseReq(q[i])
  <2>1. /\ CoarseSeq(q) \in Seq(U) /\ Len(CoarseSeq(q)) = n /\ n \in Nat
        /\ \A i \in 1 .. n : CoarseSeq(q)[i] = CoarseReq(q[i])
    BY CoarseSeqIs
  <2>2. CoarseSeq(q) # <<>>
    BY CoarseSeqIs
  <2> QED
    BY <2>1, <2>2
<1>3. /\ a \in Seq(U) /\ Len(a) = n - 1 /\ n - 1 \in Nat
      /\ \A i \in 1 .. n - 1 : a[i] = CoarseReq(Tail(q)[i])
  BY <1>1, CoarseSeqIs
<1>4. /\ b \in Seq(U) /\ Len(b) = n - 1 /\ \A i \in 1 .. n - 1 : b[i] = CoarseSeq(q)[i + 1]
  <2> HIDE DEF U, n
  <2> QED
    BY <1>2, HeadTailProperties
<1>5. \A i \in 1 .. n - 1 : a[i] = b[i]
  <2> HIDE DEF a, b, U, n
  <2>1. \A i \in 1 .. n - 1 : i + 1 \in 1 .. n
    BY <1>2
  <2> QED
    BY <1>1, <1>2, <1>3, <1>4, <2>1
<1>6. Head(CoarseSeq(q)) = CoarseReq(Head(q))
  <2>1. 1 \in 1 .. n
    BY <1>2, <1>3
  <2>2. Head(CoarseSeq(q)) = CoarseSeq(q)[1] /\ Head(q) = q[1]
    BY <1>2
  <2> QED
    BY <1>2, <2>1, <2>2
<1> HIDE DEF a, b, U, n
<1>7. a = b
  BY <1>3, <1>4, <1>5, SeqEqual
<1> QED
  BY <1>1, <1>6, <1>7 DEF a, b

\* One or two fields of one entry of a table.
LEMMA EntryFields ==
    ASSUME NEW f, NEW x \in DOMAIN f
    PROVE  /\ \A a : [f EXCEPT ![x].stage = a] = [f EXCEPT ![x] = [f[x] EXCEPT !.stage = a]]
           /\ \A a, b : [f EXCEPT ![x].stage = a, ![x].op = b]
                         = [f EXCEPT ![x] = [f[x] EXCEPT !.stage = a, !.op = b]]
           /\ \A a, b : [f EXCEPT ![x].stage = a, ![x].fd = b]
                         = [f EXCEPT ![x] = [f[x] EXCEPT !.stage = a, !.fd = b]]
           /\ \A a, b : [f EXCEPT ![x].stage = a, ![x].session_id = b]
                         = [f EXCEPT ![x] = [f[x] EXCEPT !.stage = a, !.session_id = b]]
OBVIOUS

\* A record is its fields.
LEMMA OneClient ==
    \A x, y, z : \A r \in [stage : {x}, op : {y}, session_id : {z}] :
      r = [stage |-> x, op |-> y, session_id |-> z]
OBVIOUS

LEMMA OneWorker ==
    \A x, y, z : \A r \in [stage : {x}, req : {y}, fd : {z}] :
      r = [stage |-> x, req |-> y, fd |-> z]
OBVIOUS

\* One entry of a table changes.
LEMMA CoarseEntries ==
    ASSUME TypeInv
    PROVE  /\ \A c \in Clients : \A k :
                client' = [client EXCEPT ![c] = k] =>
                  CoarseClient' = [CoarseClient EXCEPT ![c] = CoarseState(k)]
           /\ \A s \in Sessions : \A w :
                worker' = [worker EXCEPT ![s] = w] =>
                  CoarseWorker' = [CoarseWorker EXCEPT ![s] = CoarseThread(w)]
           /\ \A s \in Sessions : \A b :
                threadBuffers' = [threadBuffers EXCEPT ![s] = b] =>
                  CoarseBuffers' = [CoarseBuffers EXCEPT ![s] = CoarseBuffer(b)]
           /\ \A c \in Clients : \A q :
                replies' = [replies EXCEPT ![c] = q] =>
                  CoarseReplies' = [CoarseReplies EXCEPT ![c] = CoarseSeq(q)]
BY DEF TypeInv, CoarseClient, CoarseWorker, CoarseBuffers, CoarseReplies, Sessions

\* And nothing of what does not change.
LEMMA CoarseSame ==
    /\ pipe' = pipe => CoarsePipe' = CoarsePipe
    /\ receiver' = receiver => CoarseReceiver' = CoarseReceiver
    /\ threadBuffers' = threadBuffers => CoarseBuffers' = CoarseBuffers
    /\ worker' = worker => CoarseWorker' = CoarseWorker
    /\ client' = client => CoarseClient' = CoarseClient
    /\ replies' = replies => CoarseReplies' = CoarseReplies
BY DEF CoarsePipe, CoarseReceiver, CoarseBuffers, CoarseWorker, CoarseClient, CoarseReplies

\* Who is in the library, and where its call will be answered.
CallInv ==
    \A s \in Sessions :
      LET w == worker[s]
      IN  /\ w.stage = "executing" <=> pc[s] # "idle"
          /\ w.stage = "executing" =>
               /\ w.req.op \in Called /\ w.fd = clientsFHandle[s]
               /\ pc[s] \in {"tfs_destroy", "cond_wait", "signalled"} <=> w.req.op = "shutdown"
          /\ w.stage = "running" => w.fd = NoClient
          /\ w.stage \in {"exiting", "unlinked"} => w.req.op = "shutdown"

\* A client that has asked nothing has no session.
AskInv ==
    \A c \in Clients :
      /\ client[c].op = "none" => client[c].stage \in {"new", "refused", "dead"}
      /\ client[c].stage = "new" => client[c].op = "none"

\* What is known of a server that has not exited.
Running == TypeInv /\ CallInv /\ AskInv /\ SP!TypeInv /\ SP!SessInv

\* A client that has asked something is in the stage that TfsSessions sees.
LEMMA CoarseStages ==
    ASSUME TypeInv, AskInv
    PROVE  /\ \A c \in Clients :
                /\ client[c] \in ClientType /\ CoarseClient[c] = CoarseState(client[c])
                /\ CoarseClient[c].session_id = client[c].session_id
                /\ \A st \in {"opening", "reading", "mounted", "left"} :
                     CoarseClient[c].stage = st <=> client[c].stage = st
                /\ client[c].stage = "new" => CoarseClient[c].stage = "new"
           /\ \A s \in Sessions :
                /\ worker[s] \in WorkerType /\ CoarseWorker[s] = CoarseThread(worker[s])
                /\ threadBuffers[s] \in BufferType /\ CoarseBuffers[s] = CoarseBuffer(threadBuffers[s])
                /\ CoarseWorker[s].req = CoarseReq(worker[s].req)
                /\ \A st \in {"starting", "waiting", "signalled", "replying", "unmounting",
                              "unmounted"} : CoarseWorker[s].stage = st <=> worker[s].stage = st
                /\ worker[s].stage \in {"running", "checking"} =>
                     CoarseWorker[s].stage = worker[s].stage
           /\ CoarseReceiver.stage = receiver.stage
           /\ CoarseReceiver.req = CoarseReq(receiver.req) /\ receiver.req \in Request
<1>1. ASSUME NEW c \in Clients
      PROVE  /\ client[c] \in ClientType /\ CoarseClient[c] = CoarseState(client[c])
             /\ CoarseClient[c].session_id = client[c].session_id
             /\ \A st \in {"opening", "reading", "mounted", "left"} :
                  CoarseClient[c].stage = st <=> client[c].stage = st
             /\ client[c].stage = "new" => CoarseClient[c].stage = "new"
  <2>1. client[c] \in ClientType /\ CoarseClient[c] = CoarseState(client[c])
    BY DEF TypeInv, CoarseClient
  <2> QED
    BY <2>1 DEF AskInv, CoarseState
<1>2. ASSUME NEW s \in Sessions
      PROVE  /\ worker[s] \in WorkerType /\ CoarseWorker[s] = CoarseThread(worker[s])
             /\ threadBuffers[s] \in BufferType /\ CoarseBuffers[s] = CoarseBuffer(threadBuffers[s])
             /\ CoarseWorker[s].req = CoarseReq(worker[s].req)
             /\ \A st \in {"starting", "waiting", "signalled", "replying", "unmounting",
                           "unmounted"} : CoarseWorker[s].stage = st <=> worker[s].stage = st
             /\ worker[s].stage \in {"running", "checking"} =>
                  CoarseWorker[s].stage = worker[s].stage
  <2>1. /\ worker[s] \in WorkerType /\ CoarseWorker[s] = CoarseThread(worker[s])
        /\ threadBuffers[s] \in BufferType /\ CoarseBuffers[s] = CoarseBuffer(threadBuffers[s])
    BY DEF TypeInv, CoarseWorker, CoarseBuffers, Sessions
  <2>2. CoarseWorker[s].stage = CoarseStage(worker[s].stage)
        /\ CoarseWorker[s].req = CoarseReq(worker[s].req)
    BY <2>1 DEF CoarseThread
  <2> QED
    BY <2>1, <2>2 DEF CoarseStage, WorkerType
<1>3. /\ CoarseReceiver.stage = receiver.stage
      /\ CoarseReceiver.req = CoarseReq(receiver.req) /\ receiver.req \in Request
  BY DEF TypeInv, CoarseReceiver, ReceiverType
<1> QED
  BY <1>1, <1>2, <1>3

-----------------------------------------------------------------------------
(* Steps of clients *)

\* A client that asks something asks it in TfsSessions.
LEMMA AsksCoarse ==
    ASSUME TypeInv, NEW c \in Clients, NEW op \in Ops0 \ {"none"},
           NEW stage \in {"opening", "reading"}, Sess!Asks(c, op, stage)
    PROVE  SP!Asks(c, CoarseOp(op), stage)
<1> DEFINE r == [op |-> op, client |-> c, sessionID |-> client[c].session_id]
           k == [stage |-> stage, op |-> op, session_id |-> client[c].session_id]
<1>1. client[c] \in ClientType
  BY DEF TypeInv
<1>2. r \in Request
  BY <1>1 DEF Request, ClientType
<1>3. /\ pipe' = Append(pipe, r)
      /\ client' = [client EXCEPT ![c].stage = stage, ![c].op = op]
      /\ UNCHANGED <<receiver, clientsFHandle, threadBuffers, worker, replies>>
  BY DEF Sess!Asks, Sess!server
<1>4. CoarsePipe' = Append(CoarsePipe, CoarseReq(r))
  <2> HIDE DEF r
  <2> QED
    BY <1>2, <1>3, CoarseAppend DEF CoarsePipe, TypeInv
<1>5. CoarseReq(r) = [op |-> CoarseOp(op), client |-> c, sessionID |-> client[c].session_id]
  BY <1>2, CoarseFields
<1>6. client' = [client EXCEPT ![c] = k]
  <2>1. c \in DOMAIN client
    BY DEF TypeInv
  <2>2. [client[c] EXCEPT !.stage = stage, !.op = op] = k
    <3>1. [client[c] EXCEPT !.stage = stage, !.op = op]
            \in [stage : {stage}, op : {op}, session_id : {client[c].session_id}]
      BY <1>1 DEF ClientType
    <3> QED
      BY <3>1, OneClient
  <2> HIDE DEF k
  <2> QED
    BY <1>3, <2>1, <2>2, EntryFields
<1>7. CoarseClient' = [CoarseClient EXCEPT ![c] = CoarseState(k)]
  <2> HIDE DEF k
  <2> QED
    BY <1>6, CoarseEntries
<1>8. CoarseClient[c] = CoarseState(client[c])
  BY DEF CoarseClient
<1>9. CoarseClient[c].session_id = client[c].session_id
  BY <1>8 DEF CoarseState
<1>10. CoarseState(k) = [stage |-> stage, op |-> CoarseOp(op), session_id |-> client[c].session_id]
  BY DEF CoarseState
<1>11. CoarseClient' = [CoarseClient EXCEPT ![c].stage = stage, ![c].op = CoarseOp(op)]
  <2>1. [CoarseClient EXCEPT ![c].stage = stage, ![c].op = CoarseOp(op)]
          = [CoarseClient EXCEPT ![c] = CoarseState(k)]
    <3>1. c \in DOMAIN CoarseClient
      BY DEF CoarseClient
    <3>2. [CoarseClient[c] EXCEPT !.stage = stage, !.op = CoarseOp(op)] = CoarseState(k)
      <4>1. CoarseClient[c] \in [stage : {CoarseClient[c].stage}, op : {CoarseClient[c].op},
                                 session_id : {client[c].session_id}]
        BY <1>8 DEF CoarseState
      <4>2. [CoarseClient[c] EXCEPT !.stage = stage, !.op = CoarseOp(op)]
              \in [stage : {stage}, op : {CoarseOp(op)}, session_id : {client[c].session_id}]
        BY <4>1
      <4> HIDE DEF k
      <4> QED
        BY <1>10, <4>2, OneClient
    <3> HIDE DEF k
    <3> QED
      BY <3>1, <3>2, EntryFields
  <2> QED
    BY <1>7, <2>1
<1>12. UNCHANGED <<CoarseReceiver, clientsFHandle, CoarseBuffers, CoarseWorker, CoarseReplies>>
  BY <1>3, CoarseSame
<1> QED
  BY <1>4, <1>5, <1>9, <1>11, <1>12 DEF SP!Asks, SP!server

\* A client whose stage changes, and what TfsSessions sees of it.
LEMMA BecomesCoarse ==
    ASSUME TypeInv, NEW c \in Clients, client[c].op # "none", NEW stage,
           client' = [client EXCEPT ![c].stage = stage]
    PROVE  CoarseClient' = [CoarseClient EXCEPT ![c].stage = stage]
<1> DEFINE k == [stage |-> stage, op |-> client[c].op, session_id |-> client[c].session_id]
<1>1. client[c] \in ClientType
  BY DEF TypeInv
<1>2. client' = [client EXCEPT ![c] = k]
  <2>1. c \in DOMAIN client
    BY DEF TypeInv
  <2>2. [client[c] EXCEPT !.stage = stage] = k
    BY <1>1 DEF ClientType
  <2> HIDE DEF k
  <2> QED
    BY <2>1, <2>2, EntryFields
<1>3. CoarseClient' = [CoarseClient EXCEPT ![c] = CoarseState(k)]
  <2> HIDE DEF k
  <2> QED
    BY <1>2, CoarseEntries
<1>4. CoarseClient[c] = CoarseState(client[c]) /\ c \in DOMAIN CoarseClient
  BY DEF CoarseClient
<1>5. CoarseState(k) = [CoarseClient[c] EXCEPT !.stage = stage]
  BY <1>4 DEF CoarseState
<1> QED
  BY <1>3, <1>4, <1>5

LEMMA DiesCoarse ==
    ASSUME TypeInv, AskInv, NEW c \in Clients, Sess!Dies(c)
    PROVE  SP!Dies(c)
<1>1. /\ client[c].stage \in {"opening", "reading", "mounted"} /\ Deaths
      /\ client' = [client EXCEPT ![c].stage = "dead"]
      /\ UNCHANGED <<pipe, receiver, clientsFHandle, threadBuffers, worker, replies>>
  BY DEF Sess!Dies, Sess!server
<1>2. client[c].op # "none"
  BY <1>1 DEF AskInv
<1>3. CoarseClient' = [CoarseClient EXCEPT ![c].stage = "dead"]
  BY <1>1, <1>2, BecomesCoarse
<1>4. CoarseClient[c].stage \in {"opening", "reading", "mounted"}
  BY <1>1, CoarseStages
<1>5. UNCHANGED <<CoarsePipe, CoarseReceiver, clientsFHandle, CoarseBuffers, CoarseWorker,
                  CoarseReplies>>
  BY <1>1, CoarseSame
<1> QED
  BY <1>1, <1>3, <1>4, <1>5 DEF SP!Dies, SP!server

\* A client reads a reply.
LEMMA ReadsCoarse ==
    ASSUME TypeInv, AskInv, NEW c \in Clients, Sess!Reads(c)
    PROVE  SP!Reads(c)
<1> DEFINE val == Head(replies[c]).val
           op == client[c].op
           stage == Sess!StageAfter(op, val)
           id == IF op = "mount" THEN val ELSE client[c].session_id
           k == [stage |-> stage, op |-> op, session_id |-> id]
           m == [stage |-> stage, op |-> CoarseOp(op), session_id |-> id]
<1>1. /\ client[c].stage = "reading" /\ replies[c] # <<>>
      /\ client' = [client EXCEPT ![c].stage = stage, ![c].session_id = id]
      /\ replies' = [replies EXCEPT ![c] = Tail(replies[c])]
      /\ UNCHANGED <<pipe, receiver, clientsFHandle, threadBuffers, worker>>
  BY DEF Sess!Reads, Sess!server
<1>2. client[c] \in ClientType /\ c \in DOMAIN client /\ op # "none" /\ op \in Ops0
  BY <1>1 DEF TypeInv, ClientType, AskInv
<1>3. client' = [client EXCEPT ![c] = k]
  <2>1. [client[c] EXCEPT !.stage = stage, !.session_id = id] = k
    <3> HIDE DEF stage, id
    <3>1. [client[c] EXCEPT !.stage = stage, !.session_id = id]
            \in [stage : {stage}, op : {op}, session_id : {id}]
      BY <1>2 DEF ClientType
    <3> QED
      BY <3>1, OneClient
  <2> HIDE DEF k, stage, id
  <2> QED
    BY <1>1, <1>2, <2>1, EntryFields
<1>4. CoarseClient' = [CoarseClient EXCEPT ![c] = m]
  <2>1. CoarseClient' = [CoarseClient EXCEPT ![c] = CoarseState(k)]
    <3> HIDE DEF k
    <3> QED
      BY <1>3, CoarseEntries
  <2>2. CoarseState(k) = m
    BY <1>2 DEF CoarseState
  <2> QED
    BY <2>1, <2>2
<1>5. /\ CoarseClient[c].stage = "reading" /\ CoarseClient[c].op = CoarseOp(op)
      /\ CoarseClient[c].session_id = client[c].session_id
      /\ CoarseClient[c] \in [stage : {"reading"}, op : {CoarseOp(op)},
                              session_id : {client[c].session_id}]
  BY <1>1, <1>2 DEF CoarseClient, CoarseState
<1>6. /\ replies[c] \in Seq(Reply)
      /\ CoarseReplies[c] = CoarseSeq(replies[c]) /\ CoarseReplies[c] # <<>>
      /\ CoarseSeq(Tail(replies[c])) = Tail(CoarseReplies[c])
      /\ Head(CoarseReplies[c]).val = val
  <2>1. replies[c] \in Seq(Reply) /\ CoarseReplies[c] = CoarseSeq(replies[c])
    BY DEF TypeInv, CoarseReplies
  <2>2. /\ CoarseSeq(Tail(replies[c])) = Tail(CoarseSeq(replies[c]))
        /\ Head(CoarseSeq(replies[c])) = CoarseReq(Head(replies[c])) /\ Head(replies[c]) \in Reply
    BY <1>1, <2>1, CoarseTail
  <2>3. CoarseReq(Head(replies[c])).val = val
    BY <2>2, CoarseFields
  <2>4. CoarseSeq(replies[c]) # <<>>
    BY <1>1, <2>1, CoarseSeqIs
  <2> QED
    BY <2>1, <2>2, <2>3, <2>4
<1>7. CoarseReplies' = [CoarseReplies EXCEPT ![c] = Tail(CoarseReplies[c])]
  <2>1. CoarseReplies' = [CoarseReplies EXCEPT ![c] = CoarseSeq(Tail(replies[c]))]
    BY <1>1, CoarseEntries
  <2> QED
    BY <1>6, <2>1
<1>8. SP!StageAfter(CoarseOp(op), val) = stage /\ (CoarseOp(op) = "mount" <=> op = "mount")
  BY <1>2 DEF SP!StageAfter, Sess!StageAfter, CoarseOp, Ops0, Called
<1>9. CoarseClient' = [CoarseClient EXCEPT
                         ![c].stage = SP!StageAfter(CoarseOp(op), val),
                         ![c].session_id = IF CoarseOp(op) = "mount" THEN val ELSE @]
  <2>1. [CoarseClient[c] EXCEPT !.stage = stage, !.session_id = id] = m
    <3> HIDE DEF stage, id
    <3>1. [CoarseClient[c] EXCEPT !.stage = stage, !.session_id = id]
            \in [stage : {stage}, op : {CoarseOp(op)}, session_id : {id}]
      BY <1>5
    <3> QED
      BY <3>1, OneClient
  <2>2. c \in DOMAIN CoarseClient
    BY DEF CoarseClient
  <2>3. CoarseClient' = [CoarseClient EXCEPT ![c].stage = stage, ![c].session_id = id]
    <3> HIDE DEF m, stage, id
    <3> QED
      BY <1>4, <2>1, <2>2, EntryFields
  <2>4. id = IF CoarseOp(op) = "mount" THEN val ELSE CoarseClient[c].session_id
    BY <1>5, <1>8
  <2> HIDE DEF stage, id, op, val
  <2> QED
    BY <1>8, <2>3, <2>4
<1>10. UNCHANGED <<CoarsePipe, CoarseReceiver, clientsFHandle, CoarseBuffers, CoarseWorker>>
  BY <1>1, CoarseSame
<1> HIDE DEF stage, id, val, op
<1> QED
  BY <1>5, <1>6, <1>7, <1>9, <1>10 DEF SP!Reads, SP!server

-----------------------------------------------------------------------------
(* Steps of the receiver *)

\* A worker whose stage changes, alone or with the pipe it answers to, and what
\* TfsSessions sees of it.
LEMMA TurnsCoarse ==
    ASSUME TypeInv, NEW s \in Sessions, NEW stage, stage # "executing",
           worker[s].stage # "executing" \/ worker[s].fd = NoClient,
           worker' = [worker EXCEPT ![s].stage = stage]
    PROVE  CoarseWorker' = [CoarseWorker EXCEPT ![s].stage = CoarseStage(stage)]
<1> DEFINE w == [stage |-> stage, req |-> worker[s].req, fd |-> worker[s].fd]
<1>1. worker[s] \in WorkerType /\ s \in DOMAIN worker
  BY DEF TypeInv
<1>2. worker' = [worker EXCEPT ![s] = w]
  <2>1. [worker[s] EXCEPT !.stage = stage] = w
    BY <1>1 DEF WorkerType
  <2> HIDE DEF w
  <2> QED
    BY <1>1, <2>1, EntryFields
<1>3. CoarseWorker' = [CoarseWorker EXCEPT ![s] = CoarseThread(w)]
  <2> HIDE DEF w
  <2> QED
    BY <1>2, CoarseEntries
<1>4. CoarseWorker[s] = CoarseThread(worker[s]) /\ s \in DOMAIN CoarseWorker
  BY DEF CoarseWorker, Sessions
<1>5. CoarseThread(w) = [CoarseWorker[s] EXCEPT !.stage = CoarseStage(stage)]
  BY <1>4 DEF CoarseThread
<1> QED
  BY <1>3, <1>4, <1>5

\* No request is none to TfsSessions too.
LEMMA NoCoarse ==
    /\ SP!NoRequest = Sess!NoRequest /\ CoarseReq(Sess!NoRequest) = SP!NoRequest
    /\ Sess!NoRequest \in Request
BY DEF SP!NoRequest, Sess!NoRequest, CoarseReq, CoarseOp, Request, Ops0

\* The server opens the pipe of a client.
LEMMA OpensCoarse ==
    ASSUME TypeInv, AskInv, NEW c \in Clients, Sess!OpensPipe(c)
    PROVE  SP!OpensPipe(c)
<1> DEFINE stage == IF client[c].stage = "opening" THEN "reading" ELSE client[c].stage
<1>1. /\ client[c].stage \in {"opening", "reading", "mounted"}
      /\ client' = [client EXCEPT ![c].stage = stage]
  BY DEF Sess!OpensPipe
<1>2. client[c].op # "none"
  BY <1>1 DEF AskInv
<1>3. CoarseClient' = [CoarseClient EXCEPT ![c].stage = stage]
  <2> HIDE DEF stage
  <2> QED
    BY <1>1, <1>2, BecomesCoarse
<1>4. CoarseClient[c].stage = client[c].stage
  BY <1>2 DEF CoarseClient, CoarseState
<1> QED
  BY <1>1, <1>3, <1>4 DEF SP!OpensPipe

\* It writes a reply.
LEMMA WritesCoarse ==
    ASSUME TypeInv, NEW c \in Clients, NEW req \in Request, NEW val \in Int,
           Sess!WritesReply(c, req, val)
    PROVE  SP!WritesReply(c, CoarseReq(req), val)
<1> DEFINE r == [op |-> req.op, client |-> req.client, val |-> val]
<1>1. replies' = [replies EXCEPT ![c] = Append(replies[c], r)]
  BY DEF Sess!WritesReply
<1>2. r \in Reply /\ replies[c] \in Seq(Reply) /\ CoarseReplies[c] = CoarseSeq(replies[c])
  BY DEF TypeInv, Request, Reply, CoarseReplies
<1>3. CoarseReq(r) = [op |-> CoarseReq(req).op, client |-> CoarseReq(req).client, val |-> val]
  BY <1>2, CoarseFields
<1> HIDE DEF r
<1>4. CoarseReplies' = [CoarseReplies EXCEPT ![c] = CoarseSeq(Append(replies[c], r))]
  BY <1>1, CoarseEntries
<1>5. CoarseSeq(Append(replies[c], r)) = Append(CoarseReplies[c], CoarseReq(r))
  BY <1>2, CoarseAppend
<1> QED
  BY <1>3, <1>4, <1>5 DEF SP!WritesReply

\* A pipe can be written to or not, whoever looks.
LEMMA ReachableCoarse ==
    ASSUME TypeInv, AskInv, NEW c
    PROVE  SP!Reachable(c) <=> Sess!Reachable(c)
BY CoarseStages DEF SP!Reachable, Sess!Reachable

\* The receiver takes a request out of the pipe.
LEMMA ReceiveCoarse ==
    ASSUME TypeInv, AskInv, Sess!Receive
    PROVE  SP!Receive
<1> DEFINE r == Head(pipe)
<1>1. /\ receiver.stage = "reading" /\ pipe # <<>> /\ (SettledStart => Sess!Settled)
      /\ Sess!ReceiveMount \/ Sess!ReceiveOther
      /\ pipe' = Tail(pipe)
      /\ UNCHANGED <<threadBuffers, worker, client, replies>>
  BY DEF Sess!Receive
<1>2. /\ CoarsePipe # <<>> /\ CoarsePipe' = Tail(CoarsePipe) /\ Head(CoarsePipe) = CoarseReq(r)
      /\ r \in Request
  <2>1. pipe \in Seq(Request)
    BY DEF TypeInv
  <2>2. CoarseSeq(Tail(pipe)) = Tail(CoarseSeq(pipe)) /\ Head(CoarseSeq(pipe)) = CoarseReq(r)
        /\ r \in Request
    BY <1>1, <2>1, CoarseTail
  <2>3. CoarseSeq(pipe) # <<>>
    BY <1>1, <2>1, CoarseSeqIs
  <2>4. CoarsePipe' = CoarseSeq(Tail(pipe)) /\ CoarsePipe = CoarseSeq(pipe)
    BY <1>1 DEF CoarsePipe
  <2> QED
    BY <2>2, <2>3, <2>4
<1> HIDE DEF r
<1>3. CoarseReceiver.stage = "reading"
  BY <1>1, CoarseStages
<1>4. (SettledStart => SP!Settled) /\ (Sess!HandingOver <=> SP!HandingOver)
  BY <1>1, CoarseStages, Assumptions DEF Sess!Settled, SP!Settled, Sess!HandingOver,
     SP!HandingOver, Sessions
<1>5. Sess!FreeSessions = SP!FreeSessions /\ SP!FreeSessions \subseteq Sessions
  BY Assumptions DEF Sess!FreeSessions, SP!FreeSessions, Sessions
<1>6. /\ CoarseReq(r).op = CoarseOp(r.op) /\ (CoarseReq(r).op = "mount" <=> r.op = "mount")
      /\ \A s : CoarseReq([r EXCEPT !.sessionID = s]) = [CoarseReq(r) EXCEPT !.sessionID = s]
  BY <1>2, CoarseFields, CoarseOps DEF CoarseReq, Request
<1>7. \A q : receiver' = q => CoarseReceiver' = [stage |-> q.stage, req |-> CoarseReq(q.req)]
  BY DEF CoarseReceiver
<1>8. SP!ReceiveMount \/ SP!ReceiveOther
  <2>1. CASE Sess!ReceiveOther
    BY <1>2, <1>6, <1>7, <2>1 DEF r, Sess!ReceiveOther, SP!ReceiveOther
  <2>2. CASE Sess!ReceiveMount
    <3>1. r.op = "mount" /\ (QuietHandover => ~Sess!HandingOver)
      BY <2>2 DEF r, Sess!ReceiveMount
    <3>2. ASSUME NEW s \in Sess!FreeSessions, \A t \in Sess!FreeSessions : s <= t,
                 clientsFHandle' = [clientsFHandle EXCEPT ![s] = Reserved],
                 receiver' = [stage |-> "storing", req |-> [r EXCEPT !.sessionID = s]]
          PROVE  SP!ReceiveMount
      <4>1. CoarseReceiver' = [stage |-> "storing", req |-> CoarseReq([r EXCEPT !.sessionID = s])]
        BY <3>2 DEF CoarseReceiver
      <4>2. CoarseReceiver' = [stage |-> "storing",
                               req |-> [Head(CoarsePipe) EXCEPT !.sessionID = s]]
        BY <1>2, <1>6, <4>1
      <4> QED
        BY <1>2, <1>4, <1>5, <1>6, <3>1, <3>2, <4>2 DEF SP!ReceiveMount
    <3>3. ASSUME Sess!FreeSessions = {}, receiver' = [stage |-> "refusing", req |-> r],
                 UNCHANGED clientsFHandle
          PROVE  SP!ReceiveMount
      BY <1>2, <1>4, <1>5, <1>6, <1>7, <3>1, <3>3 DEF SP!ReceiveMount
    <3> QED
      BY <2>2, <3>2, <3>3 DEF Sess!ReceiveMount, r
  <2> QED
    BY <1>1, <2>1, <2>2
<1>9. UNCHANGED <<CoarseBuffers, CoarseWorker, CoarseClient, CoarseReplies>>
  BY <1>1, CoarseSame
<1> QED
  BY <1>2, <1>3, <1>4, <1>8, <1>9 DEF SP!Receive

\* A request in hand is of a session or of a client that there is.
LEMMA InHandIs ==
    ASSUME TypeInv, AskInv, SP!SessInv
    PROVE  /\ receiver.stage \in {"storing", "signalling"} => receiver.req.sessionID \in Sessions
           /\ receiver.stage \in {"refusing", "refused"} => receiver.req.client \in Clients
           /\ CoarseReceiver.req.sessionID = receiver.req.sessionID
           /\ CoarseReceiver.req.client = receiver.req.client
<1>1. /\ CoarseReceiver.stage = receiver.stage
      /\ CoarseReceiver.req.sessionID = receiver.req.sessionID
      /\ CoarseReceiver.req.client = receiver.req.client
  BY CoarseStages, CoarseFields
<1> QED
  BY <1>1, Assumptions DEF SP!SessInv, SP!ReceiverInv, SP!InHand, SP!Asked

LEMMA WriteToBufferCoarse ==
    ASSUME TypeInv, AskInv, SP!SessInv, Sess!writeToBufferPC
    PROVE  SP!writeToBufferPC
<1> DEFINE s == receiver.req.sessionID
           b == [readable |-> TRUE, info |-> receiver.req]
<1>1. /\ receiver.stage = "storing" /\ Sess!MutexFree(s)
      /\ threadBuffers' = [threadBuffers EXCEPT ![s] = b]
      /\ receiver' = [receiver EXCEPT !.stage = "signalling"]
      /\ UNCHANGED <<pipe, clientsFHandle, worker, client, replies>>
  BY DEF Sess!writeToBufferPC
<1>2. /\ s \in Sessions /\ CoarseReceiver.req.sessionID = s
      /\ CoarseReceiver.stage = "storing" /\ CoarseReceiver.req = CoarseReq(receiver.req)
  BY <1>1, InHandIs, CoarseStages
<1>3. CoarseBuffers' = [CoarseBuffers EXCEPT ![s] = CoarseBuffer(b)]
  <2> HIDE DEF b
  <2> QED
    BY <1>1, <1>2, CoarseEntries
<1>4. CoarseBuffer(b) = [readable |-> TRUE, info |-> CoarseReceiver.req]
  BY <1>2 DEF CoarseBuffer
<1>5. CoarseReceiver' = [CoarseReceiver EXCEPT !.stage = "signalling"]
  BY <1>1 DEF CoarseReceiver, TypeInv, ReceiverType
<1>6. SP!MutexFree(s)
  BY <1>1, <1>2, CoarseStages DEF Sess!MutexFree, SP!MutexFree
<1>7. UNCHANGED <<CoarsePipe, CoarseWorker, CoarseClient, CoarseReplies>>
  BY <1>1, CoarseSame
<1> HIDE DEF b, s
<1> QED
  BY <1>1, <1>2, <1>3, <1>4, <1>5, <1>6, <1>7 DEF SP!writeToBufferPC

LEMMA SignalCoarse ==
    ASSUME TypeInv, AskInv, SP!SessInv, Sess!Signal
    PROVE  SP!Signal
<1> DEFINE s == receiver.req.sessionID
<1>1. /\ receiver.stage = "signalling"
      /\ worker' = IF worker[s].stage = "waiting"
                   THEN [worker EXCEPT ![s].stage = "signalled"] ELSE worker
      /\ receiver' = [stage |-> "reading", req |-> Sess!NoRequest]
      /\ UNCHANGED <<pipe, clientsFHandle, threadBuffers, client, replies>>
  BY DEF Sess!Signal
<1>2. /\ s \in Sessions /\ CoarseReceiver.req.sessionID = s
      /\ CoarseReceiver.stage = "signalling"
  BY <1>1, InHandIs, CoarseStages
<1> HIDE DEF s
<1>3. CoarseWorker[s].stage = "waiting" <=> worker[s].stage = "waiting"
  BY <1>2, CoarseStages
<1>4. CoarseWorker' = IF CoarseWorker[s].stage = "waiting"
                      THEN [CoarseWorker EXCEPT ![s].stage = "signalled"] ELSE CoarseWorker
  <2>1. CASE worker[s].stage = "waiting"
    <3>1. worker' = [worker EXCEPT ![s].stage = "signalled"]
      BY <1>1, <2>1
    <3>2. CoarseWorker' = [CoarseWorker EXCEPT ![s].stage = CoarseStage("signalled")]
      BY <1>2, <2>1, <3>1, TurnsCoarse
    <3> QED
      BY <1>3, <2>1, <3>2 DEF CoarseStage
  <2>2. CASE worker[s].stage # "waiting"
    BY <1>1, <1>3, <2>2, CoarseSame
  <2> QED
    BY <2>1, <2>2
<1>5. CoarseReceiver' = [stage |-> "reading", req |-> SP!NoRequest]
  BY <1>1, NoCoarse DEF CoarseReceiver
<1>6. UNCHANGED <<CoarsePipe, CoarseBuffers, CoarseClient, CoarseReplies>>
  BY <1>1, CoarseSame
<1> QED
  BY <1>1, <1>2, <1>4, <1>5, <1>6 DEF SP!Signal

LEMMA RefusalOpensCoarse ==
    ASSUME TypeInv, AskInv, SP!SessInv, Sess!RefusalOpens
    PROVE  SP!RefusalOpens
<1> DEFINE c == receiver.req.client
<1>1. /\ receiver.stage = "refusing" /\ Sess!OpensPipe(c)
      /\ receiver' = [receiver EXCEPT !.stage = "refused"]
      /\ UNCHANGED <<pipe, clientsFHandle, threadBuffers, worker, replies>>
  BY DEF Sess!RefusalOpens
<1>2. c \in Clients /\ CoarseReceiver.req.client = c /\ CoarseReceiver.stage = "refusing"
  BY <1>1, InHandIs, CoarseStages
<1> HIDE DEF c
<1>3. SP!OpensPipe(c)
  BY <1>1, <1>2, OpensCoarse
<1>4. CoarseReceiver' = [CoarseReceiver EXCEPT !.stage = "refused"]
  BY <1>1 DEF CoarseReceiver, TypeInv, ReceiverType
<1>5. UNCHANGED <<CoarsePipe, CoarseBuffers, CoarseWorker, CoarseReplies>>
  BY <1>1, CoarseSame
<1> QED
  BY <1>1, <1>2, <1>3, <1>4, <1>5 DEF SP!RefusalOpens

LEMMA RefusalWritesCoarse ==
    ASSUME TypeInv, AskInv, SP!SessInv, Sess!RefusalWrites
    PROVE  SP!RefusalWrites
<1> DEFINE c == receiver.req.client
<1>1. /\ receiver.stage = "refused"
      /\ \/ /\ Sess!Reachable(c) /\ Sess!WritesReply(c, receiver.req, -1)
            /\ receiver' = [stage |-> "reading", req |-> Sess!NoRequest]
         \/ /\ ~Sess!Reachable(c)
            /\ receiver' = [receiver EXCEPT !.stage = "exited"]
            /\ UNCHANGED replies
      /\ UNCHANGED <<pipe, clientsFHandle, threadBuffers, worker, client>>
  BY DEF Sess!RefusalWrites
<1>2. /\ c \in Clients /\ CoarseReceiver.req.client = c /\ CoarseReceiver.stage = "refused"
      /\ CoarseReceiver.req = CoarseReq(receiver.req) /\ receiver.req \in Request
  BY <1>1, InHandIs, CoarseStages
<1> HIDE DEF c
<1>3. SP!Reachable(c) <=> Sess!Reachable(c)
  BY ReachableCoarse
<1>4. \/ /\ SP!Reachable(c) /\ SP!WritesReply(c, CoarseReceiver.req, -1)
         /\ CoarseReceiver' = [stage |-> "reading", req |-> SP!NoRequest]
      \/ /\ ~SP!Reachable(c)
         /\ CoarseReceiver' = [CoarseReceiver EXCEPT !.stage = "exited"]
         /\ UNCHANGED CoarseReplies
  <2>1. CASE Sess!Reachable(c)
    <3>1. Sess!WritesReply(c, receiver.req, -1)
          /\ receiver' = [stage |-> "reading", req |-> Sess!NoRequest]
      BY <1>1, <2>1
    <3>2. SP!WritesReply(c, CoarseReceiver.req, -1)
      BY <1>2, <3>1, WritesCoarse
    <3>3. CoarseReceiver' = [stage |-> "reading", req |-> SP!NoRequest]
      BY <3>1, NoCoarse DEF CoarseReceiver
    <3> QED
      BY <1>3, <2>1, <3>2, <3>3
  <2>2. CASE ~Sess!Reachable(c)
    <3>1. CoarseReceiver' = [CoarseReceiver EXCEPT !.stage = "exited"]
      BY <1>1, <2>2 DEF CoarseReceiver, TypeInv, ReceiverType
    <3> QED
      BY <1>1, <1>3, <2>2, <3>1, CoarseSame
  <2> QED
    BY <2>1, <2>2
<1>5. UNCHANGED <<CoarsePipe, clientsFHandle, CoarseBuffers, CoarseWorker, CoarseClient>>
  BY <1>1, CoarseSame
<1> QED
  BY <1>2, <1>4, <1>5 DEF SP!RefusalWrites

-----------------------------------------------------------------------------
(* Steps of the workers *)

\* A worker takes the request out of its buffer.
LEMMA TakesCoarse ==
    ASSUME TypeInv, NEW s \in Sessions, Sess!Takes(s)
    PROVE  SP!Takes(s)
<1> DEFINE b == threadBuffers[s]
           w == [stage |-> "running", req |-> b.info, fd |-> NoClient]
           f == [b EXCEPT !.readable = FALSE]
<1>1. /\ worker' = [worker EXCEPT ![s] = w]
      /\ threadBuffers' = [threadBuffers EXCEPT ![s] = f]
  BY DEF Sess!Takes
<1>2. /\ b \in BufferType /\ CoarseBuffers[s] = CoarseBuffer(b)
      /\ CoarseBuffers[s].info = CoarseReq(b.info)
  BY DEF TypeInv, CoarseBuffers, CoarseBuffer, Sessions
<1>3. CoarseWorker' = [CoarseWorker EXCEPT ![s] = CoarseThread(w)]
  <2> HIDE DEF w
  <2> QED
    BY <1>1, CoarseEntries
<1>4. CoarseThread(w) = [stage |-> "running", req |-> CoarseBuffers[s].info, fd |-> NoClient]
  BY <1>2 DEF CoarseThread, CoarseStage
<1>5. CoarseBuffers' = [CoarseBuffers EXCEPT ![s] = CoarseBuffer(f)]
  <2> HIDE DEF f
  <2> QED
    BY <1>1, CoarseEntries
<1>6. CoarseBuffer(f) = [CoarseBuffers[s] EXCEPT !.readable = FALSE]
  <2>1. f.readable = FALSE /\ f.info = b.info
    BY <1>2 DEF BufferType
  <2>2. CoarseBuffer(f) = [readable |-> FALSE, info |-> CoarseReq(b.info)]
    <3> HIDE DEF f
    <3> QED
      BY <2>1 DEF CoarseBuffer
  <2>3. CoarseBuffers[s] = [readable |-> b.readable, info |-> CoarseReq(b.info)]
    BY <1>2 DEF CoarseBuffer
  <2> HIDE DEF f, b
  <2>4. \A v : [CoarseBuffers[s] EXCEPT !.readable = v] = [readable |-> v, info |-> CoarseReq(b.info)]
    <3>1. \A x, y : \A g : g = [readable |-> x, info |-> y] =>
            \A v : [g EXCEPT !.readable = v] = [readable |-> v, info |-> y]
      OBVIOUS
    <3> QED
      BY <2>3, <3>1
  <2> QED
    BY <2>2, <2>4
<1> HIDE DEF b, w, f
<1> QED
  BY <1>3, <1>4, <1>5, <1>6 DEF SP!Takes

LEMMA ChecksBufferCoarse ==
    ASSUME TypeInv, AskInv, NEW s \in Sessions, Sess!ChecksBuffer(s)
    PROVE  SP!ChecksBuffer(s)
<1>1. /\ worker[s].stage \in {"starting", "checking"}
      /\ IF threadBuffers[s].readable THEN Sess!Takes(s)
         ELSE worker' = [worker EXCEPT ![s].stage = "waiting"] /\ UNCHANGED threadBuffers
      /\ UNCHANGED <<pipe, receiver, clientsFHandle, client, replies>>
  BY DEF Sess!ChecksBuffer, Sess!Turns
<1>2. /\ CoarseWorker[s].stage \in {"starting", "checking"}
      /\ CoarseBuffers[s].readable = threadBuffers[s].readable
  <2>1. CoarseWorker[s].stage \in {"starting", "checking"}
    BY <1>1, CoarseStages
  <2>2. CoarseBuffers[s] = CoarseBuffer(threadBuffers[s])
    BY CoarseStages
  <2> QED
    BY <2>1, <2>2 DEF CoarseBuffer
<1>3. IF CoarseBuffers[s].readable THEN SP!Takes(s)
      ELSE SP!Turns(s, "waiting") /\ UNCHANGED CoarseBuffers
  <2>1. CASE threadBuffers[s].readable
    BY <1>1, <1>2, <2>1, TakesCoarse
  <2>2. CASE ~threadBuffers[s].readable
    <3>1. worker' = [worker EXCEPT ![s].stage = "waiting"] /\ UNCHANGED threadBuffers
      BY <1>1, <2>2
    <3>2. CoarseWorker' = [CoarseWorker EXCEPT ![s].stage = CoarseStage("waiting")]
      BY <1>1, <3>1, TurnsCoarse
    <3> QED
      BY <1>2, <2>2, <3>1, <3>2, CoarseSame DEF SP!Turns, CoarseStage
  <2> QED
    BY <2>1, <2>2
<1>4. UNCHANGED <<CoarsePipe, CoarseReceiver, clientsFHandle, CoarseClient, CoarseReplies>>
  BY <1>1, CoarseSame
<1> QED
  BY <1>2, <1>3, <1>4 DEF SP!ChecksBuffer

LEMMA WakesCoarse ==
    ASSUME TypeInv, AskInv, NEW s \in Sessions, Sess!Wakes(s)
    PROVE  SP!Wakes(s)
<1>1. /\ worker[s].stage = "signalled" /\ Sess!Takes(s)
      /\ UNCHANGED <<pipe, receiver, clientsFHandle, client, replies>>
  BY DEF Sess!Wakes
<1>2. CoarseWorker[s].stage = "signalled" /\ SP!Takes(s)
  BY <1>1, CoarseStages, TakesCoarse
<1>3. UNCHANGED <<CoarsePipe, CoarseReceiver, clientsFHandle, CoarseClient, CoarseReplies>>
  BY <1>1, CoarseSame
<1> QED
  BY <1>2, <1>3 DEF SP!Wakes

\* A worker runs a request, and its stage and the pipe it answers to change.
LEMMA RunsCoarse ==
    ASSUME TypeInv, AskInv, NEW s \in Sessions,
           NEW op \in Ops0, Sess!Runs(s, op)
    PROVE  /\ SP!Runs(s, CoarseOp(op))
           /\ CoarseWorker[s].req.client = worker[s].req.client
           /\ CoarseWorker[s].req = CoarseReq(worker[s].req) /\ worker[s].req \in Request
<1>1. worker[s].stage = "running" /\ worker[s].req.op = op
  BY DEF Sess!Runs
<1>2. /\ worker[s].req \in Request /\ CoarseWorker[s].req = CoarseReq(worker[s].req)
      /\ CoarseWorker[s].stage = "running"
  BY <1>1, CoarseStages DEF WorkerType
<1> QED
  BY <1>1, <1>2, CoarseFields DEF SP!Runs

LEMMA TurnsToCoarse ==
    ASSUME TypeInv, NEW s \in Sessions, NEW stage, stage # "executing", NEW fd,
           worker' = [worker EXCEPT ![s] = [stage |-> stage, req |-> worker[s].req, fd |-> fd]]
    PROVE  CoarseWorker' = [CoarseWorker EXCEPT ![s].stage = CoarseStage(stage), ![s].fd = fd]
<1> DEFINE w == [stage |-> stage, req |-> worker[s].req, fd |-> fd]
<1>1. CoarseWorker' = [CoarseWorker EXCEPT ![s] = CoarseThread(w)]
  <2> HIDE DEF w
  <2> QED
    BY CoarseEntries DEF w
<1>2. CoarseWorker[s] = CoarseThread(worker[s]) /\ s \in DOMAIN CoarseWorker
  BY DEF CoarseWorker, Sessions
<1>3. CoarseThread(w) = [stage |-> CoarseStage(stage), req |-> CoarseReq(worker[s].req), fd |-> fd]
  BY DEF CoarseThread
<1>4. [CoarseWorker[s] EXCEPT !.stage = CoarseStage(stage), !.fd = fd] = CoarseThread(w)
  <2>1. CoarseWorker[s] \in [stage : {CoarseWorker[s].stage}, req : {CoarseReq(worker[s].req)},
                             fd : {CoarseWorker[s].fd}]
    BY <1>2 DEF CoarseThread
  <2> DEFINE st == CoarseStage(stage)
             rq == CoarseReq(worker[s].req)
  <2> HIDE DEF w, st, rq
  <2>2. [CoarseWorker[s] EXCEPT !.stage = st, !.fd = fd]
          \in [stage : {st}, req : {rq}, fd : {fd}]
    BY <2>1 DEF rq
  <2>3. [CoarseWorker[s] EXCEPT !.stage = st, !.fd = fd] = [stage |-> st, req |-> rq, fd |-> fd]
    BY <2>2, OneWorker
  <2> QED
    BY <1>3, <2>3 DEF st, rq
<1> HIDE DEF w
<1> QED
  BY <1>1, <1>2, <1>4, EntryFields

\* What a worker becomes whose stage and pipe to answer to change.
LEMMA WorkerAfter ==
    ASSUME TypeInv, NEW s \in Sessions
    PROVE  /\ Sess!MountOpens(s) =>
                worker' = [worker EXCEPT ![s] = [stage |-> "replying", req |-> worker[s].req,
                                                 fd |-> worker[s].req.client]]
           /\ Sess!UnmountFinishes(s) =>
                worker' = [worker EXCEPT ![s] = [stage |-> "unmounting", req |-> worker[s].req,
                                                 fd |-> clientsFHandle[s]]]
           /\ \A op : Enters(s, op) =>
                worker' = [worker EXCEPT ![s] = [stage |-> "executing", req |-> worker[s].req,
                                                 fd |-> clientsFHandle[s]]]
<1>1. worker[s] \in WorkerType /\ s \in DOMAIN worker
  BY DEF TypeInv
<1>2. ASSUME Sess!MountOpens(s)
      PROVE  worker' = [worker EXCEPT ![s] = [stage |-> "replying", req |-> worker[s].req,
                                              fd |-> worker[s].req.client]]
  <2> DEFINE stage == "replying"
             fd == worker[s].req.client
             w == [stage |-> stage, req |-> worker[s].req, fd |-> fd]
  <2>1. worker' = [worker EXCEPT ![s].stage = stage, ![s].fd = fd]
    BY <1>2 DEF Sess!MountOpens
  <2> HIDE DEF stage, fd
  <2>2. [worker[s] EXCEPT !.stage = stage, !.fd = fd] = w
    <3>1. [worker[s] EXCEPT !.stage = stage, !.fd = fd]
            \in [stage : {stage}, req : {worker[s].req}, fd : {fd}]
      BY <1>1 DEF WorkerType
    <3> QED
      BY <3>1, OneWorker
  <2> HIDE DEF w
  <2>3. worker' = [worker EXCEPT ![s] = w]
    BY <1>1, <2>1, <2>2, EntryFields
  <2> QED
    BY <2>3 DEF w, stage, fd
<1>3. ASSUME Sess!UnmountFinishes(s)
      PROVE  worker' = [worker EXCEPT ![s] = [stage |-> "unmounting", req |-> worker[s].req,
                                              fd |-> clientsFHandle[s]]]
  <2> DEFINE stage == "unmounting"
             fd == clientsFHandle[s]
             w == [stage |-> stage, req |-> worker[s].req, fd |-> fd]
  <2>1. worker' = [worker EXCEPT ![s].stage = stage, ![s].fd = fd]
    BY <1>3 DEF Sess!UnmountFinishes
  <2> HIDE DEF stage, fd
  <2>2. [worker[s] EXCEPT !.stage = stage, !.fd = fd] = w
    <3>1. [worker[s] EXCEPT !.stage = stage, !.fd = fd]
            \in [stage : {stage}, req : {worker[s].req}, fd : {fd}]
      BY <1>1 DEF WorkerType
    <3> QED
      BY <3>1, OneWorker
  <2> HIDE DEF w
  <2>3. worker' = [worker EXCEPT ![s] = w]
    BY <1>1, <2>1, <2>2, EntryFields
  <2> QED
    BY <2>3 DEF w, stage, fd
<1>4. ASSUME NEW op, Enters(s, op)
      PROVE  worker' = [worker EXCEPT ![s] = [stage |-> "executing", req |-> worker[s].req,
                                              fd |-> clientsFHandle[s]]]
  <2> DEFINE stage == "executing"
             fd == clientsFHandle[s]
             w == [stage |-> stage, req |-> worker[s].req, fd |-> fd]
  <2>1. worker' = [worker EXCEPT ![s].stage = stage, ![s].fd = fd]
    BY <1>4 DEF Enters
  <2> HIDE DEF stage, fd
  <2>2. [worker[s] EXCEPT !.stage = stage, !.fd = fd] = w
    <3>1. [worker[s] EXCEPT !.stage = stage, !.fd = fd]
            \in [stage : {stage}, req : {worker[s].req}, fd : {fd}]
      BY <1>1 DEF WorkerType
    <3> QED
      BY <3>1, OneWorker
  <2> HIDE DEF w
  <2>3. worker' = [worker EXCEPT ![s] = w]
    BY <1>1, <2>1, <2>2, EntryFields
  <2> QED
    BY <2>3 DEF w, stage, fd
<1> QED
  BY <1>2, <1>3, <1>4

\* What is known of the request a worker runs.
LEMMA RunningIs ==
    ASSUME SP!SessInv, NEW s \in Sessions, CoarseWorker[s].stage = "running"
    PROVE  /\ CoarseWorker[s].req.client \in Clients
           /\ CoarseWorker[s].req.op # "mount" => clientsFHandle[s] \in Clients
BY Assumptions DEF SP!SessInv, SP!SessionInv, SP!SessionOK, SP!Busy, SP!RequestOf, SP!Asked,
   SP!Holds

LEMMA MountOpensCoarse ==
    ASSUME TypeInv, AskInv, SP!SessInv, NEW s \in Sessions, Sess!MountOpens(s)
    PROVE  SP!MountOpens(s)
<1> DEFINE c == worker[s].req.client
<1>1. /\ Sess!Runs(s, "mount") /\ Sess!OpensPipe(c)
      /\ clientsFHandle' = [clientsFHandle EXCEPT ![s] = c]
      /\ UNCHANGED <<pipe, receiver, threadBuffers, replies>>
  BY DEF Sess!MountOpens
<1>2. /\ SP!Runs(s, "mount") /\ CoarseWorker[s].req.client = c
  BY <1>1, RunsCoarse DEF CoarseOp, Ops0
<1>3. c \in Clients
  BY <1>2, RunningIs DEF SP!Runs
<1> HIDE DEF c
<1>4. SP!OpensPipe(c)
  BY <1>1, <1>3, OpensCoarse
<1>5. worker' = [worker EXCEPT ![s] = [stage |-> "replying", req |-> worker[s].req, fd |-> c]]
  BY WorkerAfter DEF c
<1>6. CoarseWorker' = [CoarseWorker EXCEPT ![s].stage = CoarseStage("replying"), ![s].fd = c]
  BY <1>5, TurnsToCoarse
<1>7. CoarseWorker' = [CoarseWorker EXCEPT ![s].stage = "replying", ![s].fd = c]
  BY <1>6 DEF CoarseStage
<1>8. UNCHANGED <<CoarsePipe, CoarseReceiver, CoarseBuffers, CoarseReplies>>
  BY <1>1, CoarseSame
<1> QED
  BY <1>1, <1>2, <1>4, <1>7, <1>8 DEF SP!MountOpens

\* The reply of a worker that is not in the library.
LEMMA RepliesCoarse ==
    ASSUME TypeInv, AskInv, NEW s \in Sessions, NEW stage \in {"checking", "exiting"},
           Sess!RepliesThen(s, stage)
    PROVE  SP!Replies(s)
<1> DEFINE fd == worker[s].fd
<1>1. /\ worker[s].stage = "replying"
      /\ IF Sess!Reachable(fd)
         THEN Sess!WritesReply(fd, worker[s].req, s) /\ UNCHANGED clientsFHandle
         ELSE clientsFHandle' = [clientsFHandle EXCEPT ![s] = Free] /\ UNCHANGED replies
      /\ worker' = [worker EXCEPT ![s].stage = stage]
      /\ UNCHANGED <<pipe, receiver, threadBuffers, client>>
  BY DEF Sess!RepliesThen, Sess!Turns
<1>2. /\ CoarseWorker[s].stage = "replying" /\ CoarseWorker[s].fd = fd
      /\ CoarseWorker[s].req = CoarseReq(worker[s].req) /\ worker[s].req \in Request
  <2>1. CoarseWorker[s] = CoarseThread(worker[s]) /\ worker[s] \in WorkerType
    BY CoarseStages
  <2> QED
    BY <1>1, <2>1 DEF CoarseThread, CoarseStage, WorkerType
<1> HIDE DEF fd
<1>3. CoarseWorker' = [CoarseWorker EXCEPT ![s].stage = "checking"]
  <2>1. CoarseWorker' = [CoarseWorker EXCEPT ![s].stage = CoarseStage(stage)]
    BY <1>1, TurnsCoarse
  <2> QED
    BY <2>1 DEF CoarseStage
<1>4. IF SP!Reachable(fd)
      THEN SP!WritesReply(fd, CoarseWorker[s].req, s) /\ UNCHANGED clientsFHandle
      ELSE clientsFHandle' = [clientsFHandle EXCEPT ![s] = Free] /\ UNCHANGED CoarseReplies
  <2>1. CASE Sess!Reachable(fd)
    <3>1. fd \in Clients /\ s \in Int
      BY <2>1, Assumptions DEF Sess!Reachable
    <3>2. SP!WritesReply(fd, CoarseWorker[s].req, s)
      BY <1>1, <1>2, <2>1, <3>1, WritesCoarse
    <3> QED
      BY <1>1, <2>1, <3>2, ReachableCoarse
  <2>2. CASE ~Sess!Reachable(fd)
    BY <1>1, <2>2, ReachableCoarse, CoarseSame
  <2> QED
    BY <2>1, <2>2
<1>5. UNCHANGED <<CoarsePipe, CoarseReceiver, CoarseBuffers, CoarseClient>>
  BY <1>1, CoarseSame
<1> QED
  BY <1>2, <1>3, <1>4, <1>5 DEF SP!Replies, SP!RepliesThen, SP!Turns

LEMMA UnmountFinishesCoarse ==
    ASSUME TypeInv, AskInv, NEW s \in Sessions, Sess!UnmountFinishes(s)
    PROVE  SP!UnmountFinishes(s)
<1> DEFINE fd == clientsFHandle[s]
<1>1. /\ Sess!Runs(s, "unmount")
      /\ clientsFHandle' = IF fd \in Clients THEN [clientsFHandle EXCEPT ![s] = Free]
                           ELSE clientsFHandle
      /\ UNCHANGED <<pipe, receiver, threadBuffers, client, replies>>
  BY DEF Sess!UnmountFinishes
<1>2. SP!Runs(s, "unmount")
  BY <1>1, RunsCoarse DEF CoarseOp, Ops0
<1> HIDE DEF fd
<1>3. worker' = [worker EXCEPT ![s] = [stage |-> "unmounting", req |-> worker[s].req, fd |-> fd]]
  BY WorkerAfter DEF fd
<1>4. CoarseWorker' = [CoarseWorker EXCEPT ![s].stage = CoarseStage("unmounting"), ![s].fd = fd]
  BY <1>3, TurnsToCoarse
<1>5. CoarseWorker' = [CoarseWorker EXCEPT ![s].stage = "unmounting", ![s].fd = fd]
  BY <1>4 DEF CoarseStage
<1>6. UNCHANGED <<CoarsePipe, CoarseReceiver, CoarseBuffers, CoarseClient, CoarseReplies>>
  BY <1>1, CoarseSame
<1> QED
  BY <1>1, <1>2, <1>5, <1>6 DEF SP!UnmountFinishes, fd

LEMMA UnmountRepliesCoarse ==
    ASSUME TypeInv, AskInv, NEW s \in Sessions, Sess!UnmountReplies(s)
    PROVE  SP!UnmountReplies(s)
<1> DEFINE fd == worker[s].fd
<1>1. /\ worker[s].stage = "unmounting"
      /\ IF Sess!Reachable(fd) THEN Sess!WritesReply(fd, worker[s].req, 0) ELSE UNCHANGED replies
      /\ worker' = [worker EXCEPT ![s].stage = "unmounted"]
      /\ UNCHANGED <<pipe, receiver, clientsFHandle, threadBuffers, client>>
  BY DEF Sess!UnmountReplies, Sess!Turns
<1>2. /\ CoarseWorker[s].stage = "unmounting" /\ CoarseWorker[s].fd = fd
      /\ CoarseWorker[s].req = CoarseReq(worker[s].req) /\ worker[s].req \in Request
  <2>1. CoarseWorker[s] = CoarseThread(worker[s]) /\ worker[s] \in WorkerType
    BY CoarseStages
  <2> QED
    BY <1>1, <2>1 DEF CoarseThread, CoarseStage, WorkerType
<1> HIDE DEF fd
<1>3. CoarseWorker' = [CoarseWorker EXCEPT ![s].stage = "unmounted"]
  <2>1. CoarseWorker' = [CoarseWorker EXCEPT ![s].stage = CoarseStage("unmounted")]
    BY <1>1, TurnsCoarse
  <2> QED
    BY <2>1 DEF CoarseStage
<1>4. IF SP!Reachable(fd) THEN SP!WritesReply(fd, CoarseWorker[s].req, 0)
      ELSE UNCHANGED CoarseReplies
  <2>1. CASE Sess!Reachable(fd)
    <3>1. fd \in Clients
      BY <2>1 DEF Sess!Reachable
    <3>2. SP!WritesReply(fd, CoarseWorker[s].req, 0)
      BY <1>1, <1>2, <2>1, <3>1, WritesCoarse
    <3> QED
      BY <2>1, <3>2, ReachableCoarse
  <2>2. CASE ~Sess!Reachable(fd)
    BY <1>1, <2>2, ReachableCoarse, CoarseSame
  <2> QED
    BY <2>1, <2>2
<1>5. UNCHANGED <<CoarsePipe, CoarseReceiver, CoarseBuffers, CoarseClient>>
  BY <1>1, CoarseSame
<1> QED
  BY <1>1, <1>2, <1>3, <1>4, <1>5 DEF SP!UnmountReplies, SP!Turns

LEMMA UnmountFinishesAgainCoarse ==
    ASSUME TypeInv, AskInv, NEW s \in Sessions, Sess!UnmountFinishesAgain(s)
    PROVE  SP!UnmountFinishesAgain(s)
<1>1. /\ worker[s].stage = "unmounted"
      /\ clientsFHandle' = [clientsFHandle EXCEPT ![s] = Free]
      /\ worker' = [worker EXCEPT ![s].stage = "checking"]
      /\ UNCHANGED <<pipe, receiver, threadBuffers, client, replies>>
  BY DEF Sess!UnmountFinishesAgain, Sess!Turns
<1>2. CoarseWorker[s].stage = "unmounted"
  BY <1>1, CoarseStages
<1>3. CoarseWorker' = [CoarseWorker EXCEPT ![s].stage = CoarseStage("checking")]
  BY <1>1, TurnsCoarse
<1>4. UNCHANGED <<CoarsePipe, CoarseReceiver, CoarseBuffers, CoarseClient, CoarseReplies>>
  BY <1>1, CoarseSame
<1> QED
  BY <1>1, <1>2, <1>3, <1>4 DEF SP!UnmountFinishesAgain, SP!Turns, CoarseStage

-----------------------------------------------------------------------------
(* Steps that TfsSessions sees as one, or not at all *)

\* Nothing is seen of a worker that goes into the library.
LEMMA EntersCoarse ==
    ASSUME TypeInv, CallInv, NEW s \in Sessions, NEW op, Sess!Runs(s, op), Enters(s, op)
    PROVE  UNCHANGED SP!vars
<1> DEFINE w == [stage |-> "executing", req |-> worker[s].req, fd |-> clientsFHandle[s]]
<1>1. /\ worker[s].stage = "running"
      /\ UNCHANGED <<pipe, receiver, clientsFHandle, threadBuffers, client, replies>>
  BY DEF Enters, Sess!Runs
<1>2. worker' = [worker EXCEPT ![s] = w]
  BY WorkerAfter DEF w
<1> HIDE DEF w
<1>3. CoarseWorker' = [CoarseWorker EXCEPT ![s] = CoarseThread(w)]
  BY <1>2, CoarseEntries DEF w
<1>4. CoarseThread(w) = CoarseWorker[s]
  <2>1. CoarseThread(w) = [stage |-> "running", req |-> CoarseReq(worker[s].req), fd |-> NoClient]
    BY DEF w, CoarseThread, CoarseStage
  <2>2. CoarseWorker[s] = CoarseThread(worker[s]) /\ worker[s].fd = NoClient
    BY <1>1 DEF CoarseWorker, Sessions, CallInv
  <2>3. CoarseThread(worker[s])
          = [stage |-> "running", req |-> CoarseReq(worker[s].req), fd |-> NoClient]
    BY <1>1, <2>2 DEF CoarseThread, CoarseStage
  <2> QED
    BY <2>1, <2>2, <2>3
<1>5. CoarseWorker' = CoarseWorker
  BY <1>3, <1>4 DEF CoarseWorker
<1> QED
  BY <1>1, <1>5, CoarseSame DEF SP!vars

\* The return of a call is all that is seen of it.
LEMMA ExecutesCoarse ==
    ASSUME TypeInv, CallInv, NEW s \in Sessions, Executes(s)
    PROVE  SP!Executes(s) \/ UNCHANGED SP!vars
<1>1. /\ worker[s].stage = "executing"
      /\ worker' = IF pc'[s] = "idle" THEN [worker EXCEPT ![s].stage = "replying"] ELSE worker
      /\ UNCHANGED <<pipe, receiver, clientsFHandle, threadBuffers, client, replies>>
  BY DEF Executes
<1>2. CASE pc'[s] # "idle"
  BY <1>1, <1>2, CoarseSame DEF SP!vars
<1>3. CASE pc'[s] = "idle"
  <2> DEFINE fd == clientsFHandle[s]
  <2>1. worker[s] \in WorkerType /\ s \in DOMAIN worker
    BY DEF TypeInv
  <2>2. worker[s].req.op \in Called /\ worker[s].fd = fd
    BY <1>1 DEF CallInv
  <2> HIDE DEF fd
  <2>3. worker' = [worker EXCEPT ![s] = [stage |-> "replying", req |-> worker[s].req, fd |-> fd]]
    <3>1. [worker[s] EXCEPT !.stage = "replying"]
            = [stage |-> "replying", req |-> worker[s].req, fd |-> fd]
      BY <2>1, <2>2 DEF WorkerType
    <3>2. worker' = [worker EXCEPT ![s].stage = "replying"]
      BY <1>1, <1>3
    <3> QED
      BY <2>1, <3>1, <3>2, EntryFields
  <2>4. CoarseWorker' = [CoarseWorker EXCEPT ![s].stage = CoarseStage("replying"), ![s].fd = fd]
    BY <2>3, TurnsToCoarse
  <2>5. CoarseWorker' = [CoarseWorker EXCEPT ![s].stage = "replying", ![s].fd = fd]
    BY <2>4 DEF CoarseStage
  <2>6. SP!Runs(s, "call")
    <3>1. worker[s].req \in Request /\ CoarseWorker[s] = CoarseThread(worker[s])
      BY <2>1 DEF WorkerType, CoarseWorker, Sessions
    <3>2. CoarseReq(worker[s].req).op = "call"
      BY <2>2, <3>1, CoarseFields DEF CoarseOp, Called
    <3> QED
      BY <1>1, <3>1, <3>2 DEF SP!Runs, CoarseThread, CoarseStage
  <2>7. UNCHANGED <<CoarsePipe, CoarseReceiver, CoarseBuffers, CoarseClient, CoarseReplies>>
    BY <1>1, CoarseSame
  <2> QED
    BY <1>1, <2>5, <2>6, <2>7 DEF SP!Executes, fd
<1> QED
  BY <1>2, <1>3

\* Nor of what a worker does after its loop.
LEMMA LeavesCoarse ==
    ASSUME TypeInv, NEW s \in Sessions, Unlinks(s) \/ Exits(s)
    PROVE  UNCHANGED SP!vars
<1>1. CASE Exits(s)
  BY <1>1, CoarseSame DEF Exits, sessVars, SP!vars
<1>2. CASE Unlinks(s)
  <2>1. /\ worker[s].stage = "exiting"
        /\ worker' = [worker EXCEPT ![s].stage = "unlinked"]
        /\ UNCHANGED <<pipe, receiver, clientsFHandle, threadBuffers, client, replies>>
    BY <1>2 DEF Unlinks
  <2>2. CoarseWorker' = [CoarseWorker EXCEPT ![s].stage = CoarseStage("unlinked")]
    BY <2>1, TurnsCoarse
  <2>3. CoarseWorker[s].stage = CoarseStage("unlinked") /\ s \in DOMAIN CoarseWorker
        /\ CoarseWorker[s] = CoarseThread(worker[s])
    BY <2>1 DEF CoarseWorker, CoarseThread, CoarseStage, Sessions
  <2>4. [CoarseWorker[s] EXCEPT !.stage = CoarseStage("unlinked")] = CoarseWorker[s]
    BY <2>3 DEF CoarseThread
  <2>5. CoarseWorker' = CoarseWorker
    <3> DEFINE w == [CoarseWorker[s] EXCEPT !.stage = CoarseStage("unlinked")]
    <3>1. CoarseWorker' = [CoarseWorker EXCEPT ![s] = w]
      BY <2>2
    <3> HIDE DEF w
    <3>2. w = CoarseWorker[s]
      BY <2>4 DEF w
    <3>3. DOMAIN CoarseWorker = Sessions /\ CoarseWorker = [t \in Sessions |-> CoarseWorker[t]]
      BY DEF CoarseWorker, Sessions
    <3> QED
      BY <3>1, <3>2, <3>3
  <2> QED
    BY <2>1, <2>5, CoarseSame DEF SP!vars
<1> QED
  BY <1>1, <1>2

\* Nor of a client that finds no server.
LEMMA MountFailsCoarse ==
    ASSUME TypeInv, AskInv, NEW c \in Clients, MountFails(c)
    PROVE  UNCHANGED SP!vars
<1> DEFINE k == [stage |-> "refused", op |-> "none", session_id |-> client[c].session_id]
<1>1. /\ client[c].stage = "new" /\ client[c].op = "none"
      /\ client' = [client EXCEPT ![c].stage = "refused"]
      /\ UNCHANGED <<pipe, receiver, clientsFHandle, threadBuffers, worker, replies>>
  BY DEF MountFails, Becomes, AskInv
<1>2. client' = [client EXCEPT ![c] = k]
  <2>1. [client[c] EXCEPT !.stage = "refused"] = k /\ c \in DOMAIN client
    BY <1>1 DEF TypeInv, ClientType
  <2> HIDE DEF k
  <2> QED
    BY <1>1, <2>1, EntryFields
<1>3. CoarseClient' = [CoarseClient EXCEPT ![c] = CoarseState(k)]
  <2> HIDE DEF k
  <2> QED
    BY <1>2, CoarseEntries
<1>4. CoarseState(k) = CoarseClient[c]
  BY <1>1 DEF CoarseState, CoarseClient
<1>5. CoarseClient' = CoarseClient
  BY <1>3, <1>4 DEF CoarseClient
<1> QED
  BY <1>1, <1>5, CoarseSame DEF SP!vars

-----------------------------------------------------------------------------
(* The refinement *)

\* TfsServer's view of TfsSessions is the one proved about.
LEMMA SameSessions ==
    /\ SP!Init <=> Coarse!Init
    /\ SP!Next <=> Coarse!Next
    /\ UNCHANGED SP!vars <=> UNCHANGED Coarse!vars
<1>1. UNCHANGED SP!vars <=> UNCHANGED Coarse!vars
  BY DEF SP!vars, Coarse!vars
<1>2. SP!Init <=> Coarse!Init
  BY DEF SP!Init, Coarse!Init, SP!NoRequest, Coarse!NoRequest, SP!Sessions, Coarse!Sessions
<1>3. SP!Next <=> Coarse!Next
  <2>1. \A c \in Clients : SP!ClientNext(c) \/ SP!Reads(c) <=> Coarse!ClientNext(c) \/ Coarse!Reads(c)
    BY DEF SP!ClientNext, Coarse!ClientNext, SP!tfs_mount, Coarse!tfs_mount, SP!tfs_call,
       Coarse!tfs_call, SP!tfs_unmount, Coarse!tfs_unmount, SP!Dies, Coarse!Dies, SP!Asks,
       Coarse!Asks, SP!Reads, Coarse!Reads, SP!StageAfter, Coarse!StageAfter, SP!server,
       Coarse!server
  <2>2. SP!Receive <=> Coarse!Receive
    BY DEF SP!Receive, Coarse!Receive, SP!ReceiveMount, Coarse!ReceiveMount, SP!ReceiveOther,
       Coarse!ReceiveOther, SP!Settled, Coarse!Settled, SP!HandingOver, Coarse!HandingOver,
       SP!FreeSessions, Coarse!FreeSessions, SP!Sessions, Coarse!Sessions
  <2>3. /\ SP!writeToBufferPC <=> Coarse!writeToBufferPC
        /\ SP!Signal <=> Coarse!Signal
        /\ SP!RefusalOpens <=> Coarse!RefusalOpens
        /\ SP!RefusalWrites <=> Coarse!RefusalWrites
    BY DEF SP!writeToBufferPC, Coarse!writeToBufferPC, SP!MutexFree, Coarse!MutexFree, SP!Signal,
       Coarse!Signal, SP!NoRequest, Coarse!NoRequest, SP!RefusalOpens, Coarse!RefusalOpens,
       SP!OpensPipe, Coarse!OpensPipe, SP!RefusalWrites, Coarse!RefusalWrites, SP!Reachable,
       Coarse!Reachable, SP!WritesReply, Coarse!WritesReply
  <2>4. \A s : SP!WorkerNext(s) <=> Coarse!WorkerNext(s)
    BY DEF SP!WorkerNext, Coarse!WorkerNext, SP!ChecksBuffer, Coarse!ChecksBuffer, SP!Takes,
       Coarse!Takes, SP!Turns, Coarse!Turns, SP!Wakes, Coarse!Wakes, SP!MountOpens,
       Coarse!MountOpens, SP!Runs, Coarse!Runs, SP!OpensPipe, Coarse!OpensPipe, SP!Executes,
       Coarse!Executes, SP!Replies, Coarse!Replies, SP!RepliesThen, Coarse!RepliesThen,
       SP!Reachable, Coarse!Reachable, SP!WritesReply, Coarse!WritesReply, SP!UnmountFinishes,
       Coarse!UnmountFinishes, SP!UnmountReplies, Coarse!UnmountReplies,
       SP!UnmountFinishesAgain, Coarse!UnmountFinishesAgain
  <2>5. SP!Sessions = Coarse!Sessions
    BY DEF SP!Sessions, Coarse!Sessions
  <2> QED
    BY <2>1, <2>2, <2>3, <2>4, <2>5 DEF SP!Next, Coarse!Next, SP!ReceiverNext,
       Coarse!ReceiverNext
<1> QED
  BY <1>1, <1>2, <1>3

\* Until the process exits, every step is one of TfsSessions or nothing to it.
LEMMA NextCoarse ==
    ASSUME TypeInv, CallInv, AskInv, SP!SessInv, process # "exited", [Next]_vars
    PROVE  [SP!Next]_(SP!vars)
<1>1. ASSUME NEW c \in Clients, ClientStep(c) PROVE [SP!Next]_(SP!vars)
  <2>1. CASE MountFails(c)
    BY <2>1, MountFailsCoarse
  <2>2. CASE Sess!Dies(c)
    BY <2>2, DiesCoarse DEF SP!Next, SP!ClientNext
  <2>3. ASSUME NEW op \in Ops0 \ {"none", "mount"}, client[c].stage = "mounted",
               Sess!Asks(c, op, "reading")
        PROVE  SP!Next
    <3>1. SP!Asks(c, CoarseOp(op), "reading") /\ CoarseClient[c].stage = "mounted"
      BY <2>3, AsksCoarse, CoarseStages
    <3>2. CoarseOp(op) \in {"call", "unmount"}
      BY DEF CoarseOp, Ops0, Called
    <3>3. SP!ClientNext(c)
      BY <3>1, <3>2 DEF SP!ClientNext, SP!tfs_call, SP!tfs_unmount
    <3> QED
      BY <3>3 DEF SP!Next
  <2>4. CASE Sess!tfs_mount(c)
    <3>1. client[c].stage = "new" /\ Sess!Asks(c, "mount", "opening")
      BY <2>4 DEF Sess!tfs_mount
    <3>2. SP!Asks(c, CoarseOp("mount"), "opening") /\ CoarseClient[c].stage = "new"
      BY <3>1, AsksCoarse, CoarseStages DEF Ops0
    <3>3. SP!tfs_mount(c)
      BY <3>2 DEF SP!tfs_mount, CoarseOp
    <3> QED
      BY <3>3 DEF SP!Next, SP!ClientNext
  <2>5. CASE Sess!tfs_unmount(c)
    BY <2>3, <2>5 DEF Sess!tfs_unmount, Ops0
  <2>6. CASE \E op \in Called : Asks(c, op)
    BY <2>3, <2>6 DEF Asks, Ops0, Called
  <2> QED
    BY <1>1, <2>1, <2>2, <2>4, <2>5, <2>6 DEF ClientStep, ClientAsks, WriteBreaks, tfs_open,
       tfs_shutdown_after_all_closed, Called
<1>2. ASSUME NEW c \in Clients, ReaderStep(c) PROVE [SP!Next]_(SP!vars)
  <2>1. Sess!Reads(c)
    BY <1>2 DEF ReaderStep, ReadEnds
  <2> QED
    BY <2>1, ReadsCoarse DEF SP!Next
<1>3. ASSUME ReceiverStep PROVE [SP!Next]_(SP!vars)
  <2>1. Sess!ReceiverNext /\ receiver.stage # "exited" /\ CoarseReceiver.stage = receiver.stage
    BY <1>3, CoarseStages DEF ReceiverStep, Alive
  <2>2. SP!ReceiverNext
    BY <2>1, ReceiveCoarse, WriteToBufferCoarse, SignalCoarse, RefusalOpensCoarse,
       RefusalWritesCoarse DEF Sess!ReceiverNext, SP!ReceiverNext
  <2> QED
    BY <2>1, <2>2 DEF SP!Next
<1>4. ASSUME NEW s \in Sessions, WorkerStep(s) PROVE [SP!Next]_(SP!vars)
  <2>1. WorkerNext(s) /\ receiver.stage # "exited" /\ CoarseReceiver.stage = receiver.stage
    BY <1>4, CoarseStages DEF WorkerStep, Alive
  <2>2. SP!WorkerNext(s) => SP!Next
    BY <2>1, Assumptions DEF SP!Next
  <2>3. CASE Sess!ChecksBuffer(s) \/ Sess!Wakes(s) \/ Sess!MountOpens(s)
    BY <2>2, <2>3, ChecksBufferCoarse, WakesCoarse, MountOpensCoarse DEF SP!WorkerNext
  <2>4. CASE Replies(s)
    <3>1. \E stage \in {"checking", "exiting"} : Sess!RepliesThen(s, stage)
      BY <2>4 DEF Replies
    <3> QED
      BY <2>2, <3>1, RepliesCoarse DEF SP!WorkerNext
  <2>5. CASE Sess!UnmountFinishes(s) \/ Sess!UnmountReplies(s) \/ Sess!UnmountFinishesAgain(s)
    BY <2>2, <2>5, UnmountFinishesCoarse, UnmountRepliesCoarse, UnmountFinishesAgainCoarse
       DEF SP!WorkerNext
  <2>6. CASE \E op \in Called : Enters(s, op)
    BY <2>6, EntersCoarse DEF Enters
  <2>7. CASE Executes(s)
    BY <2>2, <2>7, ExecutesCoarse DEF SP!WorkerNext
  <2>8. CASE Unlinks(s) \/ Exits(s)
    BY <2>8, LeavesCoarse
  <2> QED
    BY <2>1, <2>3, <2>4, <2>5, <2>6, <2>7, <2>8 DEF WorkerNext, handle_tfs_open,
       handle_tfs_close, handle_tfs_access, handle_tfs_shutdown_after_all_closed, Called
<1>5. CASE UNCHANGED vars
  BY <1>5, CoarseSame DEF vars, sessVars, SP!vars
<1> QED
  BY <1>1, <1>2, <1>3, <1>4, <1>5 DEF Next, Sessions

-----------------------------------------------------------------------------
(* What holds until the process exits *)

\* Nothing but the library changes the state of the library.
LEMMA CallsKept ==
    ASSUME CallInv, UNCHANGED <<worker, clientsFHandle, pc>>
    PROVE  CallInv'
BY DEF CallInv

\* A client asks, goes on or gives up.
LEMMA ClientKeeps ==
    ASSUME TypeInv, AskInv, CallInv, NEW c \in Clients, ClientStep(c) \/ ReaderStep(c)
    PROVE  TypeInv' /\ AskInv' /\ CallInv'
<1>1. UNCHANGED <<receiver, threadBuffers, worker, clientsFHandle, pc>>
  BY DEF ClientStep, ReaderStep, ClientAsks, Sess!tfs_mount, Sess!tfs_unmount, tfs_open,
     tfs_shutdown_after_all_closed, Asks, Sess!Asks, Sess!Dies, Sess!Reads, Sess!server, ReadEnds,
     MountFails, WriteBreaks, Becomes, opsVars
<1> SUFFICES TypeInv' /\ AskInv'
  BY <1>1, CallsKept
<1>2. client[c] \in ClientType /\ client \in [Clients -> ClientType]
      /\ pipe \in Seq(Request) /\ replies \in [Clients -> Seq(Reply)]
  BY DEF TypeInv
<1>3. ASSUME NEW op \in Ops0 \ {"none"}, NEW stage \in {"opening", "reading"},
             Sess!Asks(c, op, stage)
      PROVE  TypeInv' /\ AskInv'
  <2> DEFINE r == [op |-> op, client |-> c, sessionID |-> client[c].session_id]
  <2>1. /\ pipe' = Append(pipe, r) /\ UNCHANGED replies
        /\ client' = [client EXCEPT ![c].stage = stage, ![c].op = op]
    BY <1>3 DEF Sess!Asks
  <2>2. r \in Request
    BY <1>2 DEF Request, ClientType
  <2>3. pipe' \in Seq(Request)
    <3> HIDE DEF r
    <3> QED
      BY <1>2, <2>1, <2>2, AppendProperties
  <2>4. client' \in [Clients -> ClientType]
    BY <1>2, <2>1 DEF ClientType
  <2>5. AskInv'
    BY <1>2, <2>1 DEF AskInv
  <2> QED
    BY <1>1, <2>1, <2>3, <2>4, <2>5 DEF TypeInv
<1>4. ASSUME NEW stage \in {"refused", "dead", "mounted", "left"}, Becomes(c, stage),
             client[c].op # "none" \/ stage \in {"refused", "dead"}
      PROVE  TypeInv' /\ AskInv'
  <2>1. client' = [client EXCEPT ![c].stage = stage] /\ UNCHANGED <<pipe, replies>>
    BY <1>4 DEF Becomes
  <2>2. client' \in [Clients -> ClientType]
    BY <1>2, <2>1 DEF ClientType
  <2>3. AskInv'
    BY <1>2, <1>4, <2>1 DEF AskInv
  <2> QED
    BY <1>1, <2>1, <2>2, <2>3 DEF TypeInv
<1>5. ASSUME NEW op, NEW val PROVE Sess!StageAfter(op, val) \in {"refused", "mounted", "left"}
  BY DEF Sess!StageAfter
<1>6. CASE Sess!Reads(c)
  <2> DEFINE val == Head(replies[c]).val
             op == client[c].op
             stage == Sess!StageAfter(op, val)
             id == IF op = "mount" THEN val ELSE client[c].session_id
  <2>1. /\ client[c].stage = "reading" /\ replies[c] # <<>>
        /\ client' = [client EXCEPT ![c].stage = stage, ![c].session_id = id]
        /\ replies' = [replies EXCEPT ![c] = Tail(replies[c])]
        /\ UNCHANGED pipe
    BY <1>6 DEF Sess!Reads
  <2>2. Head(replies[c]) \in Reply /\ Tail(replies[c]) \in Seq(Reply)
    BY <1>2, <2>1, HeadTailProperties
  <2>3. stage \in {"refused", "mounted", "left"} /\ id \in Int
    BY <1>2, <1>5, <2>2 DEF Reply, ClientType
  <2>4. op # "none"
    BY <2>1 DEF AskInv
  <2> HIDE DEF stage, id
  <2>5. client' \in [Clients -> ClientType]
    BY <1>2, <2>1, <2>3 DEF ClientType
  <2>6. AskInv'
    BY <1>2, <2>1, <2>3, <2>4 DEF AskInv
  <2>7. replies' \in [Clients -> Seq(Reply)]
    BY <1>2, <2>1, <2>2
  <2>8. UNCHANGED pipe
    BY <2>1
  <2> QED
    BY <1>1, <2>5, <2>6, <2>7, <2>8 DEF TypeInv
<1>7. CASE Sess!Dies(c)
  <2>1. Becomes(c, "dead")
    BY <1>7 DEF Sess!Dies, Becomes, Sess!server
  <2> QED
    BY <1>4, <2>1
<1>8. CASE ReadEnds(c)
  <2>1. client[c].op # "none"
    BY <1>8 DEF ReadEnds, AskInv
  <2>2. PICK val : Becomes(c, Sess!StageAfter(client[c].op, val))
    BY <1>8 DEF ReadEnds
  <2> QED
    BY <1>4, <1>5, <2>1, <2>2
<1> QED
  BY <1>3, <1>4, <1>6, <1>7, <1>8 DEF ClientStep, ReaderStep, ClientAsks, Sess!tfs_mount,
     Sess!tfs_unmount, tfs_open, tfs_shutdown_after_all_closed, Asks, MountFails, WriteBreaks, Ops0,
     Called

\* The server opens a pipe, or writes to it.
LEMMA PipesKeep ==
    ASSUME TypeInv, AskInv, NEW c \in Clients
    PROVE  /\ Sess!OpensPipe(c) => client' \in [Clients -> ClientType] /\ AskInv'
           /\ \A req \in Request, val \in Int :
                Sess!WritesReply(c, req, val) => replies' \in [Clients -> Seq(Reply)]
<1>1. client \in [Clients -> ClientType] /\ replies \in [Clients -> Seq(Reply)]
  BY DEF TypeInv
<1>2. ASSUME Sess!OpensPipe(c) PROVE client' \in [Clients -> ClientType] /\ AskInv'
  <2>1. /\ client[c].stage \in {"opening", "reading", "mounted"}
        /\ \E stage \in {"reading", "mounted"} : client' = [client EXCEPT ![c].stage = stage]
    BY <1>2 DEF Sess!OpensPipe
  <2>2. client' \in [Clients -> ClientType]
    BY <1>1, <2>1 DEF ClientType
  <2>3. AskInv'
    BY <1>1, <2>1 DEF AskInv
  <2> QED
    BY <2>2, <2>3
<1>3. ASSUME NEW req \in Request, NEW val \in Int, Sess!WritesReply(c, req, val)
      PROVE  replies' \in [Clients -> Seq(Reply)]
  <2> DEFINE r == [op |-> req.op, client |-> req.client, val |-> val]
  <2>1. replies' = [replies EXCEPT ![c] = Append(replies[c], r)]
    BY <1>3 DEF Sess!WritesReply
  <2>2. r \in Reply
    BY DEF Request, Reply
  <2> HIDE DEF r
  <2>3. Append(replies[c], r) \in Seq(Reply)
    BY <1>1, <2>2, AppendProperties
  <2> QED
    BY <1>1, <2>1, <2>3
<1> QED
  BY <1>2, <1>3

\* Only one worker goes on, out of the library and not into it.
LEMMA OneTurn ==
    ASSUME CallInv, NEW s \in Sessions, UNCHANGED pc,
           worker[s].stage # "executing", worker'[s].stage # "executing",
           worker'[s].stage = "running" => worker'[s].fd = NoClient,
           worker'[s].stage \in {"exiting", "unlinked"} => worker'[s].req.op = "shutdown",
           \A t \in Sessions \ {s} : worker'[t] = worker[t] /\ clientsFHandle'[t] = clientsFHandle[t]
    PROVE  CallInv'
<1> SUFFICES ASSUME NEW t \in Sessions
             PROVE  LET w == worker'[t]
                    IN  /\ w.stage = "executing" <=> pc'[t] # "idle"
                        /\ w.stage = "executing" =>
                             /\ w.req.op \in Called /\ w.fd = clientsFHandle'[t]
                             /\ pc'[t] \in {"tfs_destroy", "cond_wait", "signalled"}
                                  <=> w.req.op = "shutdown"
                        /\ w.stage = "running" => w.fd = NoClient
                        /\ w.stage \in {"exiting", "unlinked"} => w.req.op = "shutdown"
  BY DEF CallInv
<1>1. CASE t = s
  BY <1>1 DEF CallInv
<1>2. CASE t # s
  BY <1>2 DEF CallInv
<1> QED
  BY <1>1, <1>2

\* A worker whose stage changes.
LEMMA Turned ==
    ASSUME TypeInv, NEW s \in Sessions, NEW stage, worker' = [worker EXCEPT ![s].stage = stage]
    PROVE  /\ worker[s] \in WorkerType
           /\ worker'[s] = [stage |-> stage, req |-> worker[s].req, fd |-> worker[s].fd]
           /\ \A t \in Sessions \ {s} : worker'[t] = worker[t]
           /\ worker'[s] \in WorkerType => worker' \in [Sessions -> WorkerType]
<1>1. worker \in [Sessions -> WorkerType] /\ worker[s] \in WorkerType
  BY DEF TypeInv
<1> QED
  BY <1>1 DEF WorkerType

\* And the pipe it answers to.
LEMMA TurnedTo ==
    ASSUME TypeInv, NEW s \in Sessions, NEW w, worker' = [worker EXCEPT ![s] = w]
    PROVE  /\ worker'[s] = w
           /\ \A t \in Sessions \ {s} : worker'[t] = worker[t]
           /\ worker'[s] \in WorkerType => worker' \in [Sessions -> WorkerType]
BY DEF TypeInv

\* The receiver.
LEMMA ReceiverKeeps ==
    ASSUME TypeInv, AskInv, CallInv, SP!SessInv, ReceiverStep
    PROVE  TypeInv' /\ AskInv' /\ CallInv'
<1>1. Sess!ReceiverNext /\ UNCHANGED pc
  BY DEF ReceiverStep, opsVars
<1>2. /\ pipe \in Seq(Request) /\ receiver \in ReceiverType /\ receiver.req \in Request
      /\ threadBuffers \in [Sessions -> BufferType] /\ worker \in [Sessions -> WorkerType]
      /\ client \in [Clients -> ClientType] /\ replies \in [Clients -> Seq(Reply)]
      /\ pc \in [Sessions -> Ops!Stages]
  BY DEF TypeInv, ReceiverType
<1>3. CASE Sess!Receive
  <2>1. /\ pipe # <<>> /\ pipe' = Tail(pipe) /\ UNCHANGED <<threadBuffers, worker, client, replies>>
    BY <1>3 DEF Sess!Receive
  <2>2. Head(pipe) \in Request /\ Tail(pipe) \in Seq(Request)
    BY <1>2, <2>1, HeadTailProperties
  <2>3. /\ receiver' \in ReceiverType
        /\ \A s \in Sessions : clientsFHandle[s] # Free => clientsFHandle'[s] = clientsFHandle[s]
    <3>1. CASE Sess!ReceiveOther
      BY <2>2, <3>1 DEF Sess!ReceiveOther, ReceiverType
    <3>2. CASE Sess!ReceiveMount
      <4>1. ASSUME NEW s \in Sess!FreeSessions,
                   clientsFHandle' = [clientsFHandle EXCEPT ![s] = Reserved],
                   receiver' = [stage |-> "storing", req |-> [Head(pipe) EXCEPT !.sessionID = s]]
            PROVE  /\ receiver' \in ReceiverType
                   /\ \A t \in Sessions :
                        clientsFHandle[t] # Free => clientsFHandle'[t] = clientsFHandle[t]
        <5>1. s \in Int /\ clientsFHandle[s] = Free
          BY Assumptions DEF Sess!FreeSessions, Sessions
        <5>2. [Head(pipe) EXCEPT !.sessionID = s] \in Request
          BY <2>2, <5>1 DEF Request
        <5> QED
          BY <4>1, <5>1, <5>2 DEF ReceiverType
      <4> QED
        BY <2>2, <3>2, <4>1 DEF Sess!ReceiveMount, ReceiverType
    <3> QED
      BY <1>3, <3>1, <3>2 DEF Sess!Receive
  <2>4. ASSUME NEW s \in Sessions, worker[s].stage = "executing" PROVE clientsFHandle[s] # Free
    <3>1. worker[s].req.op \in Called /\ worker[s].req \in Request
      BY <1>2, <2>4 DEF CallInv, WorkerType
    <3>2. CoarseWorker[s].stage = "running" /\ CoarseWorker[s].req = CoarseReq(worker[s].req)
      BY <2>4 DEF CoarseWorker, CoarseThread, CoarseStage, Sessions
    <3>3. CoarseWorker[s].req.op # "mount"
      BY <3>1, <3>2, CoarseFields DEF CoarseOp, Called
    <3> QED
      BY <3>2, <3>3, RunningIs, Assumptions
  <2>5. CallInv'
    BY <1>1, <2>1, <2>3, <2>4 DEF CallInv
  <2>6. AskInv'
    BY <2>1 DEF AskInv
  <2> QED
    BY <1>1, <2>1, <2>2, <2>3, <2>5, <2>6 DEF TypeInv
<1>4. CASE Sess!writeToBufferPC
  <2> DEFINE s == receiver.req.sessionID
             b == [readable |-> TRUE, info |-> receiver.req]
  <2>1. /\ threadBuffers' = [threadBuffers EXCEPT ![s] = b]
        /\ receiver' = [receiver EXCEPT !.stage = "signalling"]
        /\ UNCHANGED <<pipe, clientsFHandle, worker, client, replies>>
    BY <1>4 DEF Sess!writeToBufferPC
  <2>2. b \in BufferType
    BY <1>2 DEF BufferType
  <2> HIDE DEF b
  <2>3. threadBuffers' \in [Sessions -> BufferType]
    BY <1>2, <2>1, <2>2
  <2>4. receiver' \in ReceiverType
    BY <1>2, <2>1 DEF ReceiverType
  <2>5. CallInv' /\ AskInv'
    BY <1>1, <2>1, CallsKept DEF AskInv
  <2> QED
    BY <1>1, <2>1, <2>3, <2>4, <2>5 DEF TypeInv
<1>5. CASE Sess!Signal
  <2> DEFINE s == receiver.req.sessionID
  <2>1. /\ receiver.stage = "signalling"
        /\ worker' = IF worker[s].stage = "waiting"
                     THEN [worker EXCEPT ![s].stage = "signalled"] ELSE worker
        /\ receiver' = [stage |-> "reading", req |-> Sess!NoRequest]
        /\ UNCHANGED <<pipe, clientsFHandle, threadBuffers, client, replies>>
    BY <1>5 DEF Sess!Signal
  <2>2. s \in Sessions
    BY <2>1, InHandIs
  <2> HIDE DEF s
  <2>3. worker' \in [Sessions -> WorkerType] /\ CallInv'
    <3>1. CASE worker[s].stage = "waiting"
      <4>1. worker' = [worker EXCEPT ![s].stage = "signalled"]
        BY <2>1, <3>1
      <4>2. /\ worker[s] \in WorkerType
            /\ worker'[s] = [stage |-> "signalled", req |-> worker[s].req, fd |-> worker[s].fd]
            /\ \A t \in Sessions \ {s} : worker'[t] = worker[t]
            /\ worker'[s] \in WorkerType => worker' \in [Sessions -> WorkerType]
        BY <2>2, <4>1, Turned
      <4>3. worker'[s] \in WorkerType
        BY <4>2 DEF WorkerType
      <4>4. CallInv'
        BY <1>1, <2>1, <2>2, <3>1, <4>2, OneTurn
      <4> QED
        BY <4>2, <4>3, <4>4
    <3>2. CASE worker[s].stage # "waiting"
      BY <1>1, <1>2, <2>1, <3>2, CallsKept
    <3> QED
      BY <3>1, <3>2
  <2>4. receiver' \in ReceiverType
    BY <2>1, NoCoarse DEF ReceiverType
  <2>5. AskInv'
    BY <2>1 DEF AskInv
  <2> QED
    BY <1>1, <2>1, <2>3, <2>4, <2>5 DEF TypeInv
<1>6. CASE Sess!RefusalOpens
  <2>1. /\ receiver.stage = "refusing" /\ Sess!OpensPipe(receiver.req.client)
        /\ receiver' = [receiver EXCEPT !.stage = "refused"]
        /\ UNCHANGED <<pipe, clientsFHandle, threadBuffers, worker, replies>>
    BY <1>6 DEF Sess!RefusalOpens
  <2>2. client' \in [Clients -> ClientType] /\ AskInv'
    BY <2>1, InHandIs, PipesKeep
  <2>3. receiver' \in ReceiverType
    BY <1>2, <2>1 DEF ReceiverType
  <2>4. CallInv'
    BY <1>1, <2>1, CallsKept
  <2> QED
    BY <1>1, <2>1, <2>2, <2>3, <2>4 DEF TypeInv
<1>7. CASE Sess!RefusalWrites
  <2>1. /\ receiver.stage = "refused"
        /\ \/ /\ Sess!WritesReply(receiver.req.client, receiver.req, -1)
              /\ receiver' = [stage |-> "reading", req |-> Sess!NoRequest]
           \/ receiver' = [receiver EXCEPT !.stage = "exited"] /\ UNCHANGED replies
        /\ UNCHANGED <<pipe, clientsFHandle, threadBuffers, worker, client>>
    BY <1>7 DEF Sess!RefusalWrites
  <2>2. receiver' \in ReceiverType
    BY <1>2, <2>1, NoCoarse DEF ReceiverType
  <2>3. replies' \in [Clients -> Seq(Reply)]
    <3>1. receiver.req.client \in Clients /\ -1 \in Int
      BY <2>1, InHandIs
    <3>2. Sess!WritesReply(receiver.req.client, receiver.req, -1)
            => replies' \in [Clients -> Seq(Reply)]
      BY <1>2, <3>1, PipesKeep
    <3> QED
      BY <1>2, <2>1, <3>2
  <2>4. CallInv' /\ AskInv'
    BY <1>1, <2>1, CallsKept DEF AskInv
  <2> QED
    BY <1>1, <2>1, <2>2, <2>3, <2>4 DEF TypeInv
<1> QED
  BY <1>1, <1>3, <1>4, <1>5, <1>6, <1>7 DEF Sess!ReceiverNext

\* A step of a call: it returns, or goes to sleep in the destruction; another
\* that sleeps there may be woken.
LEMMA LibrarySteps ==
    ASSUME TypeInv, NEW s \in Sessions, Ops!Steps(s)
    PROVE  /\ pc' \in [Sessions -> Ops!Stages] /\ pc[s] # "idle"
           /\ pc'[s] = "idle" \/ (pc[s] = "tfs_destroy" /\ pc'[s] = "cond_wait")
           /\ \A t \in Sessions \ {s} :
                pc'[t] = pc[t] \/ (pc[t] = "cond_wait" /\ pc'[t] = "signalled")
<1>1. pc \in [Sessions -> Ops!Stages]
  BY DEF TypeInv
<1>2. CASE pc[s] \in {"tfs_open", "tfs_access", "signalled"} /\ pc' = [pc EXCEPT ![s] = "idle"]
  BY <1>1, <1>2 DEF Ops!Stages
<1>3. CASE pc[s] = "tfs_destroy" /\ \E st \in {"cond_wait", "idle"} : pc' = [pc EXCEPT ![s] = st]
  BY <1>1, <1>3 DEF Ops!Stages
<1>4. CASE Ops!tfs_close(s)
  <2>1. pc[s] = "tfs_close"
    BY <1>4 DEF Ops!tfs_close, Ops!Locks
  <2>2. \/ pc' = [pc EXCEPT ![s] = "idle"]
        \/ \E w \in Sessions : /\ pc[w] = "cond_wait"
                               /\ pc' = [pc EXCEPT ![s] = "idle", ![w] = "signalled"]
    BY <1>4, Assumptions DEF Ops!tfs_close, Ops!CloseFails, Ops!CloseSucceeds, Ops!SignalsIf,
       Ops!Returns, Ops!Waiters, Sessions
  <2>3. CASE pc' = [pc EXCEPT ![s] = "idle"]
    BY <1>1, <2>1, <2>3 DEF Ops!Stages
  <2>4. ASSUME NEW w \in Sessions, pc[w] = "cond_wait",
               pc' = [pc EXCEPT ![s] = "idle", ![w] = "signalled"]
        PROVE  /\ pc' \in [Sessions -> Ops!Stages] /\ pc'[s] = "idle"
               /\ \A t \in Sessions \ {s} :
                    pc'[t] = pc[t] \/ (pc[t] = "cond_wait" /\ pc'[t] = "signalled")
    BY <1>1, <2>1, <2>4 DEF Ops!Stages
  <2> QED
    BY <2>1, <2>2, <2>3, <2>4
<1> QED
  BY <1>2, <1>3, <1>4 DEF Ops!Steps, Ops!tfs_open, Ops!tfs_access, Ops!DestroyResumes,
     Ops!tfs_destroy_after_all_closed, Ops!Locks, Ops!Returns

\* A call of the library begins.
LEMMA LibraryCalls ==
    ASSUME TypeInv, NEW s \in Sessions, NEW op,
           \/ op = "open" /\ Ops!CallOpen(s)
           \/ op = "close" /\ \E h \in Ops!Handles : Ops!CallClose(s, h)
           \/ op = "access" /\ Ops!CallAccess(s)
           \/ op = "shutdown" /\ Ops!CallDestroy(s)
    PROVE  /\ pc' \in [Sessions -> Ops!Stages] /\ pc[s] = "idle"
           /\ pc'[s] \in {"tfs_open", "tfs_close", "tfs_access", "tfs_destroy"}
           /\ pc'[s] = "tfs_destroy" <=> op = "shutdown"
           /\ \A t \in Sessions \ {s} : pc'[t] = pc[t]
BY DEF TypeInv, Ops!CallOpen, Ops!CallClose, Ops!CallAccess, Ops!CallDestroy, Ops!Call,
   Ops!Stages

\* The workers.
LEMMA WorkerKeeps ==
    ASSUME TypeInv, AskInv, CallInv, SP!TypeInv, SP!SessInv, NEW s \in Sessions, WorkerNext(s)
    PROVE  TypeInv' /\ AskInv' /\ CallInv'
<1>1. /\ pipe \in Seq(Request) /\ receiver \in ReceiverType
      /\ threadBuffers \in [Sessions -> BufferType] /\ worker \in [Sessions -> WorkerType]
      /\ client \in [Clients -> ClientType] /\ replies \in [Clients -> Seq(Reply)]
      /\ pc \in [Sessions -> Ops!Stages] /\ worker[s] \in WorkerType /\ threadBuffers[s] \in BufferType
  BY DEF TypeInv
<1>2. clientsFHandle \in [Sessions -> Clients \cup {Free, Reserved}]
  BY Assumptions DEF SP!TypeInv, SP!TypeOK
<1>3. ASSUME UNCHANGED <<pipe, receiver, threadBuffers, client, replies, pc>>,
             worker' \in [Sessions -> WorkerType]
      PROVE  TypeInv' /\ AskInv'
  BY <1>1, <1>3 DEF TypeInv, AskInv
<1>4. ASSUME UNCHANGED pc, worker[s].stage # "executing",
             UNCHANGED clientsFHandle
               \/ \E c : clientsFHandle' = [clientsFHandle EXCEPT ![s] = c],
             NEW stage \in {"waiting", "replying", "unmounting", "unmounted", "checking", "exiting",
                            "unlinked"},
             stage \in {"exiting", "unlinked"} => worker[s].req.op = "shutdown",
             worker'[s].stage = stage, worker'[s].req = worker[s].req,
             \A t \in Sessions \ {s} : worker'[t] = worker[t]
      PROVE  CallInv'
  BY <1>2, <1>4, OneTurn
<1>5. ASSUME Sess!Takes(s), UNCHANGED <<pipe, receiver, clientsFHandle, client, replies, pc>>,
             worker[s].stage # "executing"
      PROVE  TypeInv' /\ AskInv' /\ CallInv'
  <2> DEFINE w == [stage |-> "running", req |-> threadBuffers[s].info, fd |-> NoClient]
  <2>1. /\ worker' = [worker EXCEPT ![s] = w]
        /\ threadBuffers' = [threadBuffers EXCEPT ![s].readable = FALSE]
    BY <1>5 DEF Sess!Takes
  <2>2. w \in WorkerType
    BY <1>1 DEF WorkerType, BufferType
  <2>3. w.stage = "running" /\ w.fd = NoClient
    OBVIOUS
  <2> HIDE DEF w
  <2>4. worker' \in [Sessions -> WorkerType] /\ worker'[s] = w
        /\ \A t \in Sessions \ {s} : worker'[t] = worker[t]
    BY <1>1, <2>1, <2>2
  <2>5. threadBuffers' \in [Sessions -> BufferType]
    BY <1>1, <2>1 DEF BufferType
  <2>6. CallInv'
    BY <1>5, <2>3, <2>4, OneTurn
  <2> QED
    BY <1>1, <1>5, <2>4, <2>5, <2>6 DEF TypeInv, AskInv
<1>6. CASE Sess!ChecksBuffer(s) /\ UNCHANGED <<opsVars, process>>
  <2>1. /\ worker[s].stage \in {"starting", "checking"}
        /\ IF threadBuffers[s].readable THEN Sess!Takes(s)
           ELSE worker' = [worker EXCEPT ![s].stage = "waiting"] /\ UNCHANGED threadBuffers
        /\ UNCHANGED <<pipe, receiver, clientsFHandle, client, replies, pc>>
    BY <1>6 DEF Sess!ChecksBuffer, Sess!Turns, opsVars
  <2>2. CASE threadBuffers[s].readable
    BY <1>5, <2>1, <2>2
  <2>3. CASE ~threadBuffers[s].readable
    <3>1. worker' = [worker EXCEPT ![s].stage = "waiting"] /\ UNCHANGED threadBuffers
      BY <2>1, <2>3
    <3>2. /\ worker'[s] = [stage |-> "waiting", req |-> worker[s].req, fd |-> worker[s].fd]
          /\ \A t \in Sessions \ {s} : worker'[t] = worker[t]
          /\ worker'[s] \in WorkerType => worker' \in [Sessions -> WorkerType]
      BY <3>1, Turned
    <3>3. worker'[s] \in WorkerType
      BY <1>1, <3>2 DEF WorkerType
    <3> QED
      BY <1>3, <1>4, <2>1, <3>1, <3>2, <3>3
  <2> QED
    BY <2>2, <2>3
<1>7. CASE Sess!Wakes(s) /\ UNCHANGED <<opsVars, process>>
  BY <1>5, <1>7 DEF Sess!Wakes, opsVars
<1>8. CASE Sess!MountOpens(s) /\ UNCHANGED <<opsVars, process>>
  <2> DEFINE c == worker[s].req.client
  <2>1. /\ Sess!Runs(s, "mount") /\ Sess!OpensPipe(c)
        /\ clientsFHandle' = [clientsFHandle EXCEPT ![s] = c]
        /\ worker' = [worker EXCEPT ![s] = [stage |-> "replying", req |-> worker[s].req, fd |-> c]]
        /\ UNCHANGED <<pipe, receiver, threadBuffers, replies, pc>>
    BY <1>8, WorkerAfter DEF Sess!MountOpens, opsVars
  <2>2. c \in Clients /\ worker[s].stage = "running"
    BY <2>1, RunsCoarse, RunningIs DEF Ops0, CoarseOp, SP!Runs, Sess!Runs
  <2> HIDE DEF c
  <2>3. client' \in [Clients -> ClientType] /\ AskInv'
    BY <2>1, <2>2, PipesKeep
  <2>4. /\ worker'[s] = [stage |-> "replying", req |-> worker[s].req, fd |-> c]
        /\ \A t \in Sessions \ {s} : worker'[t] = worker[t]
        /\ worker'[s] \in WorkerType => worker' \in [Sessions -> WorkerType]
    BY <2>1, TurnedTo
  <2>5. worker'[s] \in WorkerType
    BY <1>1, <2>2, <2>4 DEF WorkerType
  <2>6. CallInv'
    <3>1. \A t \in Sessions \ {s} : clientsFHandle'[t] = clientsFHandle[t]
      BY <1>2, <2>1
    <3>2. worker'[s].stage = "replying"
      BY <2>4
    <3> QED
      BY <2>1, <2>2, <2>4, <3>1, <3>2, OneTurn
  <2> QED
    BY <1>1, <2>1, <2>3, <2>4, <2>5, <2>6 DEF TypeInv
<1>9. CASE Replies(s) /\ UNCHANGED <<opsVars, process>>
  <2> DEFINE fd == worker[s].fd
             stage == IF worker[s].req.op = "shutdown" THEN "exiting" ELSE "checking"
  <2>1. /\ worker[s].stage = "replying"
        /\ \/ /\ Sess!Reachable(fd) /\ Sess!WritesReply(fd, worker[s].req, s)
              /\ UNCHANGED clientsFHandle
           \/ clientsFHandle' = [clientsFHandle EXCEPT ![s] = Free] /\ UNCHANGED replies
        /\ worker' = [worker EXCEPT ![s].stage = stage]
        /\ UNCHANGED <<pipe, receiver, threadBuffers, client, pc>>
    BY <1>9 DEF Replies, Sess!RepliesThen, Sess!Turns, opsVars
  <2>2. /\ stage \in {"checking", "exiting"}
        /\ stage = "exiting" => worker[s].req.op = "shutdown"
    OBVIOUS
  <2> HIDE DEF stage, fd
  <2>3. /\ worker'[s] = [stage |-> stage, req |-> worker[s].req, fd |-> worker[s].fd]
        /\ \A t \in Sessions \ {s} : worker'[t] = worker[t]
        /\ worker'[s] \in WorkerType => worker' \in [Sessions -> WorkerType]
    BY <2>1, Turned
  <2>4. worker'[s] \in WorkerType
    BY <1>1, <2>2, <2>3 DEF WorkerType
  <2>5. CallInv'
    BY <1>4, <2>1, <2>2, <2>3
  <2>6. replies' \in [Clients -> Seq(Reply)]
    <3>1. s \in Int /\ worker[s].req \in Request
      BY <1>1, Assumptions DEF WorkerType
    <3>2. fd \in Clients => (Sess!WritesReply(fd, worker[s].req, s)
                               => replies' \in [Clients -> Seq(Reply)])
      BY <3>1, PipesKeep
    <3> QED
      BY <1>1, <2>1, <3>2 DEF Sess!Reachable
  <2>7. AskInv'
    BY <2>1 DEF AskInv
  <2> QED
    BY <1>1, <2>1, <2>3, <2>4, <2>5, <2>6, <2>7 DEF TypeInv
<1>10. CASE Sess!UnmountFinishes(s) /\ UNCHANGED <<opsVars, process>>
  <2> DEFINE fd == clientsFHandle[s]
  <2>1. /\ worker[s].stage = "running"
        /\ UNCHANGED clientsFHandle \/ clientsFHandle' = [clientsFHandle EXCEPT ![s] = Free]
        /\ worker' = [worker EXCEPT ![s] = [stage |-> "unmounting", req |-> worker[s].req, fd |-> fd]]
        /\ UNCHANGED <<pipe, receiver, threadBuffers, client, replies, pc>>
    BY <1>10, WorkerAfter DEF Sess!UnmountFinishes, Sess!Runs, opsVars
  <2>2. fd \in Clients \cup {Free, Reserved}
    BY <1>2
  <2> HIDE DEF fd
  <2>3. /\ worker'[s] = [stage |-> "unmounting", req |-> worker[s].req, fd |-> fd]
        /\ \A t \in Sessions \ {s} : worker'[t] = worker[t]
        /\ worker'[s] \in WorkerType => worker' \in [Sessions -> WorkerType]
    BY <2>1, TurnedTo
  <2>4. worker'[s] \in WorkerType
    BY <1>1, <2>2, <2>3 DEF WorkerType
  <2> QED
    BY <1>3, <1>4, <2>1, <2>3, <2>4
<1>11. CASE Sess!UnmountReplies(s) /\ UNCHANGED <<opsVars, process>>
  <2> DEFINE fd == worker[s].fd
  <2>1. /\ worker[s].stage = "unmounting"
        /\ \/ Sess!Reachable(fd) /\ Sess!WritesReply(fd, worker[s].req, 0)
           \/ UNCHANGED replies
        /\ worker' = [worker EXCEPT ![s].stage = "unmounted"]
        /\ UNCHANGED <<pipe, receiver, clientsFHandle, threadBuffers, client, pc>>
    BY <1>11 DEF Sess!UnmountReplies, Sess!Turns, opsVars
  <2> HIDE DEF fd
  <2>2. /\ worker'[s] = [stage |-> "unmounted", req |-> worker[s].req, fd |-> worker[s].fd]
        /\ \A t \in Sessions \ {s} : worker'[t] = worker[t]
        /\ worker'[s] \in WorkerType => worker' \in [Sessions -> WorkerType]
    BY <2>1, Turned
  <2>3. worker'[s] \in WorkerType
    BY <1>1, <2>2 DEF WorkerType
  <2>4. CallInv'
    BY <1>4, <2>1, <2>2
  <2>5. replies' \in [Clients -> Seq(Reply)]
    <3>1. worker[s].req \in Request
      BY <1>1 DEF WorkerType
    <3>2. fd \in Clients => (Sess!WritesReply(fd, worker[s].req, 0)
                               => replies' \in [Clients -> Seq(Reply)])
      BY <3>1, PipesKeep
    <3> QED
      BY <1>1, <2>1, <3>2 DEF Sess!Reachable
  <2>6. AskInv'
    BY <2>1 DEF AskInv
  <2> QED
    BY <1>1, <2>1, <2>2, <2>3, <2>4, <2>5, <2>6 DEF TypeInv
<1>12. CASE Sess!UnmountFinishesAgain(s) /\ UNCHANGED <<opsVars, process>>
  <2>1. /\ worker[s].stage = "unmounted"
        /\ clientsFHandle' = [clientsFHandle EXCEPT ![s] = Free]
        /\ worker' = [worker EXCEPT ![s].stage = "checking"]
        /\ UNCHANGED <<pipe, receiver, threadBuffers, client, replies, pc>>
    BY <1>12 DEF Sess!UnmountFinishesAgain, Sess!Turns, opsVars
  <2>2. /\ worker'[s] = [stage |-> "checking", req |-> worker[s].req, fd |-> worker[s].fd]
        /\ \A t \in Sessions \ {s} : worker'[t] = worker[t]
        /\ worker'[s] \in WorkerType => worker' \in [Sessions -> WorkerType]
    BY <2>1, Turned
  <2>3. worker'[s] \in WorkerType
    BY <1>1, <2>2 DEF WorkerType
  <2> QED
    BY <1>3, <1>4, <2>1, <2>2, <2>3
<1>13. ASSUME NEW op \in Called, Enters(s, op),
              \/ op = "open" /\ Ops!CallOpen(s)
              \/ op = "close" /\ \E h \in Ops!Handles : Ops!CallClose(s, h)
              \/ op = "access" /\ Ops!CallAccess(s)
              \/ op = "shutdown" /\ Ops!CallDestroy(s)
       PROVE  TypeInv' /\ AskInv' /\ CallInv'
  <2> DEFINE fd == clientsFHandle[s]
  <2>1. /\ worker[s].stage = "running" /\ worker[s].req.op = op
        /\ worker' = [worker EXCEPT ![s] = [stage |-> "executing", req |-> worker[s].req, fd |-> fd]]
        /\ UNCHANGED <<pipe, receiver, clientsFHandle, threadBuffers, client, replies>>
    BY <1>13, WorkerAfter DEF Enters, Sess!Runs
  <2>2. fd \in Clients \cup {Free, Reserved} /\ fd = clientsFHandle'[s]
    BY <1>2, <2>1
  <2> HIDE DEF fd
  <2>3. /\ worker'[s] = [stage |-> "executing", req |-> worker[s].req, fd |-> fd]
        /\ \A t \in Sessions \ {s} : worker'[t] = worker[t]
        /\ worker'[s] \in WorkerType => worker' \in [Sessions -> WorkerType]
    BY <2>1, TurnedTo
  <2>4. worker'[s] \in WorkerType
    BY <1>1, <2>2, <2>3 DEF WorkerType
  <2>5. /\ pc' \in [Sessions -> Ops!Stages] /\ pc[s] = "idle"
        /\ pc'[s] \in {"tfs_open", "tfs_close", "tfs_access", "tfs_destroy"}
        /\ pc'[s] = "tfs_destroy" <=> op = "shutdown"
        /\ \A t \in Sessions \ {s} : pc'[t] = pc[t]
    BY <1>13, LibraryCalls
  <2>6. CallInv'
    <3> SUFFICES ASSUME NEW t \in Sessions
                 PROVE  LET w == worker'[t]
                        IN  /\ w.stage = "executing" <=> pc'[t] # "idle"
                            /\ w.stage = "executing" =>
                                 /\ w.req.op \in Called /\ w.fd = clientsFHandle'[t]
                                 /\ pc'[t] \in {"tfs_destroy", "cond_wait", "signalled"}
                                      <=> w.req.op = "shutdown"
                            /\ w.stage = "running" => w.fd = NoClient
                            /\ w.stage \in {"exiting", "unlinked"} => w.req.op = "shutdown"
      BY DEF CallInv
    <3>1. CASE t = s
      BY <2>1, <2>2, <2>3, <2>5, <3>1
    <3>2. CASE t # s
      BY <2>1, <2>3, <2>5, <3>2 DEF CallInv
    <3> QED
      BY <3>1, <3>2
  <2>7. AskInv'
    BY <2>1 DEF AskInv
  <2> QED
    BY <1>1, <2>1, <2>3, <2>4, <2>5, <2>6, <2>7 DEF TypeInv
<1>14. CASE Executes(s)
  <2>1. /\ worker[s].stage = "executing" /\ Ops!Steps(s)
        /\ worker' = IF pc'[s] = "idle" THEN [worker EXCEPT ![s].stage = "replying"] ELSE worker
        /\ UNCHANGED <<pipe, receiver, clientsFHandle, threadBuffers, client, replies>>
    BY <1>14 DEF Executes
  <2>2. /\ pc' \in [Sessions -> Ops!Stages] /\ pc[s] # "idle"
        /\ pc'[s] = "idle" \/ (pc[s] = "tfs_destroy" /\ pc'[s] = "cond_wait")
        /\ \A t \in Sessions \ {s} :
             pc'[t] = pc[t] \/ (pc[t] = "cond_wait" /\ pc'[t] = "signalled")
    BY <2>1, LibrarySteps
  <2>3. /\ worker' \in [Sessions -> WorkerType]
        /\ \A t \in Sessions \ {s} : worker'[t] = worker[t]
        /\ IF pc'[s] = "idle" THEN worker'[s].stage = "replying" ELSE worker'[s] = worker[s]
    <3>1. CASE pc'[s] = "idle"
      <4>1. worker' = [worker EXCEPT ![s].stage = "replying"]
        BY <2>1, <3>1
      <4>2. /\ worker'[s] = [stage |-> "replying", req |-> worker[s].req, fd |-> worker[s].fd]
            /\ \A t \in Sessions \ {s} : worker'[t] = worker[t]
            /\ worker'[s] \in WorkerType => worker' \in [Sessions -> WorkerType]
        BY <4>1, Turned
      <4>3. worker'[s] \in WorkerType
        BY <1>1, <4>2 DEF WorkerType
      <4> QED
        BY <3>1, <4>2, <4>3
    <3>2. CASE pc'[s] # "idle"
      BY <1>1, <2>1, <3>2
    <3> QED
      BY <3>1, <3>2
  <2>4. CallInv'
    <3> SUFFICES ASSUME NEW t \in Sessions
                 PROVE  LET w == worker'[t]
                        IN  /\ w.stage = "executing" <=> pc'[t] # "idle"
                            /\ w.stage = "executing" =>
                                 /\ w.req.op \in Called /\ w.fd = clientsFHandle'[t]
                                 /\ pc'[t] \in {"tfs_destroy", "cond_wait", "signalled"}
                                      <=> w.req.op = "shutdown"
                            /\ w.stage = "running" => w.fd = NoClient
                            /\ w.stage \in {"exiting", "unlinked"} => w.req.op = "shutdown"
      BY DEF CallInv
    <3>1. CASE t = s
      BY <2>1, <2>2, <2>3, <3>1 DEF CallInv
    <3>2. CASE t # s
      BY <2>1, <2>2, <2>3, <3>2 DEF CallInv
    <3> QED
      BY <3>1, <3>2
  <2>5. AskInv'
    BY <2>1 DEF AskInv
  <2> QED
    BY <1>1, <2>1, <2>2, <2>3, <2>4, <2>5 DEF TypeInv
<1>15. CASE Unlinks(s) /\ UNCHANGED opsVars
  <2>1. /\ worker[s].stage = "exiting"
        /\ worker' = [worker EXCEPT ![s].stage = "unlinked"]
        /\ UNCHANGED <<pipe, receiver, clientsFHandle, threadBuffers, client, replies, pc>>
    BY <1>15 DEF Unlinks, opsVars
  <2>2. /\ worker'[s] = [stage |-> "unlinked", req |-> worker[s].req, fd |-> worker[s].fd]
        /\ \A t \in Sessions \ {s} : worker'[t] = worker[t]
        /\ worker'[s] \in WorkerType => worker' \in [Sessions -> WorkerType]
    BY <2>1, Turned
  <2>3. worker'[s] \in WorkerType
    BY <1>1, <2>2 DEF WorkerType
  <2>4. worker[s].req.op = "shutdown"
    BY <2>1 DEF CallInv
  <2> QED
    BY <1>3, <1>4, <2>1, <2>2, <2>3, <2>4
<1>16. CASE Exits(s) /\ UNCHANGED opsVars
  <2>1. UNCHANGED <<pipe, receiver, clientsFHandle, threadBuffers, worker, client, replies, pc>>
    BY <1>16 DEF Exits, sessVars, opsVars
  <2> QED
    BY <1>1, <1>3, <2>1, CallsKept
<1> QED
  BY <1>6, <1>7, <1>8, <1>9, <1>10, <1>11, <1>12, <1>13, <1>14, <1>15, <1>16 DEF WorkerNext,
     handle_tfs_open, handle_tfs_close, handle_tfs_access, handle_tfs_shutdown_after_all_closed,
     Called

\* Nothing comes back.
LEMMA ExitIsFinal ==
    ASSUME [Next]_vars, process = "exited"
    PROVE  process' = "exited"
BY DEF Next, vars, ClientStep, ReaderStep, ReceiverStep, WorkerStep, Alive

\* The sessions start as those of TfsSessions.
LEMMA CoarseInit == Init => SP!Init
<1> SUFFICES ASSUME Init PROVE SP!Init
  OBVIOUS
<1>1. CoarsePipe = <<>>
  <2>1. <<>> \in Seq(Request) /\ pipe = <<>>
    BY DEF Init, Sess!Init
  <2> QED
    BY <2>1, CoarseSeqIs DEF CoarsePipe
<1>2. CoarseReceiver = [stage |-> "reading", req |-> SP!NoRequest]
  BY NoCoarse DEF Init, Sess!Init, CoarseReceiver
<1>3. clientsFHandle = [s \in SP!Sessions |-> Free]
  BY Assumptions DEF Init, Sess!Init, Sessions
<1>4. CoarseBuffers = [s \in SP!Sessions |-> [readable |-> FALSE, info |-> SP!NoRequest]]
  BY NoCoarse, Assumptions DEF Init, Sess!Init, CoarseBuffers, CoarseBuffer, Sessions
<1>5. CoarseWorker
          = [s \in SP!Sessions |-> [stage |-> "starting", req |-> SP!NoRequest, fd |-> NoClient]]
  BY NoCoarse, Assumptions DEF Init, Sess!Init, CoarseWorker, CoarseThread, CoarseStage, Sessions
<1>6. CoarseClient = [c \in Clients |-> [stage |-> "new", op |-> "none", session_id |-> -1]]
  BY DEF Init, Sess!Init, CoarseClient, CoarseState, CoarseOp
<1>7. CoarseReplies = [c \in Clients |-> <<>>]
  <2>1. <<>> \in Seq(Reply)
    OBVIOUS
  <2>2. CoarseSeq(<<>>) = <<>>
    BY <2>1, CoarseSeqIs
  <2> QED
    BY <2>2 DEF Init, Sess!Init, CoarseReplies
<1> QED
  BY <1>1, <1>2, <1>3, <1>4, <1>5, <1>6, <1>7 DEF SP!Init

LEMMA RunningInit == Init => Running
<1> SUFFICES ASSUME Init PROVE Running
  OBVIOUS
<1>1. SP!Init
  BY CoarseInit
<1>2. SP!TypeInv /\ SP!SessInv
  BY <1>1, Assumptions, SP!InvInit
<1>3. TypeInv
  BY NoCoarse DEF Init, Sess!Init, Ops!Init, TypeInv, ReceiverType, BufferType, WorkerType,
     ClientType, Ops!Stages, Ops0, Sessions
<1>4. CallInv
  BY DEF Init, Sess!Init, Ops!Init, CallInv, Sessions
<1>5. AskInv
  BY DEF Init, Sess!Init, AskInv
<1> QED
  BY <1>2, <1>3, <1>4, <1>5 DEF Running

\* Every step until the exit keeps what is known, and is one of TfsSessions.
LEMMA RunningNext ==
    ASSUME SP!Orderly, Running, process # "exited", [Next]_vars
    PROVE  Running' /\ [SP!Next]_(SP!vars)
<1>1. [SP!Next]_(SP!vars)
  BY NextCoarse DEF Running
<1>2. SP!TypeInv' /\ SP!SessInv'
  BY <1>1, Assumptions, SP!InvNext DEF Running
<1>3. TypeInv' /\ AskInv' /\ CallInv'
  <2>1. CASE UNCHANGED vars
    BY <2>1 DEF vars, sessVars, opsVars, TypeInv, AskInv, CallInv, Running
  <2>2. CASE Next
    BY <2>2, ClientKeeps, ReceiverKeeps, WorkerKeeps DEF Next, WorkerStep, Running, Sessions
  <2> QED
    BY <2>1, <2>2
<1> QED
  BY <1>1, <1>2, <1>3 DEF Running

\* The whole server does to its sessions what TfsSessions says, until it exits:
\* its file calls and its shutdown are the "call" of TfsSessions.
THEOREM SessionsImplemented == ASSUME SP!Orderly PROVE Spec => ImplementsSessions
<1> DEFINE Inv == process # "exited" => Running
<1>1. Init => Inv /\ Coarse!Init
  BY CoarseInit, RunningInit, SameSessions
<1>2. Inv /\ [Next]_vars => Inv'
  BY RunningNext, ExitIsFinal
<1>3. Inv /\ [Next]_vars => [process = "exited" \/ Coarse!Next]_(Coarse!vars)
  BY RunningNext, SameSessions
<1> QED
  BY <1>1, <1>2, <1>3, PTL DEF Spec, ImplementsSessions

=============================================================================
