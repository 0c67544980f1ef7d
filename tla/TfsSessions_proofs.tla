---------------------------- MODULE TfsSessions_proofs ----------------------------
(***************************************************************************)
(* Proofs about TfsSessions, for any number of clients and of sessions,    *)
(* clients that die included, when the workers are asleep before the first *)
(* request is read and no mount is read while a worker finishes a session. *)
(***************************************************************************)
EXTENDS TfsSessions, SequenceTheorems, TLAPS

\* The order of things in which the sessions are safe (see Sess_handover for
\* what happens without it).
Orderly == SettledStart /\ QuietHandover

-----------------------------------------------------------------------------
Requested == {"mount", "call", "unmount"}
Busy(s) == threadBuffers[s].readable \/ worker[s].stage \in {"running", "replying", "unmounting"}
RequestOf(s) == IF threadBuffers[s].readable THEN threadBuffers[s].info ELSE worker[s].req
InHand == receiver.stage \in {"storing", "refusing", "refused"}

Asked(r) ==
    /\ r.client \in Clients /\ r.op \in Requested
    /\ client[r.client].op = r.op
    /\ replies[r.client] = <<>>
Waits(c, stage) == client[c].stage \in {stage, "dead"}
\* c has s
Holds(c, s) ==
    /\ s \in Sessions /\ clientsFHandle[s] = c
    /\ client[c].session_id = s
    /\ Waits(c, "reading")

PipeOK(i) ==
    LET r == pipe[i]
    IN  /\ Asked(r)
        /\ r.op = "mount" => Waits(r.client, "opening")
        /\ r.op # "mount" => Holds(r.client, r.sessionID)
        /\ InHand => receiver.req.client # r.client
        /\ \A s \in Sessions : Busy(s) => RequestOf(s).client # r.client
        /\ \A j \in DOMAIN pipe : pipe[j].client = r.client => i = j

PipeInv == \A i \in DOMAIN pipe : PipeOK(i)

ReceiverInv ==
    LET r == receiver.req
        s == r.sessionID
    IN  /\ InHand => /\ Asked(r)
                     /\ \A t \in Sessions : Busy(t) => RequestOf(t).client # r.client
        /\ receiver.stage = "storing" =>
             /\ s \in Sessions /\ ~Busy(s) /\ worker[s].stage # "unmounted"
             /\ r.op = "mount" => clientsFHandle[s] = Reserved /\ Waits(r.client, "opening")
             /\ r.op # "mount" => Holds(r.client, s)
        /\ receiver.stage = "signalling" =>
             s \in Sessions /\ worker[s].stage = "waiting" /\ threadBuffers[s].readable
        /\ receiver.stage = "refusing" => r.op = "mount" /\ Waits(r.client, "opening")
        /\ receiver.stage = "refused" => r.op = "mount" /\ Waits(r.client, "reading")

SessionOK(s) ==
    LET r == RequestOf(s)
        c == r.client
        stage == worker[s].stage
    IN  /\ Busy(s) => /\ Asked(r) /\ r.sessionID = s
                      /\ \A t \in Sessions : Busy(t) /\ RequestOf(t).client = c => t = s
        /\ threadBuffers[s].readable => stage \in {"waiting", "signalled"}
        /\ stage = "signalled" => threadBuffers[s].readable
        /\ (threadBuffers[s].readable \/ stage = "running") /\ r.op = "mount" =>
             clientsFHandle[s] = Reserved /\ Waits(c, "opening")
        /\ (threadBuffers[s].readable \/ stage = "running") /\ r.op # "mount" => Holds(c, s)
        /\ stage = "replying" => /\ worker[s].fd = c /\ r.op \in {"mount", "call"}
                                 /\ clientsFHandle[s] = c /\ Waits(c, "reading")
                                 /\ r.op = "call" => client[c].session_id = s
        /\ stage = "unmounting" => /\ worker[s].fd = c /\ r.op = "unmount"
                                   /\ clientsFHandle[s] = Free /\ Waits(c, "reading")
        /\ stage = "unmounted" => clientsFHandle[s] = Free

SessionInv == \A s \in Sessions : SessionOK(s)

ReservedInv ==
    \A s \in Sessions : clientsFHandle[s] = Reserved =>
      \/ receiver.stage = "storing" /\ receiver.req.op = "mount" /\ receiver.req.sessionID = s
      \/ Busy(s) /\ RequestOf(s).op = "mount" /\ worker[s].stage # "replying"

ClientOK(c) ==
    LET k == client[c]
        reply == replies[c][1]
    IN  /\ k.stage # "new" => k.op \in Requested
        /\ k.stage = "new" => k.op = "none" /\ k.session_id = -1
        /\ k.stage = "opening" => k.op = "mount" /\ k.session_id = -1
        /\ k.stage = "mounted" => k.op # "unmount"
        /\ replies[c] # <<>> =>
             /\ Len(replies[c]) = 1 /\ k.stage \in {"reading", "dead"}
             /\ reply.client = c /\ reply.op = k.op
             /\ k.op = "mount" =>
                  reply.val = -1 \/ (reply.val \in Sessions /\ clientsFHandle[reply.val] = c)
             /\ k.op = "unmount" => reply.val = 0
        /\ Active(c) => k.session_id \in Sessions /\ clientsFHandle[k.session_id] = c

ClientInv == \A c \in Clients : ClientOK(c)

StartInv ==
    ~Settled => receiver.stage = "reading" /\ \A s \in Sessions : ~threadBuffers[s].readable

SessInv == PipeInv /\ ReceiverInv /\ SessionInv /\ ReservedInv /\ ClientInv /\ StartInv

ReplyType == [op : Requested, client : Clients, val : Sessions \cup {-1, 0}]
TypeInv == TypeOK /\ replies \in [Clients -> Seq(ReplyType)]

\* The values of the session table that are no clients, and the session numbers.
LEMMA Constants ==
    /\ Free \notin Clients /\ Reserved \notin Clients /\ NoClient \notin Clients
    /\ Free # Reserved /\ Sessions \subseteq Nat /\ -1 \notin Sessions
BY SessionsAssumption DEF Sessions

\* What the pipe holds after a request is added to it.
LEMMA PipeAfterAppend ==
    ASSUME TypeOK, NEW r \in Requests, pipe' = Append(pipe, r)
    PROVE  /\ pipe' \in Seq(Requests)
           /\ \E k : /\ k \notin DOMAIN pipe
                    /\ DOMAIN pipe' = DOMAIN pipe \cup {k}
                    /\ pipe'[k] = r
           /\ \A i \in DOMAIN pipe : pipe'[i] = pipe[i]
<1>1. pipe \in Seq(Requests) /\ Len(pipe) \in Nat /\ DOMAIN pipe = 1 .. Len(pipe)
  BY LenProperties DEF TypeOK
<1>2. /\ pipe' \in Seq(Requests) /\ Len(pipe') = Len(pipe) + 1
      /\ \A i \in 1 .. Len(pipe) : pipe'[i] = pipe[i]
      /\ pipe'[Len(pipe) + 1] = r
  BY <1>1, AppendProperties
<1>3. DOMAIN pipe' = 1 .. Len(pipe) + 1
  BY <1>2, LenProperties
<1> QED
  BY <1>1, <1>2, <1>3

\* What it holds after the first request is taken out of it.
LEMMA PipeAfterTail ==
    ASSUME TypeOK, pipe # <<>>, pipe' = Tail(pipe)
    PROVE  /\ pipe' \in Seq(Requests)
           /\ 1 \in DOMAIN pipe /\ Head(pipe) = pipe[1] /\ Head(pipe) \in Requests
           /\ \A i \in DOMAIN pipe' : i \in Nat /\ i >= 1 /\ i + 1 \in DOMAIN pipe /\ pipe'[i] = pipe[i + 1]
<1>1. pipe \in Seq(Requests) /\ Len(pipe) \in Nat /\ DOMAIN pipe = 1 .. Len(pipe)
  BY LenProperties DEF TypeOK
<1>2. /\ Head(pipe) \in Requests /\ pipe' \in Seq(Requests) /\ Len(pipe') = Len(pipe) - 1
      /\ \A i \in 1 .. Len(pipe') : pipe'[i] = pipe[i + 1]
  BY <1>1, HeadTailProperties
<1>3. DOMAIN pipe' = 1 .. Len(pipe') /\ Len(pipe') \in Nat
  BY <1>2, LenProperties
<1>4. Head(pipe) = pipe[1]
  BY <1>1
<1> QED
  BY <1>1, <1>2, <1>3, <1>4

\* A client that is not waiting for an answer has no request anywhere.
LEMMA NothingAsked ==
    ASSUME SessInv, NEW c \in Clients, client[c].stage \notin {"opening", "reading", "dead"}
    PROVE  /\ \A i \in DOMAIN pipe : pipe[i].client # c
           /\ InHand => receiver.req.client # c
           /\ \A s \in Sessions : Busy(s) => RequestOf(s).client # c
           /\ replies[c] = <<>>
<1>1. \A i \in DOMAIN pipe : pipe[i].client # c
  BY DEF SessInv, PipeInv, PipeOK, Waits, Holds
<1>2. InHand => receiver.req.client # c
  BY DEF SessInv, ReceiverInv, Waits, Holds, InHand
<1>3. \A s \in Sessions : Busy(s) => RequestOf(s).client # c
  BY DEF SessInv, SessionInv, SessionOK, Waits, Holds, Busy
<1>4. replies[c] = <<>>
  BY DEF SessInv, ClientInv, ClientOK
<1> QED
  BY <1>1, <1>2, <1>3, <1>4

\* A client sends a request.
LEMMA AsksKeeps ==
    ASSUME TypeInv, SessInv, NEW c \in Clients, NEW op \in Requested, NEW stage,
           \/ op = "mount" /\ stage = "opening" /\ client[c].stage = "new"
           \/ op # "mount" /\ stage = "reading" /\ client[c].stage = "mounted",
           Asks(c, op, stage)
    PROVE  SessInv'
<1> DEFINE r == [op |-> op, client |-> c, sessionID |-> client[c].session_id]
<1>0. TypeOK
  BY DEF TypeInv
<1>1. r \in Requests
  BY <1>0 DEF TypeOK, Requests, Requested
<1>2. /\ pipe' = Append(pipe, r)
      /\ client' = [client EXCEPT ![c].stage = stage, ![c].op = op]
      /\ UNCHANGED <<receiver, clientsFHandle, threadBuffers, worker, replies>>
  BY DEF Asks, server
<1>2a. UNCHANGED <<receiver, clientsFHandle, threadBuffers, worker, replies>>
  BY <1>2
<1>2b. /\ r.op = op /\ r.client = c /\ r.sessionID = client[c].session_id
  OBVIOUS
<1>3. PICK k : /\ k \notin DOMAIN pipe
               /\ DOMAIN pipe' = DOMAIN pipe \cup {k}
               /\ pipe'[k] = r
               /\ \A i \in DOMAIN pipe : pipe'[i] = pipe[i]
  BY <1>0, <1>1, <1>2, PipeAfterAppend
<1>4. /\ client'[c].stage = stage /\ client'[c].op = op
      /\ client'[c].session_id = client[c].session_id
      /\ \A d \in Clients : d # c => client'[d] = client[d]
  BY <1>0, <1>2 DEF TypeOK
<1>5. /\ \A i \in DOMAIN pipe : pipe[i].client # c
      /\ InHand => receiver.req.client # c
      /\ \A s \in Sessions : Busy(s) => RequestOf(s).client # c
      /\ replies[c] = <<>>
  BY NothingAsked
<1> HIDE DEF r
<1>6. /\ InHand' <=> InHand
      /\ \A s \in Sessions : (Busy(s)' <=> Busy(s)) /\ RequestOf(s)' = RequestOf(s)
  BY <1>2a DEF InHand, Busy, RequestOf
<1>7. PipeInv'
  <2>1. ASSUME NEW i \in DOMAIN pipe PROVE PipeOK(i)'
    <3>1. PipeOK(i) /\ pipe'[i] = pipe[i] /\ pipe[i].client # c
      BY <1>3, <1>5 DEF SessInv, PipeInv
    <3>2. \A j \in DOMAIN pipe' : pipe'[j].client = pipe[i].client => i = j
      BY <1>2b, <1>3, <3>1 DEF PipeOK
    <3> QED
      BY <1>2a, <1>4, <1>6, <3>1, <3>2 DEF PipeOK, Asked, Waits, Holds
  <2>2. PipeOK(k)'
    <3>1. op # "mount" => client[c].session_id \in Sessions /\ clientsFHandle[client[c].session_id] = c
      BY DEF SessInv, ClientInv, ClientOK, Active
    <3>2. \A j \in DOMAIN pipe' : pipe'[j].client = c => j = k
      BY <1>3, <1>5
    <3> QED
      BY <1>2a, <1>2b, <1>3, <1>4, <1>5, <1>6, <3>1, <3>2 DEF PipeOK, Asked, Waits, Holds
  <2> QED
    BY <1>3, <2>1, <2>2 DEF PipeInv
<1>8. ReceiverInv'
  BY <1>2a, <1>4, <1>5, <1>6 DEF SessInv, ReceiverInv, Asked, Waits, Holds, InHand
<1>9. SessionInv'
  <2>1. SUFFICES ASSUME NEW s \in Sessions PROVE SessionOK(s)'
    BY DEF SessionInv
  <2>2. SessionOK(s) /\ (Busy(s) => RequestOf(s).client # c)
    BY <1>5 DEF SessInv, SessionInv
  <2> QED
    BY <1>2a, <1>4, <1>6, <2>2 DEF SessionOK, Asked, Waits, Holds, Busy
<1>10. ReservedInv'
  BY <1>2a, <1>6 DEF SessInv, ReservedInv
<1>11. ClientInv'
  <2>1. SUFFICES ASSUME NEW d \in Clients PROVE ClientOK(d)'
    BY DEF ClientInv
  <2>2. ClientOK(d)
    BY DEF SessInv, ClientInv
  <2> QED
    BY <1>2a, <1>4, <1>5, <2>2 DEF ClientOK, Active
<1>12. StartInv'
  BY <1>2a DEF SessInv, StartInv, Settled
<1> QED
  BY <1>7, <1>8, <1>9, <1>10, <1>11, <1>12 DEF SessInv

\* A client whose reply has come has no request anywhere.
LEMMA Answered ==
    ASSUME SessInv, NEW c \in Clients, replies[c] # <<>>
    PROVE  /\ \A i \in DOMAIN pipe : pipe[i].client # c
           /\ InHand => receiver.req.client # c
           /\ \A s \in Sessions : Busy(s) => RequestOf(s).client # c
BY DEF SessInv, PipeInv, PipeOK, ReceiverInv, SessionInv, SessionOK, Asked

\* A client reads the reply to its request.
LEMMA ReadsKeeps ==
    ASSUME TypeInv, SessInv, NEW c \in Clients, Reads(c)
    PROVE  SessInv'
<1> DEFINE k == client[c]
           val == replies[c][1].val
           stage == StageAfter(k.op, val)
           id == IF k.op = "mount" THEN val ELSE k.session_id
<1>0. ClientOK(c) /\ TypeOK
  BY DEF SessInv, ClientInv, TypeInv
<1>1. /\ k.stage = "reading" /\ replies[c] # <<>> /\ Len(replies[c]) = 1
      /\ k.op \in Requested
  BY <1>0 DEF Reads, ClientOK
<1>2. UNCHANGED <<pipe, receiver, clientsFHandle, threadBuffers, worker>>
  BY DEF Reads, server
<1>3. replies[c] \in Seq(ReplyType)
  BY DEF TypeInv
<1>4. Head(replies[c]).val = val /\ Tail(replies[c]) = <<>>
  <2>1. Len(Tail(replies[c])) = 0 /\ Tail(replies[c]) \in Seq(ReplyType)
    BY <1>1, <1>3, HeadTailProperties
  <2>2. Tail(replies[c]) = <<>>
    BY <2>1, EmptySeq
  <2> QED
    BY <1>1, <1>3, <2>2
<1>5. /\ replies'[c] = <<>>
      /\ \A d \in Clients : d # c => replies'[d] = replies[d]
  <2>1. replies' = [replies EXCEPT ![c] = Tail(replies[c])]
    BY DEF Reads
  <2> QED
    BY <1>4, <2>1 DEF TypeInv
<1>6. /\ client'[c].stage = stage /\ client'[c].op = k.op /\ client'[c].session_id = id
      /\ \A d \in Clients : d # c => client'[d] = client[d]
  <2>1. client' = [client EXCEPT ![c].stage = stage, ![c].session_id = id]
    BY <1>4 DEF Reads
  <2> HIDE DEF stage, id
  <2> QED
    BY <1>0, <2>1 DEF TypeOK
<1>7. /\ stage \in {"refused", "mounted", "left"}
      /\ stage = "mounted" => /\ id \in Sessions /\ clientsFHandle[id] = c
                              /\ k.op # "unmount"
  BY <1>0, <1>1 DEF ClientOK, StageAfter, Active, Requested
<1>8. /\ \A i \in DOMAIN pipe : pipe[i].client # c
      /\ InHand => receiver.req.client # c
      /\ \A s \in Sessions : Busy(s) => RequestOf(s).client # c
  BY <1>1, Answered
<1> HIDE DEF k, val, stage, id
<1>9. /\ InHand' <=> InHand
      /\ \A s \in Sessions : (Busy(s)' <=> Busy(s)) /\ RequestOf(s)' = RequestOf(s)
  BY <1>2 DEF InHand, Busy, RequestOf
<1>10. PipeInv'
  <2>1. SUFFICES ASSUME NEW i \in DOMAIN pipe PROVE PipeOK(i)'
    BY <1>2 DEF PipeInv
  <2>2. PipeOK(i) /\ pipe[i].client # c
    BY <1>8 DEF SessInv, PipeInv
  <2> QED
    BY <1>2, <1>5, <1>6, <1>9, <2>2 DEF PipeOK, Asked, Waits, Holds
<1>11. ReceiverInv'
  BY <1>2, <1>5, <1>6, <1>8, <1>9 DEF SessInv, ReceiverInv, Asked, Waits, Holds, InHand
<1>12. SessionInv'
  <2>1. SUFFICES ASSUME NEW s \in Sessions PROVE SessionOK(s)'
    BY DEF SessionInv
  <2>2. SessionOK(s) /\ (Busy(s) => RequestOf(s).client # c)
    BY <1>8 DEF SessInv, SessionInv
  <2> QED
    BY <1>2, <1>5, <1>6, <1>9, <2>2 DEF SessionOK, Asked, Waits, Holds, Busy
<1>13. ReservedInv'
  BY <1>2, <1>9 DEF SessInv, ReservedInv
<1>14. ClientInv'
  <2>1. ASSUME NEW d \in Clients, d # c PROVE ClientOK(d)'
    <3>1. ClientOK(d)
      BY DEF SessInv, ClientInv
    <3> QED
      BY <1>2, <1>5, <1>6, <2>1, <3>1 DEF ClientOK, Active
  <2>2. ClientOK(c)'
    BY <1>1, <1>2, <1>5, <1>6, <1>7 DEF ClientOK, Active, k
  <2> QED
    BY <2>1, <2>2 DEF ClientInv
<1>15. StartInv'
  BY <1>2 DEF SessInv, StartInv, Settled
<1> QED
  BY <1>10, <1>11, <1>12, <1>13, <1>14, <1>15 DEF SessInv

\* A client dies.
LEMMA DiesKeeps ==
    ASSUME TypeInv, SessInv, NEW c \in Clients, Dies(c)
    PROVE  SessInv'
<1>1. UNCHANGED <<pipe, receiver, clientsFHandle, threadBuffers, worker, replies>>
  BY DEF Dies, server
<1>2. /\ client'[c].stage = "dead" /\ client'[c].op = client[c].op
      /\ client'[c].session_id = client[c].session_id /\ client[c].stage # "new"
      /\ \A d \in Clients : d # c => client'[d] = client[d]
  <2>1. client' = [client EXCEPT ![c].stage = "dead"] /\ client[c].stage # "new"
    BY DEF Dies
  <2> QED
    BY <2>1 DEF TypeInv, TypeOK
<1>3. \A d \in Clients : /\ client'[d].op = client[d].op /\ client'[d].session_id = client[d].session_id
                         /\ client'[d].stage \in {client[d].stage, "dead"}
  BY <1>2
<1>4. /\ InHand' <=> InHand
      /\ \A s \in Sessions : (Busy(s)' <=> Busy(s)) /\ RequestOf(s)' = RequestOf(s)
  BY <1>1 DEF InHand, Busy, RequestOf
<1>5. PipeInv'
  <2>1. SUFFICES ASSUME NEW i \in DOMAIN pipe PROVE PipeOK(i)'
    BY <1>1 DEF PipeInv
  <2>2. PipeOK(i)
    BY DEF SessInv, PipeInv
  <2> QED
    BY <1>1, <1>3, <1>4, <2>2 DEF PipeOK, Asked, Waits, Holds
<1>6. ReceiverInv'
  BY <1>1, <1>3, <1>4 DEF SessInv, ReceiverInv, Asked, Waits, Holds, InHand
<1>7. SessionInv'
  <2>1. SUFFICES ASSUME NEW s \in Sessions PROVE SessionOK(s)'
    BY DEF SessionInv
  <2>2. SessionOK(s)
    BY DEF SessInv, SessionInv
  <2> QED
    BY <1>1, <1>3, <1>4, <2>2 DEF SessionOK, Asked, Waits, Holds, Busy
<1>8. ReservedInv'
  BY <1>1, <1>4 DEF SessInv, ReservedInv
<1>9. ClientInv'
  <2>1. SUFFICES ASSUME NEW d \in Clients PROVE ClientOK(d)'
    BY DEF ClientInv
  <2>2. ClientOK(d)
    BY DEF SessInv, ClientInv
  <2> QED
    BY <1>1, <1>2, <2>2 DEF ClientOK, Active
<1>10. StartInv'
  BY <1>1 DEF SessInv, StartInv, Settled
<1> QED
  BY <1>5, <1>6, <1>7, <1>8, <1>9, <1>10 DEF SessInv

\* A worker goes a step further with the request of its session, that of c.
LEMMA SessionStep ==
    ASSUME SessInv, NEW s \in Sessions, NEW c \in Clients,
           Busy(s), RequestOf(s).client = c, clientsFHandle[s] \notin Clients \ {c},
           UNCHANGED <<pipe, receiver>>,
           \A t \in Sessions \ {s} :
             UNCHANGED <<clientsFHandle[t], threadBuffers[t], worker[t]>>,
           \A d \in Clients \ {c} : UNCHANGED <<client[d], replies[d]>>,
           Busy(s)' => RequestOf(s)' = RequestOf(s),
           worker[s].stage # "waiting", worker'[s].stage # "starting",
           worker[s].stage # "starting",
           threadBuffers'[s].readable => threadBuffers[s].readable,
           clientsFHandle'[s] = Reserved => /\ clientsFHandle[s] = Reserved
                                            /\ Busy(s)' /\ worker'[s].stage # "replying",
           SessionOK(s)', ClientOK(c)'
    PROVE  SessInv'
<1>1. /\ InHand' <=> InHand
      /\ \A t \in Sessions : /\ Busy(t)' => Busy(t) /\ RequestOf(t)' = RequestOf(t)
                             /\ t # s => (Busy(t)' <=> Busy(t)) /\ RequestOf(t)' = RequestOf(t)
  BY DEF InHand, Busy, RequestOf
<1>2. /\ \A i \in DOMAIN pipe : pipe[i].client # c
      /\ InHand => receiver.req.client # c
      /\ \A t \in Sessions \ {s} : Busy(t) => RequestOf(t).client # c
  BY DEF SessInv, PipeInv, PipeOK, ReceiverInv, SessionInv, SessionOK
<1>3. \A d \in Clients \ {c}, t \in Sessions : clientsFHandle[t] = d => t # s
  OBVIOUS
<1>4. PipeInv'
  <2>1. SUFFICES ASSUME NEW i \in DOMAIN pipe PROVE PipeOK(i)'
    BY DEF PipeInv
  <2>2. PipeOK(i) /\ pipe[i].client \in Clients \ {c}
    BY <1>2 DEF SessInv, PipeInv, PipeOK, Asked
  <2> QED
    BY <1>1, <1>3, <2>2 DEF PipeOK, Asked, Waits, Holds
<1>5. ReceiverInv'
  <2> DEFINE t == receiver.req.sessionID
  <2>0. ReceiverInv
    BY DEF SessInv
  <2>1. InHand => receiver.req.client \in Clients \ {c}
    BY <1>2, <2>0 DEF ReceiverInv, Asked
  <2>2. receiver.stage \in {"storing", "signalling"} => t \in Sessions \ {s}
    BY <2>0 DEF ReceiverInv
  <2> QED
    BY <1>1, <1>3, <2>0, <2>1, <2>2 DEF ReceiverInv, Asked, Waits, Holds, InHand
<1>6. SessionInv'
  <2>1. ASSUME NEW t \in Sessions, t # s PROVE SessionOK(t)'
    <3>1. SessionOK(t) /\ (Busy(t) => RequestOf(t).client \in Clients \ {c})
      BY <1>2, <2>1 DEF SessInv, SessionInv, SessionOK, Asked
    <3> QED
      BY <1>1, <1>3, <2>1, <3>1 DEF SessionOK, Asked, Waits, Holds, Busy
  <2> QED
    BY <2>1 DEF SessionInv
<1>7. ReservedInv'
  <2>1. SUFFICES ASSUME NEW t \in Sessions, clientsFHandle'[t] = Reserved
                 PROVE  \/ /\ receiver.stage = "storing" /\ receiver.req.op = "mount"
                           /\ receiver.req.sessionID = t
                        \/ /\ Busy(t)' /\ RequestOf(t)'.op = "mount"
                           /\ worker'[t].stage # "replying"
    BY DEF ReservedInv
  <2>2. clientsFHandle[t] = Reserved
    BY <2>1
  <2>3. \/ /\ receiver.stage = "storing" /\ receiver.req.op = "mount"
           /\ receiver.req.sessionID = t
        \/ Busy(t) /\ RequestOf(t).op = "mount" /\ worker[t].stage # "replying"
    BY <2>2 DEF SessInv, ReservedInv
  <2>4. receiver.stage = "storing" => receiver.req.sessionID # s
    BY DEF SessInv, ReceiverInv
  <2> QED
    BY <1>1, <2>1, <2>3, <2>4
<1>8. ClientInv'
  <2>1. ASSUME NEW d \in Clients, d # c PROVE ClientOK(d)'
    <3>1. ClientOK(d)
      BY DEF SessInv, ClientInv
    <3> QED
      BY <1>3, <2>1, <3>1 DEF ClientOK, Active
  <2> QED
    BY <2>1 DEF ClientInv
<1>9. StartInv'
  BY DEF SessInv, StartInv, Settled
<1> QED
  BY <1>4, <1>5, <1>6, <1>7, <1>8, <1>9 DEF SessInv

\* A worker without a request changes its stage.
LEMMA IdleStep ==
    ASSUME SessInv, NEW s \in Sessions, ~Busy(s), ~Busy(s)',
           UNCHANGED <<pipe, receiver, client, replies, threadBuffers>>,
           \A t \in Sessions \ {s} : UNCHANGED <<clientsFHandle[t], worker[t]>>,
           clientsFHandle'[s] = clientsFHandle[s],
           worker'[s].stage \notin {"starting", "signalled", "unmounted"},
           worker[s].stage # "waiting"
    PROVE  SessInv'
<1>1. /\ InHand' <=> InHand
      /\ \A t \in Sessions : Busy(t)' <=> Busy(t)
      /\ \A t \in Sessions : Busy(t) => t # s /\ RequestOf(t)' = RequestOf(t)
  BY DEF InHand, Busy, RequestOf
<1>2. \A t \in Sessions : clientsFHandle'[t] = clientsFHandle[t]
  OBVIOUS
<1>3. PipeInv'
  <2>1. SUFFICES ASSUME NEW i \in DOMAIN pipe PROVE PipeOK(i)'
    BY DEF PipeInv
  <2>2. PipeOK(i)
    BY DEF SessInv, PipeInv
  <2> QED
    BY <1>1, <1>2, <2>2 DEF PipeOK, Asked, Waits, Holds
<1>4. ReceiverInv'
  <2>1. ReceiverInv
    BY DEF SessInv
  <2> QED
    BY <1>1, <1>2, <2>1 DEF ReceiverInv, Asked, Waits, Holds, InHand
<1>5. SessionInv'
  <2>1. SUFFICES ASSUME NEW t \in Sessions PROVE SessionOK(t)'
    BY DEF SessionInv
  <2>2. SessionOK(t) /\ (t # s => RequestOf(t)' = RequestOf(t))
    BY DEF SessInv, SessionInv, RequestOf
  <2>3. CASE t # s
    BY <1>1, <1>2, <2>2, <2>3 DEF SessionOK, Asked, Waits, Holds, Busy
  <2>4. CASE t = s
    BY <1>2, <2>2, <2>4 DEF SessionOK, Busy
  <2> QED
    BY <2>3, <2>4
<1>6. ReservedInv'
  BY <1>1, <1>2 DEF SessInv, ReservedInv
<1>7. ClientInv'
  <2>1. SUFFICES ASSUME NEW d \in Clients PROVE ClientOK(d)'
    BY DEF ClientInv
  <2>2. ClientOK(d)
    BY DEF SessInv, ClientInv
  <2> QED
    BY <1>2, <2>2 DEF ClientOK, Active
<1>8. StartInv'
  BY DEF SessInv, StartInv, Settled
<1> QED
  BY <1>3, <1>4, <1>5, <1>6, <1>7, <1>8 DEF SessInv

\* The request of a busy session is that of a client, who has the session if
\* anybody has.
LEMMA BusySession ==
    ASSUME SessInv, NEW s \in Sessions, Busy(s)
    PROVE  /\ RequestOf(s).client \in Clients /\ RequestOf(s).op \in Requested
           /\ replies[RequestOf(s).client] = <<>>
           /\ clientsFHandle[s] \notin Clients \ {RequestOf(s).client}
           /\ worker[s].stage # "starting"
           /\ SessionOK(s) /\ ClientOK(RequestOf(s).client)
<1>1. SessionOK(s)
  BY DEF SessInv, SessionInv
<1>2. Asked(RequestOf(s)) /\ worker[s].stage # "starting"
  BY <1>1 DEF SessionOK, Busy
<1>3. clientsFHandle[s] \notin Clients \ {RequestOf(s).client}
  BY <1>1, Constants DEF SessionOK, Busy, Holds
<1>4. ClientOK(RequestOf(s).client)
  BY <1>2 DEF SessInv, ClientInv, Asked
<1> QED
  BY <1>1, <1>2, <1>3, <1>4 DEF Asked

\* A worker that was signalled takes its request.
LEMMA WakesKeeps ==
    ASSUME TypeInv, SessInv, NEW s \in Sessions, Wakes(s)
    PROVE  SessInv'
<1> DEFINE c == RequestOf(s).client
<1>1. /\ UNCHANGED <<pipe, receiver, clientsFHandle, client, replies>>
      /\ worker[s].stage = "signalled"
  BY DEF Wakes
<1>2. /\ worker'[s].stage = "running" /\ worker'[s].req = threadBuffers[s].info
      /\ ~threadBuffers'[s].readable
      /\ \A t \in Sessions \ {s} : UNCHANGED <<threadBuffers[t], worker[t]>>
  BY DEF Wakes, Takes, TypeInv, TypeOK
<1>3. threadBuffers[s].readable
  BY <1>1 DEF SessInv, SessionInv, SessionOK
<1>4. Busy(s) /\ Busy(s)' /\ RequestOf(s) = threadBuffers[s].info /\ RequestOf(s)' = RequestOf(s)
  BY <1>2, <1>3 DEF Busy, RequestOf
<1>5. /\ c \in Clients /\ clientsFHandle[s] \notin Clients \ {c}
      /\ SessionOK(s) /\ ClientOK(c)
  BY <1>4, BusySession
<1>6. SessionOK(s)'
  <2>1. \A t \in Sessions \ {s} : Busy(t)' => Busy(t) /\ RequestOf(t)' = RequestOf(t)
    BY <1>2 DEF Busy, RequestOf
  <2> QED
    BY <1>1, <1>2, <1>3, <1>4, <1>5, <2>1 DEF SessionOK, Asked, Waits, Holds
<1>7. PICK d : d = c
  OBVIOUS
<1>8. ClientOK(d)'
  BY <1>1, <1>5, <1>7 DEF ClientOK, Active
<1> HIDE DEF c
<1> QED
  BY <1>1, <1>2, <1>3, <1>4, <1>5, <1>6, <1>7, <1>8, SessionStep DEF c

\* A worker opens the pipe of the client that mounts.
LEMMA MountOpensKeeps ==
    ASSUME TypeInv, SessInv, NEW s \in Sessions, MountOpens(s)
    PROVE  SessInv'
<1>0. PICK c : c = worker[s].req.client
  OBVIOUS
<1>1. /\ UNCHANGED <<pipe, receiver, threadBuffers, replies>>
      /\ worker[s].stage = "running" /\ worker[s].req.op = "mount" /\ OpensPipe(c)
  BY <1>0 DEF MountOpens, Runs
<1>2. Busy(s) /\ SessionOK(s) /\ ~threadBuffers[s].readable /\ RequestOf(s) = worker[s].req
  BY <1>1 DEF SessInv, SessionInv, SessionOK, Busy, RequestOf
<1>3. /\ c \in Clients /\ replies[c] = <<>> /\ clientsFHandle[s] \notin Clients \ {c}
      /\ ClientOK(c)
  BY <1>0, <1>2, BusySession
<1>4. /\ clientsFHandle[s] = Reserved /\ Waits(c, "opening") /\ client[c].op = "mount"
      /\ worker[s].req.sessionID = s
      /\ \A t \in Sessions : Busy(t) /\ RequestOf(t).client = c => t = s
  BY <1>0, <1>1, <1>2 DEF SessionOK, Asked
<1>5. /\ client'[c].stage = "reading" /\ client'[c].op = "mount"
      /\ \A d \in Clients \ {c} : client'[d] = client[d]
  BY <1>1, <1>3, <1>4 DEF OpensPipe, Waits, TypeInv, TypeOK
<1>6. /\ clientsFHandle'[s] = c /\ worker'[s].stage = "replying" /\ worker'[s].fd = c
      /\ worker'[s].req = worker[s].req
      /\ \A t \in Sessions \ {s} : UNCHANGED <<clientsFHandle[t], worker[t]>>
  BY <1>0 DEF MountOpens, TypeInv, TypeOK
<1>7. Busy(s)' /\ RequestOf(s)' = RequestOf(s)
  BY <1>1, <1>2, <1>6 DEF Busy, RequestOf
<1>8. SessionOK(s)'
  <2>1. \A t \in Sessions \ {s} : Busy(t)' => Busy(t) /\ RequestOf(t)' = RequestOf(t)
    BY <1>1, <1>6 DEF Busy, RequestOf
  <2>2. RequestOf(s).client = c /\ RequestOf(s).op = "mount" /\ RequestOf(s).sessionID = s
    BY <1>0, <1>1, <1>2, <1>4
  <2> QED
    BY <1>1, <1>2, <1>3, <1>4, <1>5, <1>6, <1>7, <2>1, <2>2 DEF SessionOK, Asked, Waits, Requested
<1>9. ClientOK(c)'
  BY <1>1, <1>3, <1>5 DEF ClientOK, Active, Requested
<1>10. RequestOf(s).client = c /\ clientsFHandle'[s] # Reserved
  BY <1>0, <1>2, <1>3, <1>6, Constants
<1> QED
  BY <1>1, <1>2, <1>3, <1>5, <1>6, <1>7, <1>8, <1>9, <1>10, SessionStep

\* A worker executes a call.
LEMMA ExecutesKeeps ==
    ASSUME TypeInv, SessInv, NEW s \in Sessions, Executes(s)
    PROVE  SessInv'
<1>0. PICK c : c = worker[s].req.client
  OBVIOUS
<1>1. /\ UNCHANGED <<pipe, receiver, clientsFHandle, threadBuffers, client, replies>>
      /\ worker[s].stage = "running" /\ worker[s].req.op = "call"
  BY DEF Executes, Runs
<1>2. Busy(s) /\ SessionOK(s) /\ ~threadBuffers[s].readable /\ RequestOf(s) = worker[s].req
  BY <1>1 DEF SessInv, SessionInv, SessionOK, Busy, RequestOf
<1>3. /\ c \in Clients /\ replies[c] = <<>> /\ clientsFHandle[s] \notin Clients \ {c}
      /\ ClientOK(c)
  BY <1>0, <1>2, BusySession
<1>4. Holds(c, s) /\ clientsFHandle[s] = c
  BY <1>0, <1>1, <1>2 DEF SessionOK, Holds
<1>5. /\ worker'[s].stage = "replying" /\ worker'[s].fd = c /\ worker'[s].req = worker[s].req
      /\ \A t \in Sessions \ {s} : UNCHANGED worker[t]
  BY <1>4 DEF Executes, TypeInv, TypeOK
<1>6. Busy(s)' /\ RequestOf(s)' = RequestOf(s)
  BY <1>1, <1>2, <1>5 DEF Busy, RequestOf
<1>7. SessionOK(s)'
  <2>1. \A t \in Sessions \ {s} : Busy(t)' => Busy(t) /\ RequestOf(t)' = RequestOf(t)
    BY <1>1, <1>5 DEF Busy, RequestOf
  <2> QED
    BY <1>0, <1>1, <1>2, <1>3, <1>4, <1>5, <1>6, <2>1 DEF SessionOK, Asked, Waits, Holds
<1>8. ClientOK(c)'
  BY <1>1, <1>3 DEF ClientOK, Active
<1>9. RequestOf(s).client = c /\ clientsFHandle'[s] # Reserved
  BY <1>0, <1>1, <1>2, <1>3, <1>4, Constants
<1> QED
  BY <1>1, <1>2, <1>3, <1>5, <1>6, <1>7, <1>8, <1>9, SessionStep

\* What a reply leaves in the pipe of the client.
LEMMA ReplyWritten ==
    ASSUME TypeInv, NEW c \in Clients, replies[c] = <<>>,
           NEW req, NEW val, WritesReply(c, req, val)
    PROVE  /\ Len(replies'[c]) = 1
           /\ replies'[c][1] = [op |-> req.op, client |-> req.client, val |-> val]
           /\ \A d \in Clients \ {c} : replies'[d] = replies[d]
<1>1. replies' = [replies EXCEPT ![c] = Append(replies[c], [op |-> req.op, client |-> req.client, val |-> val])]
  BY DEF WritesReply
<1>2. replies'[c] = Append(<<>>, [op |-> req.op, client |-> req.client, val |-> val])
  BY <1>1 DEF TypeInv
<1>3. \A d \in Clients \ {c} : replies'[d] = replies[d]
  BY <1>1 DEF TypeInv
<1> QED
  BY <1>2, <1>3

\* A worker writes its reply, or gives the session back.
LEMMA RepliesKeeps ==
    ASSUME TypeInv, SessInv, NEW s \in Sessions, Replies(s)
    PROVE  SessInv'
<1>0. PICK c : c = worker[s].req.client
  OBVIOUS
<1>1. UNCHANGED <<pipe, receiver, threadBuffers, client>> /\ worker[s].stage = "replying"
  BY DEF Replies, RepliesThen
<1>2. Busy(s) /\ SessionOK(s) /\ ~threadBuffers[s].readable /\ RequestOf(s) = worker[s].req
  BY <1>1 DEF SessInv, SessionInv, SessionOK, Busy, RequestOf
<1>3. /\ c \in Clients /\ replies[c] = <<>> /\ clientsFHandle[s] \notin Clients \ {c}
      /\ ClientOK(c)
  BY <1>0, <1>2, BusySession
<1>4. /\ worker[s].fd = c /\ clientsFHandle[s] = c /\ Waits(c, "reading")
      /\ worker[s].req.op \in {"mount", "call"} /\ client[c].op = worker[s].req.op
  BY <1>0, <1>1, <1>2 DEF SessionOK, Asked
<1>5. /\ worker'[s].stage = "checking"
      /\ \A t \in Sessions \ {s} : UNCHANGED worker[t]
  BY DEF Replies, RepliesThen, Turns, TypeInv, TypeOK
<1>6. ~Busy(s)'
  BY <1>1, <1>2, <1>5 DEF Busy
<1>7. CASE Reachable(c)
  <2>1. WritesReply(c, worker[s].req, s) /\ UNCHANGED clientsFHandle
    BY <1>4, <1>7 DEF Replies, RepliesThen
  <2>2. /\ Len(replies'[c]) = 1
        /\ replies'[c][1] = [op |-> worker[s].req.op, client |-> c, val |-> s]
        /\ \A d \in Clients \ {c} : replies'[d] = replies[d]
    BY <1>0, <1>3, <2>1, ReplyWritten
  <2>3. ClientOK(c)'
    BY <1>1, <1>3, <1>4, <1>7, <2>1, <2>2 DEF ClientOK, Active, Reachable, Waits
  <2>4. SessionOK(s)'
    BY <1>1, <1>2, <1>5, <1>6 DEF SessionOK
  <2>5. clientsFHandle'[s] # Reserved
    BY <1>3, <1>4, <2>1, Constants
  <2> QED
    BY <1>0, <1>1, <1>2, <1>3, <1>5, <1>6, <2>1, <2>2, <2>3, <2>4, <2>5, SessionStep
<1>8. CASE ~Reachable(c)
  <2>1. UNCHANGED replies /\ clientsFHandle' = [clientsFHandle EXCEPT ![s] = Free]
    BY <1>4, <1>8 DEF Replies, RepliesThen
  <2>2. clientsFHandle'[s] = Free /\ \A t \in Sessions \ {s} : UNCHANGED clientsFHandle[t]
    BY <2>1 DEF TypeInv, TypeOK
  <2>3. client[c].stage = "dead"
    BY <1>3, <1>4, <1>8 DEF Reachable, Waits
  <2>4. ClientOK(c)'
    BY <1>1, <1>3, <2>1, <2>3 DEF ClientOK, Active
  <2>5. SessionOK(s)'
    BY <1>1, <1>2, <1>5, <1>6 DEF SessionOK
  <2>6. clientsFHandle'[s] # Reserved
    BY <2>2, Constants
  <2> QED
    BY <1>0, <1>1, <1>2, <1>3, <1>5, <1>6, <2>1, <2>2, <2>4, <2>5, <2>6, SessionStep
<1> QED
  BY <1>7, <1>8

\* A worker finishes the session of a client that unmounts.
LEMMA UnmountFinishesKeeps ==
    ASSUME TypeInv, SessInv, NEW s \in Sessions, UnmountFinishes(s)
    PROVE  SessInv'
<1>0. PICK c : c = worker[s].req.client
  OBVIOUS
<1>1. /\ UNCHANGED <<pipe, receiver, threadBuffers, client, replies>>
      /\ worker[s].stage = "running" /\ worker[s].req.op = "unmount"
  BY DEF UnmountFinishes, Runs
<1>2. Busy(s) /\ SessionOK(s) /\ ~threadBuffers[s].readable /\ RequestOf(s) = worker[s].req
  BY <1>1 DEF SessInv, SessionInv, SessionOK, Busy, RequestOf
<1>3. /\ c \in Clients /\ replies[c] = <<>> /\ clientsFHandle[s] \notin Clients \ {c}
      /\ ClientOK(c)
  BY <1>0, <1>2, BusySession
<1>4. Holds(c, s) /\ clientsFHandle[s] = c /\ client[c].op = "unmount" /\ Waits(c, "reading")
  BY <1>0, <1>1, <1>2 DEF SessionOK, Holds, Asked
<1>5. /\ worker'[s].stage = "unmounting" /\ worker'[s].fd = c /\ worker'[s].req = worker[s].req
      /\ clientsFHandle'[s] = Free
      /\ \A t \in Sessions \ {s} : UNCHANGED <<clientsFHandle[t], worker[t]>>
  <2>1. /\ clientsFHandle' = [clientsFHandle EXCEPT ![s] = Free]
        /\ worker' = [worker EXCEPT ![s].stage = "unmounting", ![s].fd = c]
    BY <1>3, <1>4 DEF UnmountFinishes
  <2> QED
    BY <2>1 DEF TypeInv, TypeOK
<1>6. Busy(s)' /\ RequestOf(s)' = RequestOf(s)
  BY <1>1, <1>2, <1>5 DEF Busy, RequestOf
<1>7. SessionOK(s)'
  <2>1. \A t \in Sessions \ {s} : Busy(t)' => Busy(t) /\ RequestOf(t)' = RequestOf(t)
    BY <1>1, <1>5 DEF Busy, RequestOf
  <2>2. RequestOf(s).client = c /\ RequestOf(s).op = "unmount"
    BY <1>0, <1>1, <1>2
  <2> QED
    BY <1>1, <1>2, <1>3, <1>4, <1>5, <1>6, <2>1, <2>2 DEF SessionOK, Asked, Waits
<1>8. ClientOK(c)'
  BY <1>1, <1>3, <1>4 DEF ClientOK, Active, Waits
<1>9. RequestOf(s).client = c /\ clientsFHandle'[s] # Reserved
  BY <1>0, <1>2, <1>5, Constants
<1> QED
  BY <1>1, <1>2, <1>3, <1>5, <1>6, <1>7, <1>8, <1>9, SessionStep

\* A worker writes the reply to an unmount.
LEMMA UnmountRepliesKeeps ==
    ASSUME TypeInv, SessInv, NEW s \in Sessions, UnmountReplies(s)
    PROVE  SessInv'
<1>0. PICK c : c = worker[s].req.client
  OBVIOUS
<1>1. /\ UNCHANGED <<pipe, receiver, clientsFHandle, threadBuffers, client>>
      /\ worker[s].stage = "unmounting"
  BY DEF UnmountReplies
<1>2. Busy(s) /\ SessionOK(s) /\ ~threadBuffers[s].readable /\ RequestOf(s) = worker[s].req
  BY <1>1 DEF SessInv, SessionInv, SessionOK, Busy, RequestOf
<1>3. /\ c \in Clients /\ replies[c] = <<>> /\ clientsFHandle[s] \notin Clients \ {c}
      /\ ClientOK(c)
  BY <1>0, <1>2, BusySession
<1>4. /\ worker[s].fd = c /\ clientsFHandle[s] = Free /\ Waits(c, "reading")
      /\ worker[s].req.op = "unmount" /\ client[c].op = "unmount"
  BY <1>0, <1>1, <1>2 DEF SessionOK, Asked
<1>5. /\ worker'[s].stage = "unmounted"
      /\ \A t \in Sessions \ {s} : UNCHANGED worker[t]
  BY DEF UnmountReplies, Turns, TypeInv, TypeOK
<1>6. ~Busy(s)'
  BY <1>1, <1>2, <1>5 DEF Busy
<1>7. SessionOK(s)'
  BY <1>1, <1>2, <1>4, <1>5, <1>6 DEF SessionOK
<1>8. RequestOf(s).client = c /\ clientsFHandle'[s] # Reserved
  BY <1>0, <1>1, <1>2, <1>4, Constants
<1>9. ClientOK(c)' /\ \A d \in Clients \ {c} : replies'[d] = replies[d]
  <2>1. CASE Reachable(c)
    <3>1. WritesReply(c, worker[s].req, 0)
      BY <1>4, <2>1 DEF UnmountReplies
    <3>2. /\ Len(replies'[c]) = 1
          /\ replies'[c][1] = [op |-> "unmount", client |-> c, val |-> 0]
          /\ \A d \in Clients \ {c} : replies'[d] = replies[d]
      BY <1>0, <1>3, <1>4, <3>1, ReplyWritten
    <3>3. ClientOK(c)'
      BY <1>1, <1>3, <1>4, <2>1, <3>2 DEF ClientOK, Active, Reachable, Waits
    <3> QED
      BY <3>2, <3>3
  <2>2. CASE ~Reachable(c)
    <3>1. UNCHANGED replies
      BY <1>4, <2>2 DEF UnmountReplies
    <3> QED
      BY <1>1, <1>3, <3>1 DEF ClientOK, Active
  <2> QED
    BY <2>1, <2>2
<1> QED
  BY <1>1, <1>2, <1>3, <1>5, <1>6, <1>7, <1>8, <1>9, SessionStep

\* A worker finishes the session a second time, and goes back to its loop.
LEMMA UnmountFinishesAgainKeeps ==
    ASSUME TypeInv, SessInv, NEW s \in Sessions, UnmountFinishesAgain(s)
    PROVE  SessInv'
<1>1. /\ UNCHANGED <<pipe, receiver, threadBuffers, client, replies>>
      /\ worker[s].stage = "unmounted"
  BY DEF UnmountFinishesAgain
<1>2. clientsFHandle[s] = Free /\ ~threadBuffers[s].readable
  BY <1>1 DEF SessInv, SessionInv, SessionOK
<1>3. /\ clientsFHandle'[s] = clientsFHandle[s] /\ worker'[s].stage = "checking"
      /\ \A t \in Sessions \ {s} : UNCHANGED <<clientsFHandle[t], worker[t]>>
  BY <1>2 DEF UnmountFinishesAgain, Turns, TypeInv, TypeOK
<1>4. ~Busy(s) /\ ~Busy(s)'
  BY <1>1, <1>2, <1>3 DEF Busy
<1> QED
  BY <1>1, <1>3, <1>4, IdleStep

\* A worker finds nothing to read and goes to sleep.
LEMMA ChecksBufferKeeps ==
    ASSUME TypeInv, SessInv, NEW s \in Sessions, ChecksBuffer(s)
    PROVE  SessInv'
<1>1. /\ UNCHANGED <<pipe, receiver, clientsFHandle, client, replies>>
      /\ worker[s].stage \in {"starting", "checking"}
  BY DEF ChecksBuffer
<1>2. ~threadBuffers[s].readable
  BY <1>1 DEF SessInv, SessionInv, SessionOK
<1>3. /\ worker'[s].stage = "waiting" /\ UNCHANGED threadBuffers
      /\ \A t \in Sessions \ {s} : UNCHANGED worker[t]
  BY <1>2 DEF ChecksBuffer, Turns, TypeInv, TypeOK
<1>4. ~Busy(s) /\ ~Busy(s)'
  BY <1>1, <1>2, <1>3 DEF Busy
<1> QED
  BY <1>1, <1>3, <1>4, IdleStep

\* Whatever a worker does, it keeps the invariant.
LEMMA WorkerKeeps ==
    ASSUME TypeInv, SessInv, NEW s \in Sessions, WorkerNext(s)
    PROVE  SessInv'
BY WakesKeeps, MountOpensKeeps, ExecutesKeeps, RepliesKeeps, UnmountFinishesKeeps,
   UnmountRepliesKeeps, UnmountFinishesAgainKeeps, ChecksBufferKeeps DEF WorkerNext

-----------------------------------------------------------------------------
\* The receiver takes a request out of the pipe; if it is a mount, it may
\* reserve a session for it.
LEMMA ReceiveStep ==
    ASSUME TypeInv, SessInv, Settled, receiver.stage = "reading",
           pipe # <<>>, pipe' = Tail(pipe), UNCHANGED <<threadBuffers, worker, client, replies>>,
           receiver'.stage \in {"storing", "refusing"},
           receiver'.req.client = pipe[1].client, receiver'.req.op = pipe[1].op,
           \A t \in Sessions :
             \/ clientsFHandle'[t] = clientsFHandle[t]
             \/ /\ clientsFHandle[t] = Free /\ clientsFHandle'[t] = Reserved
                /\ ~Busy(t) /\ worker[t].stage # "unmounted"
                /\ receiver'.stage = "storing" /\ receiver'.req.op = "mount"
                /\ receiver'.req.sessionID = t,
           ReceiverInv'
    PROVE  SessInv'
<1>1. /\ \A t \in Sessions : (Busy(t)' <=> Busy(t)) /\ RequestOf(t)' = RequestOf(t)
      /\ ~InHand /\ 1 \in DOMAIN pipe
  BY PipeAfterTail DEF InHand, Busy, RequestOf, TypeInv
<1>2. \A t \in Sessions : \A d \in Clients : clientsFHandle[t] = d => clientsFHandle'[t] = d
  BY Constants
<1>3. PipeInv'
  <2>1. SUFFICES ASSUME NEW i \in DOMAIN pipe' PROVE PipeOK(i)'
    BY DEF PipeInv
  <2>2. /\ i \in Nat /\ i >= 1 /\ pipe'[i] = pipe[i + 1] /\ i + 1 \in DOMAIN pipe
        /\ \A j \in DOMAIN pipe' : j \in Nat /\ pipe'[j] = pipe[j + 1] /\ j + 1 \in DOMAIN pipe
    BY <2>1, PipeAfterTail DEF TypeInv
  <2>3. PICK n \in DOMAIN pipe : n = i + 1
    BY <2>2
  <2>4. PipeOK(n) /\ pipe'[i] = pipe[n] /\ pipe[n].client \in Clients
    BY <2>2, <2>3 DEF SessInv, PipeInv, PipeOK, Asked
  <2>5. receiver'.req.client # pipe[n].client
    BY <1>1, <2>2, <2>3, <2>4 DEF PipeOK
  <2>6. \A j \in DOMAIN pipe' : pipe'[j].client = pipe[n].client => i = j
    BY <2>2, <2>3, <2>4 DEF PipeOK
  <2> QED
    BY <1>1, <1>2, <2>4, <2>5, <2>6 DEF PipeOK, Asked, Waits, Holds
<1>4. SessionInv'
  <2>1. SUFFICES ASSUME NEW t \in Sessions PROVE SessionOK(t)'
    BY DEF SessionInv
  <2>2. SessionOK(t) /\ (Busy(t) => RequestOf(t).client \in Clients)
    BY DEF SessInv, SessionInv, SessionOK, Asked
  <2>3. CASE clientsFHandle'[t] = clientsFHandle[t]
    BY <1>1, <2>2, <2>3 DEF SessionOK, Asked, Waits, Holds
  <2>4. CASE ~Busy(t) /\ worker[t].stage # "unmounted"
    BY <1>1, <2>2, <2>4 DEF SessionOK, Busy
  <2> QED
    BY <2>3, <2>4
<1>5. ReservedInv'
  BY <1>1 DEF SessInv, ReservedInv
<1>6. ClientInv'
  <2>1. SUFFICES ASSUME NEW d \in Clients PROVE ClientOK(d)'
    BY DEF ClientInv
  <2>2. ClientOK(d)
    BY DEF SessInv, ClientInv
  <2> QED
    BY <1>2, <2>2 DEF ClientOK, Active
<1>7. StartInv'
  BY DEF StartInv, Settled
<1> QED
  BY <1>3, <1>4, <1>5, <1>6, <1>7 DEF SessInv

\* The receiver reads a request.
LEMMA ReceiveKeeps ==
    ASSUME Orderly, TypeInv, SessInv, Receive
    PROVE  SessInv'
<1>1. /\ UNCHANGED <<threadBuffers, worker, client, replies>>
      /\ receiver.stage = "reading" /\ pipe # <<>> /\ pipe' = Tail(pipe) /\ Settled
  BY DEF Receive, Orderly
<1>2. /\ 1 \in DOMAIN pipe /\ Head(pipe) = pipe[1] /\ pipe[1] \in Requests
  BY <1>1, PipeAfterTail DEF TypeInv
<1>3. PICK r : r = pipe[1]
  OBVIOUS
<1>4. PipeOK(1)
  BY <1>2 DEF SessInv, PipeInv
<1>5. /\ Asked(r)
      /\ r.op = "mount" => Waits(r.client, "opening")
      /\ r.op # "mount" => Holds(r.client, r.sessionID)
      /\ \A t \in Sessions : Busy(t) => RequestOf(t).client # r.client
  BY <1>3, <1>4 DEF PipeOK
<1>6. \A t \in Sessions : (Busy(t)' <=> Busy(t)) /\ RequestOf(t)' = RequestOf(t)
  BY <1>1 DEF Busy, RequestOf
<1>7. ASSUME NEW s \in FreeSessions, r.op = "mount", ~HandingOver,
             clientsFHandle' = [clientsFHandle EXCEPT ![s] = Reserved],
             receiver' = [stage |-> "storing", req |-> [r EXCEPT !.sessionID = s]]
      PROVE  SessInv'
  <2>1. s \in Sessions /\ clientsFHandle[s] = Free
    BY DEF FreeSessions
  <2>2. /\ clientsFHandle'[s] = Reserved
        /\ \A t \in Sessions \ {s} : clientsFHandle'[t] = clientsFHandle[t]
    BY <1>7, <2>1 DEF TypeInv, TypeOK
  <2>3. /\ receiver'.stage = "storing" /\ receiver'.req.sessionID = s
        /\ receiver'.req.op = r.op /\ receiver'.req.client = r.client
    BY <1>2, <1>3, <1>7 DEF Requests
  <2>4. worker[s].stage \notin {"unmounting", "unmounted"}
    BY <1>7, <2>1 DEF HandingOver
  <2>5. ~Busy(s)
    <3>1. SUFFICES ASSUME Busy(s) PROVE FALSE
      OBVIOUS
    <3>2. SessionOK(s) /\ RequestOf(s).client \in Clients
      BY <2>1, <3>1, BusySession
    <3> QED
      BY <2>1, <2>4, <3>1, <3>2, Constants DEF SessionOK, Holds, Busy
  <2>6. ReceiverInv'
    BY <1>1, <1>5, <1>6, <1>7, <2>1, <2>2, <2>3, <2>4, <2>5 DEF ReceiverInv, InHand, Asked, Waits
  <2>7. \A t \in Sessions :
          \/ clientsFHandle'[t] = clientsFHandle[t]
          \/ /\ clientsFHandle[t] = Free /\ clientsFHandle'[t] = Reserved
             /\ ~Busy(t) /\ worker[t].stage # "unmounted"
             /\ receiver'.stage = "storing" /\ receiver'.req.op = "mount"
             /\ receiver'.req.sessionID = t
    BY <1>7, <2>1, <2>2, <2>3, <2>4, <2>5
  <2>8. receiver'.req.client = pipe[1].client /\ receiver'.req.op = pipe[1].op
    BY <1>3, <2>3
  <2> QED
    BY <1>1, <2>3, <2>6, <2>7, <2>8, ReceiveStep
<1>8. ASSUME receiver'.req = r, UNCHANGED clientsFHandle,
             \/ receiver'.stage = "refusing" /\ r.op = "mount"
             \/ receiver'.stage = "storing" /\ r.op # "mount"
      PROVE  SessInv'
  <2>1. ReceiverInv'
    <3>1. CASE receiver'.stage = "refusing"
      BY <1>1, <1>5, <1>6, <1>8, <3>1 DEF ReceiverInv, InHand, Asked, Waits
    <3>2. CASE receiver'.stage = "storing"
      <4>1. PICK s : s = r.sessionID
        OBVIOUS
      <4>2. /\ s \in Sessions /\ r.client \in Clients /\ clientsFHandle[s] = r.client
            /\ ~Busy(s) /\ worker[s].stage # "unmounted"
        <5>1. s \in Sessions /\ r.client \in Clients /\ clientsFHandle[s] = r.client
          BY <1>5, <1>8, <3>2, <4>1 DEF Holds, Asked
        <5>2. ~Busy(s)
          BY <1>5, <5>1, BusySession
        <5>3. SessionOK(s)
          BY <5>1 DEF SessInv, SessionInv
        <5> QED
          BY <5>1, <5>2, <5>3, Constants DEF SessionOK
      <4> QED
        BY <1>1, <1>5, <1>6, <1>8, <3>2, <4>1, <4>2 DEF ReceiverInv, InHand, Asked, Waits, Holds
    <3> QED
      BY <1>8, <3>1, <3>2
  <2> QED
    BY <1>1, <1>3, <1>8, <2>1, ReceiveStep
<1>9. CASE ReceiveMount
  BY <1>2, <1>3, <1>7, <1>8, <1>9 DEF ReceiveMount, Orderly
<1>10. CASE ReceiveOther
  BY <1>2, <1>3, <1>8, <1>10 DEF ReceiveOther
<1> QED
  BY <1>9, <1>10 DEF Receive

\* The receiver leaves the request in the buffer of the session.
LEMMA WriteKeeps ==
    ASSUME TypeInv, SessInv, writeToBufferPC
    PROVE  SessInv'
<1>0. PICK s : s = receiver.req.sessionID
  OBVIOUS
<1>1. /\ UNCHANGED <<pipe, clientsFHandle, worker, client, replies>>
      /\ receiver.stage = "storing" /\ MutexFree(s)
  BY <1>0 DEF writeToBufferPC
<1>2. PICK r : r = receiver.req
  OBVIOUS
<1>3. /\ Asked(r) /\ r.client \in Clients /\ r.op \in Requested /\ r.sessionID = s
      /\ \A t \in Sessions : Busy(t) => RequestOf(t).client # r.client
      /\ s \in Sessions /\ ~Busy(s)
      /\ r.op = "mount" => clientsFHandle[s] = Reserved /\ Waits(r.client, "opening")
      /\ r.op # "mount" => Holds(r.client, s)
  BY <1>0, <1>1, <1>2 DEF SessInv, ReceiverInv, InHand, Asked
<1>4. worker[s].stage = "waiting" /\ Settled
  <2>1. Settled
    BY <1>1 DEF SessInv, StartInv
  <2>2. worker[s].stage = "signalled" => Busy(s)
    BY <1>3 DEF SessInv, SessionInv, SessionOK, Busy
  <2> QED
    BY <1>1, <1>3, <2>1, <2>2 DEF Settled, MutexFree
<1>5. receiver'.stage = "signalling" /\ receiver'.req = r
  <2>1. receiver' = [receiver EXCEPT !.stage = "signalling"]
    BY DEF writeToBufferPC
  <2> QED
    BY <1>2, <2>1 DEF TypeInv, TypeOK
<1>6. /\ threadBuffers'[s].readable /\ threadBuffers'[s].info = r
      /\ \A t \in Sessions \ {s} : threadBuffers'[t] = threadBuffers[t]
  <2>1. threadBuffers' = [threadBuffers EXCEPT ![s] = [readable |-> TRUE, info |-> r]]
    BY <1>0, <1>2 DEF writeToBufferPC
  <2> QED
    BY <1>3, <2>1 DEF TypeInv, TypeOK
<1>7. /\ ~InHand' /\ InHand /\ Busy(s)' /\ RequestOf(s)' = r
      /\ \A t \in Sessions \ {s} : (Busy(t)' <=> Busy(t)) /\ RequestOf(t)' = RequestOf(t)
  BY <1>1, <1>5, <1>6 DEF InHand, Busy, RequestOf
<1>8. PipeInv'
  <2>1. SUFFICES ASSUME NEW i \in DOMAIN pipe PROVE PipeOK(i)'
    BY <1>1 DEF PipeInv
  <2>2. PipeOK(i) /\ pipe[i].client # r.client
    BY <1>2, <1>7 DEF SessInv, PipeInv, PipeOK
  <2> QED
    BY <1>1, <1>7, <2>2 DEF PipeOK, Asked, Waits, Holds
<1>9. ReceiverInv'
  BY <1>0, <1>1, <1>2, <1>3, <1>4, <1>5, <1>6, <1>7 DEF ReceiverInv, InHand
<1>10. SessionInv'
  <2>1. ASSUME NEW t \in Sessions, t # s PROVE SessionOK(t)'
    <3>1. SessionOK(t) /\ (Busy(t) => RequestOf(t).client # r.client)
      BY <1>3 DEF SessInv, SessionInv
    <3> QED
      BY <1>1, <1>6, <1>7, <2>1, <3>1 DEF SessionOK, Asked, Waits, Holds, Busy
  <2>2. SessionOK(s)'
    BY <1>1, <1>3, <1>4, <1>6, <1>7 DEF SessionOK, Asked, Waits, Holds
  <2> QED
    BY <2>1, <2>2 DEF SessionInv
<1>11. ReservedInv'
  <2>1. SUFFICES ASSUME NEW t \in Sessions, clientsFHandle[t] = Reserved
                 PROVE  Busy(t)' /\ RequestOf(t)'.op = "mount" /\ worker[t].stage # "replying"
    BY <1>1 DEF ReservedInv
  <2>2. CASE t = s
    <3>1. r.op = "mount"
      BY <1>3, <2>1, <2>2, Constants DEF Holds
    <3> QED
      BY <1>4, <1>7, <2>2, <3>1
  <2>3. CASE t # s
    BY <1>0, <1>7, <2>1, <2>3 DEF SessInv, ReservedInv
  <2> QED
    BY <2>2, <2>3
<1>12. ClientInv'
  <2>1. SUFFICES ASSUME NEW d \in Clients PROVE ClientOK(d)'
    BY DEF ClientInv
  <2>2. ClientOK(d)
    BY DEF SessInv, ClientInv
  <2> QED
    BY <1>1, <2>2 DEF ClientOK, Active
<1>13. StartInv'
  BY <1>1, <1>4 DEF StartInv, Settled
<1> QED
  BY <1>8, <1>9, <1>10, <1>11, <1>12, <1>13 DEF SessInv

\* The receiver signals the condition variable of the session.
LEMMA SignalKeeps ==
    ASSUME TypeInv, SessInv, Signal
    PROVE  SessInv'
<1>0. PICK s : s = receiver.req.sessionID
  OBVIOUS
<1>1. /\ UNCHANGED <<pipe, clientsFHandle, threadBuffers, client, replies>>
      /\ receiver.stage = "signalling" /\ receiver'.stage = "reading"
  BY DEF Signal
<1>2. s \in Sessions /\ worker[s].stage = "waiting" /\ threadBuffers[s].readable
  BY <1>0, <1>1 DEF SessInv, ReceiverInv
<1>3. /\ worker'[s].stage = "signalled" /\ worker'[s].req = worker[s].req
      /\ \A t \in Sessions \ {s} : worker'[t] = worker[t]
  <2>1. worker' = [worker EXCEPT ![s].stage = "signalled"]
    BY <1>0, <1>2 DEF Signal
  <2> QED
    BY <1>2, <2>1 DEF TypeInv, TypeOK
<1>4. /\ ~InHand' /\ ~InHand
      /\ \A t \in Sessions : (Busy(t)' <=> Busy(t)) /\ RequestOf(t)' = RequestOf(t)
  BY <1>1, <1>2, <1>3 DEF InHand, Busy, RequestOf
<1>5. PipeInv'
  <2>1. SUFFICES ASSUME NEW i \in DOMAIN pipe PROVE PipeOK(i)'
    BY <1>1 DEF PipeInv
  <2>2. PipeOK(i)
    BY DEF SessInv, PipeInv
  <2> QED
    BY <1>1, <1>4, <2>2 DEF PipeOK, Asked, Waits, Holds
<1>6. ReceiverInv'
  BY <1>1, <1>4 DEF ReceiverInv, InHand
<1>7. SessionInv'
  <2>1. SUFFICES ASSUME NEW t \in Sessions PROVE SessionOK(t)'
    BY DEF SessionInv
  <2>2. SessionOK(t)
    BY DEF SessInv, SessionInv
  <2>3. CASE t = s
    BY <1>1, <1>2, <1>3, <1>4, <2>2, <2>3 DEF SessionOK, Asked, Waits, Holds
  <2>4. CASE t # s
    BY <1>1, <1>3, <1>4, <2>2, <2>4 DEF SessionOK, Asked, Waits, Holds
  <2> QED
    BY <2>3, <2>4
<1>8. ReservedInv'
  BY <1>1, <1>3, <1>4 DEF SessInv, ReservedInv
<1>9. ClientInv'
  <2>1. SUFFICES ASSUME NEW d \in Clients PROVE ClientOK(d)'
    BY DEF ClientInv
  <2>2. ClientOK(d)
    BY DEF SessInv, ClientInv
  <2> QED
    BY <1>1, <2>2 DEF ClientOK, Active
<1>10. StartInv'
  <2>1. Settled
    BY <1>1 DEF SessInv, StartInv
  <2> QED
    BY <1>3, <2>1 DEF StartInv, Settled
<1> QED
  BY <1>5, <1>6, <1>7, <1>8, <1>9, <1>10 DEF SessInv

\* The receiver ends with a client that it refused, or goes on with it.
LEMMA RefusalStep ==
    ASSUME SessInv, InHand, receiver.stage # "storing",
           NEW c \in Clients, c = receiver.req.client,
           UNCHANGED <<pipe, clientsFHandle, threadBuffers, worker>>,
           \A d \in Clients \ {c} : UNCHANGED <<client[d], replies[d]>>,
           receiver'.req.client = c \/ ~InHand', receiver'.stage # "storing",
           ReceiverInv', ClientOK(c)'
    PROVE  SessInv'
<1>1. \A t \in Sessions : (Busy(t)' <=> Busy(t)) /\ RequestOf(t)' = RequestOf(t)
  BY DEF Busy, RequestOf
<1>2. PipeInv'
  <2>1. SUFFICES ASSUME NEW i \in DOMAIN pipe PROVE PipeOK(i)'
    BY DEF PipeInv
  <2>2. PipeOK(i) /\ pipe[i].client \in Clients \ {c}
    BY DEF SessInv, PipeInv, PipeOK, Asked
  <2> QED
    BY <1>1, <2>2 DEF PipeOK, Asked, Waits, Holds
<1>3. SessionInv'
  <2>1. SUFFICES ASSUME NEW t \in Sessions PROVE SessionOK(t)'
    BY DEF SessionInv
  <2>2. SessionOK(t) /\ (Busy(t) => RequestOf(t).client \in Clients \ {c})
    BY DEF SessInv, SessionInv, SessionOK, ReceiverInv, Asked
  <2> QED
    BY <1>1, <2>2 DEF SessionOK, Asked, Waits, Holds, Busy
<1>4. ReservedInv'
  BY <1>1 DEF SessInv, ReservedInv
<1>5. ClientInv'
  <2>1. ASSUME NEW d \in Clients, d # c PROVE ClientOK(d)'
    <3>1. ClientOK(d)
      BY DEF SessInv, ClientInv
    <3> QED
      BY <2>1, <3>1 DEF ClientOK, Active
  <2> QED
    BY <2>1 DEF ClientInv
<1>6. StartInv'
  BY DEF SessInv, StartInv, Settled, InHand
<1> QED
  BY <1>2, <1>3, <1>4, <1>5, <1>6 DEF SessInv

\* The receiver opens the pipe of the client it refuses.
LEMMA RefusalOpensKeeps ==
    ASSUME TypeInv, SessInv, RefusalOpens
    PROVE  SessInv'
<1>0. PICK c : c = receiver.req.client
  OBVIOUS
<1>1. /\ UNCHANGED <<pipe, clientsFHandle, threadBuffers, worker, replies>>
      /\ receiver.stage = "refusing" /\ OpensPipe(c)
      /\ receiver'.stage = "refused" /\ receiver'.req = receiver.req
  BY <1>0 DEF RefusalOpens, TypeInv, TypeOK
<1>2. /\ c \in Clients /\ Waits(c, "opening") /\ replies[c] = <<>>
      /\ Asked(receiver.req) /\ receiver.req.op = "mount" /\ client[c].op = "mount"
      /\ \A t \in Sessions : Busy(t) => RequestOf(t).client # c
  BY <1>0, <1>1 DEF SessInv, ReceiverInv, InHand, Asked
<1>3. /\ client'[c].stage = "reading" /\ client'[c].op = "mount"
      /\ \A d \in Clients \ {c} : client'[d] = client[d]
  BY <1>1, <1>2 DEF OpensPipe, Waits, TypeInv, TypeOK
<1>4. \A t \in Sessions : (Busy(t)' <=> Busy(t)) /\ RequestOf(t)' = RequestOf(t)
  BY <1>1 DEF Busy, RequestOf
<1>5. ReceiverInv'
  BY <1>0, <1>1, <1>2, <1>3, <1>4 DEF ReceiverInv, InHand, Asked, Waits
<1>6. ClientOK(c)'
  BY <1>1, <1>2, <1>3 DEF ClientOK, Active, Requested
<1>7. InHand
  BY <1>1 DEF InHand
<1> QED
  BY <1>0, <1>1, <1>2, <1>3, <1>5, <1>6, <1>7, RefusalStep

\* The receiver writes its refusal, or the process ends.
LEMMA RefusalWritesKeeps ==
    ASSUME TypeInv, SessInv, RefusalWrites
    PROVE  SessInv'
<1>0. PICK c : c = receiver.req.client
  OBVIOUS
<1>1. /\ UNCHANGED <<pipe, clientsFHandle, threadBuffers, worker, client>>
      /\ receiver.stage = "refused"
  BY DEF RefusalWrites
<1>2. /\ c \in Clients /\ Waits(c, "reading") /\ replies[c] = <<>>
      /\ receiver.req.op = "mount" /\ client[c].op = "mount" /\ ClientOK(c) /\ InHand
  BY <1>0, <1>1 DEF SessInv, ReceiverInv, ClientInv, InHand, Asked
<1>3. receiver'.stage \in {"reading", "exited"}
  BY DEF RefusalWrites, TypeInv, TypeOK
<1>4. ReceiverInv' /\ ~InHand'
  BY <1>3 DEF ReceiverInv, InHand
<1>5. ClientOK(c)' /\ \A d \in Clients \ {c} : replies'[d] = replies[d]
  <2>1. CASE Reachable(c)
    <3>1. WritesReply(c, receiver.req, -1)
      BY <1>0, <2>1 DEF RefusalWrites
    <3>2. /\ Len(replies'[c]) = 1
          /\ replies'[c][1] = [op |-> "mount", client |-> c, val |-> -1]
          /\ \A d \in Clients \ {c} : replies'[d] = replies[d]
      BY <1>0, <1>2, <3>1, ReplyWritten
    <3>3. ClientOK(c)'
      BY <1>1, <1>2, <2>1, <3>2 DEF ClientOK, Active, Reachable, Waits
    <3> QED
      BY <3>2, <3>3
  <2>2. CASE ~Reachable(c)
    <3>1. UNCHANGED replies
      BY <1>0, <2>2 DEF RefusalWrites
    <3> QED
      BY <1>1, <1>2, <3>1 DEF ClientOK, Active
  <2> QED
    BY <2>1, <2>2
<1> QED
  BY <1>0, <1>1, <1>2, <1>3, <1>4, <1>5, RefusalStep

-----------------------------------------------------------------------------
ReceiverType == [stage : {"reading", "storing", "signalling", "refusing", "refused", "exited"},
                 req : Requests]
BufferType == [readable : BOOLEAN, info : Requests]
WorkerType == [stage : {"starting", "checking", "waiting", "signalled", "running",
                        "replying", "unmounting", "unmounted"},
               req : Requests, fd : Clients \cup {NoClient, Free, Reserved}]
ClientType == [stage : {"new", "opening", "reading", "mounted", "left", "refused", "dead"},
               op : {"none", "mount", "call", "unmount"}, session_id : Sessions \cup {-1}]

\* The types, one variable at a time, in a state and in the next one.
LEMMA TypeParts ==
    ASSUME TypeInv
    PROVE  /\ receiver \in ReceiverType
           /\ clientsFHandle \in [Sessions -> Clients \cup {Free, Reserved}]
           /\ threadBuffers \in [Sessions -> BufferType]
           /\ worker \in [Sessions -> WorkerType]
           /\ client \in [Clients -> ClientType]
BY DEF TypeInv, TypeOK, ReceiverType, BufferType, WorkerType, ClientType

\* A step that leaves every variable with its type.
LEMMA TypesNext ==
    ASSUME TypeInv,
           pipe' = pipe \/ pipe' \in Seq(Requests),
           receiver' = receiver \/ receiver' \in ReceiverType,
           clientsFHandle' = clientsFHandle
             \/ clientsFHandle' \in [Sessions -> Clients \cup {Free, Reserved}],
           threadBuffers' = threadBuffers \/ threadBuffers' \in [Sessions -> BufferType],
           worker' = worker \/ worker' \in [Sessions -> WorkerType],
           client' = client \/ client' \in [Clients -> ClientType],
           replies' = replies \/ replies' \in [Clients -> Seq(ReplyType)]
    PROVE  TypeInv'
<1>1. \A c \in Clients : replies'[c] \in
        Seq([op : {"mount", "call", "unmount"}, client : Clients, val : Sessions \cup {-1, 0}])
  BY DEF TypeInv, ReplyType, Requested
<1>2. receiver' \in ReceiverType
  BY DEF TypeInv, TypeOK, ReceiverType
<1>3. threadBuffers' \in [Sessions -> BufferType]
  BY DEF TypeInv, TypeOK, BufferType
<1>4. worker' \in [Sessions -> WorkerType]
  BY DEF TypeInv, TypeOK, WorkerType
<1>5. client' \in [Clients -> ClientType]
  BY DEF TypeInv, TypeOK, ClientType
<1>6. /\ pipe' \in Seq(Requests) /\ replies' \in [Clients -> Seq(ReplyType)]
      /\ clientsFHandle' \in [Sessions -> Clients \cup {Free, Reserved}]
  BY DEF TypeInv, TypeOK
<1>7. TypeOK'
  BY <1>1, <1>2, <1>3, <1>4, <1>5, <1>6
     DEF TypeOK, ReceiverType, BufferType, WorkerType, ClientType
<1> QED
  BY <1>6, <1>7 DEF TypeInv

\* The requests have the types of their fields.
LEMMA RequestParts ==
    /\ NoRequest \in Requests
    /\ \A r \in Requests, s \in Sessions : [r EXCEPT !.sessionID = s] \in Requests
BY DEF NoRequest, Requests

\* A reply that is written has its type.
LEMMA WritesTyped ==
    ASSUME TypeInv, NEW c \in Clients, NEW req, NEW val \in Sessions \cup {-1, 0},
           req.op \in Requested, req.client \in Clients, WritesReply(c, req, val)
    PROVE  replies' \in [Clients -> Seq(ReplyType)]
<1>1. PICK reply \in ReplyType : reply = [op |-> req.op, client |-> req.client, val |-> val]
  BY DEF ReplyType
<1>2. Append(replies[c], reply) \in Seq(ReplyType)
  BY AppendProperties DEF TypeInv
<1>3. replies' = [replies EXCEPT ![c] = Append(replies[c], reply)]
  BY <1>1 DEF WritesReply
<1> QED
  BY <1>2, <1>3 DEF TypeInv

\* The clients' steps keep the types.
LEMMA ClientTypes ==
    ASSUME TypeInv, SessInv, NEW c \in Clients, ClientNext(c) \/ Reads(c)
    PROVE  TypeInv'
<1>0. client \in [Clients -> ClientType]
  BY TypeParts
<1>1. ASSUME NEW op \in Requested, NEW stage \in {"opening", "reading"}, Asks(c, op, stage)
      PROVE  TypeInv'
  <2>1. PICK r \in Requests : r = [op |-> op, client |-> c, sessionID |-> client[c].session_id]
    BY <1>0 DEF ClientType, Requests, Requested
  <2>2. pipe' = Append(pipe, r)
    BY <1>1, <2>1 DEF Asks
  <2>3. pipe' \in Seq(Requests)
    BY <2>2, AppendProperties DEF TypeInv, TypeOK
  <2>4. UNCHANGED <<receiver, clientsFHandle, threadBuffers, worker, replies>>
    BY <1>1 DEF Asks, server
  <2>5. client' = [client EXCEPT ![c].stage = stage, ![c].op = op]
    BY <1>1 DEF Asks
  <2>6. client' \in [Clients -> ClientType]
    <3>1. [client[c] EXCEPT !.stage = stage, !.op = op] \in ClientType
      BY <1>0 DEF ClientType, Requested
    <3>2. client' = [client EXCEPT ![c] = [client[c] EXCEPT !.stage = stage, !.op = op]]
      BY <2>5
    <3> QED
      BY <1>0, <3>1, <3>2
  <2> QED
    BY <2>3, <2>4, <2>6, TypesNext
<1>2. CASE tfs_mount(c)
  BY <1>1, <1>2 DEF tfs_mount, Requested
<1>3. CASE tfs_call(c)
  BY <1>1, <1>3 DEF tfs_call, Requested
<1>4. CASE tfs_unmount(c)
  BY <1>1, <1>4 DEF tfs_unmount, Requested
<1>5. CASE Dies(c)
  <2>1. client' \in [Clients -> ClientType]
    BY <1>0, <1>5 DEF Dies, ClientType
  <2>2. UNCHANGED <<pipe, receiver, clientsFHandle, threadBuffers, worker, replies>>
    BY <1>5 DEF Dies, server
  <2> QED
    BY <2>1, <2>2, TypesNext
<1>6. CASE Reads(c)
  <2>0. replies[c] # <<>> /\ replies[c] \in Seq(ReplyType)
    BY <1>6 DEF Reads, TypeInv
  <2>1. PICK val : val = Head(replies[c]).val
    OBVIOUS
  <2>2. client[c].op = "mount" => val \in Sessions \cup {-1}
    BY <2>0, <2>1 DEF SessInv, ClientInv, ClientOK
  <2>3. Tail(replies[c]) \in Seq(ReplyType)
    BY <2>0, HeadTailProperties
  <2>4. replies' \in [Clients -> Seq(ReplyType)]
    BY <1>6, <2>3 DEF Reads, TypeInv
  <2>5. PICK stage \in {"refused", "mounted", "left"} : stage = StageAfter(client[c].op, val)
    BY DEF StageAfter
  <2>6. PICK id \in Sessions \cup {-1} : id = IF client[c].op = "mount" THEN val ELSE client[c].session_id
    BY <1>0, <2>2 DEF ClientType
  <2>7. client' = [client EXCEPT ![c].stage = stage, ![c].session_id = id]
    BY <1>6, <2>1, <2>5, <2>6 DEF Reads
  <2>8. UNCHANGED <<pipe, receiver, clientsFHandle, threadBuffers, worker>>
    BY <1>6 DEF Reads, server
  <2>9. client' \in [Clients -> ClientType]
    <3>1. [client[c] EXCEPT !.stage = stage, !.session_id = id] \in ClientType
      BY <1>0 DEF ClientType
    <3>2. client' = [client EXCEPT ![c] = [client[c] EXCEPT !.stage = stage, !.session_id = id]]
      BY <2>7
    <3> QED
      BY <1>0, <3>1, <3>2
  <2> QED
    BY <2>4, <2>8, <2>9, TypesNext
<1> QED
  BY <1>2, <1>3, <1>4, <1>5, <1>6 DEF ClientNext

\* The receiver's steps keep the types.
LEMMA ReceiverTypes ==
    ASSUME TypeInv, SessInv, ReceiverNext
    PROVE  TypeInv'
<1>0. /\ receiver \in ReceiverType /\ client \in [Clients -> ClientType]
      /\ worker \in [Sessions -> WorkerType] /\ threadBuffers \in [Sessions -> BufferType]
      /\ clientsFHandle \in [Sessions -> Clients \cup {Free, Reserved}]
  BY TypeParts
<1>1. CASE Receive
  <2>1. PICK r \in Requests : r = Head(pipe)
    BY <1>1, PipeAfterTail DEF Receive, TypeInv
  <2>2. pipe' \in Seq(Requests) /\ UNCHANGED <<threadBuffers, worker, client, replies>>
    BY <1>1, PipeAfterTail DEF Receive, TypeInv
  <2>3. CASE ReceiveMount
    <3>1. ASSUME NEW s \in FreeSessions,
                 clientsFHandle' = [clientsFHandle EXCEPT ![s] = Reserved],
                 receiver' = [stage |-> "storing", req |-> [r EXCEPT !.sessionID = s]]
          PROVE  TypeInv'
      <4>1. clientsFHandle' \in [Sessions -> Clients \cup {Free, Reserved}]
        BY <1>0, <3>1
      <4>2. receiver' \in ReceiverType
        BY <3>1, RequestParts DEF FreeSessions, ReceiverType
      <4> QED
        BY <2>2, <4>1, <4>2, TypesNext
    <3>2. ASSUME UNCHANGED clientsFHandle, receiver' = [stage |-> "refusing", req |-> r]
          PROVE  TypeInv'
      <4>1. receiver' \in ReceiverType
        BY <3>2 DEF ReceiverType
      <4> QED
        BY <2>2, <3>2, <4>1, TypesNext
    <3> QED
      BY <2>1, <2>3, <3>1, <3>2 DEF ReceiveMount
  <2>4. CASE ReceiveOther
    <3>1. receiver' \in ReceiverType
      BY <2>1, <2>4 DEF ReceiveOther, ReceiverType
    <3> QED
      BY <2>2, <2>4, <3>1, TypesNext DEF ReceiveOther
  <2> QED
    BY <1>1, <2>3, <2>4 DEF Receive
<1>2. CASE writeToBufferPC
  <2>1. receiver' \in ReceiverType /\ receiver.req \in Requests
    BY <1>0, <1>2 DEF writeToBufferPC, ReceiverType
  <2>2. threadBuffers' \in [Sessions -> BufferType]
    BY <1>0, <1>2, <2>1 DEF writeToBufferPC, BufferType
  <2> QED
    BY <1>2, <2>1, <2>2, TypesNext DEF writeToBufferPC
<1>3. CASE Signal
  <2>1. receiver' \in ReceiverType
    BY <1>3, RequestParts DEF Signal, ReceiverType
  <2>2. worker' \in [Sessions -> WorkerType]
    <3>1. PICK s \in Sessions : s = receiver.req.sessionID
      BY <1>3 DEF Signal, SessInv, ReceiverInv
    <3>2. \/ worker' = worker
          \/ worker' = [worker EXCEPT ![s].stage = "signalled"]
      BY <1>3, <3>1 DEF Signal
    <3> QED
      BY <1>0, <3>2 DEF WorkerType
  <2> QED
    BY <1>3, <2>1, <2>2, TypesNext DEF Signal
<1>4. CASE RefusalOpens
  <2>1. receiver' \in ReceiverType
    BY <1>0, <1>4 DEF RefusalOpens, ReceiverType
  <2>2. client' \in [Clients -> ClientType]
    <3>1. PICK c \in Clients : c = receiver.req.client
      BY <1>4 DEF RefusalOpens, SessInv, ReceiverInv, InHand, Asked
    <3>2. PICK stage \in {"opening", "reading", "mounted"} :
            client' = [client EXCEPT ![c].stage = stage]
      BY <1>4, <3>1 DEF RefusalOpens, OpensPipe
    <3> QED
      BY <1>0, <3>2 DEF ClientType
  <2> QED
    BY <1>4, <2>1, <2>2, TypesNext DEF RefusalOpens
<1>5. CASE RefusalWrites
  <2>1. /\ UNCHANGED <<pipe, clientsFHandle, threadBuffers, worker, client>>
        /\ receiver.stage = "refused"
    BY <1>5 DEF RefusalWrites
  <2>2. receiver.req.client \in Clients /\ receiver.req.op \in Requested
    BY <2>1 DEF SessInv, ReceiverInv, InHand, Asked
  <2>3. replies' \in [Clients -> Seq(ReplyType)]
    BY <1>5, <2>2, WritesTyped DEF RefusalWrites, TypeInv
  <2>4. receiver' \in ReceiverType
    BY <1>0, <1>5, RequestParts DEF RefusalWrites, ReceiverType
  <2> QED
    BY <2>1, <2>3, <2>4, TypesNext
<1> QED
  BY <1>1, <1>2, <1>3, <1>4, <1>5 DEF ReceiverNext

\* The workers' steps keep the types.
LEMMA WorkerTypes ==
    ASSUME TypeInv, SessInv, NEW s \in Sessions, WorkerNext(s)
    PROVE  TypeInv'
<1>0. /\ client \in [Clients -> ClientType]
      /\ worker \in [Sessions -> WorkerType] /\ threadBuffers \in [Sessions -> BufferType]
      /\ clientsFHandle \in [Sessions -> Clients \cup {Free, Reserved}]
  BY TypeParts
<1>1. ASSUME NEW stage \in {"checking", "waiting", "unmounted"}, Turns(s, stage)
      PROVE  worker' \in [Sessions -> WorkerType]
  BY <1>0, <1>1 DEF Turns, WorkerType
<1>2. ASSUME Takes(s), UNCHANGED <<pipe, receiver, clientsFHandle, client, replies>>
      PROVE  TypeInv'
  <2>1. worker' \in [Sessions -> WorkerType]
    BY <1>0, <1>2 DEF Takes, WorkerType, BufferType
  <2>2. threadBuffers' \in [Sessions -> BufferType]
    BY <1>0, <1>2 DEF Takes, BufferType
  <2> QED
    BY <1>2, <2>1, <2>2, TypesNext
<1>3. ASSUME NEW stage \in {"replying", "unmounting"},
             NEW fd \in Clients \cup {NoClient, Free, Reserved},
             worker' = [worker EXCEPT ![s].stage = stage, ![s].fd = fd]
      PROVE  worker' \in [Sessions -> WorkerType]
  <2>1. [worker[s] EXCEPT !.stage = stage, !.fd = fd] \in WorkerType
    BY <1>0 DEF WorkerType
  <2>2. worker' = [worker EXCEPT ![s] = [worker[s] EXCEPT !.stage = stage, !.fd = fd]]
    BY <1>3
  <2> QED
    BY <1>0, <2>1, <2>2
<1>4. ASSUME clientsFHandle' = [clientsFHandle EXCEPT ![s] = Free]
      PROVE  clientsFHandle' \in [Sessions -> Clients \cup {Free, Reserved}]
  BY <1>0, <1>4
<1>5. ASSUME NEW fd, NEW val \in Sessions \cup {0}, Busy(s), ~threadBuffers[s].readable,
             Reachable(fd), WritesReply(fd, worker[s].req, val)
      PROVE  replies' \in [Clients -> Seq(ReplyType)]
  <2>1. RequestOf(s) = worker[s].req /\ fd \in Clients
    BY <1>5 DEF RequestOf, Reachable
  <2> QED
    BY <1>5, <2>1, BusySession, WritesTyped
<1>6. CASE ChecksBuffer(s)
  <2>1. CASE threadBuffers[s].readable
    BY <1>2, <1>6, <2>1 DEF ChecksBuffer
  <2>2. CASE ~threadBuffers[s].readable
    BY <1>1, <1>6, <2>2, TypesNext DEF ChecksBuffer
  <2> QED
    BY <2>1, <2>2
<1>7. CASE Wakes(s)
  BY <1>2, <1>7 DEF Wakes
<1>8. CASE MountOpens(s)
  <2>1. PICK c : c = worker[s].req.client
    OBVIOUS
  <2>2. c \in Clients
    <3>1. Busy(s) /\ SessionOK(s)
      BY <1>8 DEF MountOpens, Runs, SessInv, SessionInv, Busy
    <3>2. ~threadBuffers[s].readable
      BY <1>8, <3>1 DEF MountOpens, Runs, SessionOK
    <3> QED
      BY <2>1, <3>1, <3>2, BusySession DEF RequestOf
  <2>3. PICK stage \in {"opening", "reading", "mounted"} :
          client' = [client EXCEPT ![c].stage = stage]
    BY <1>0, <1>8, <2>1, <2>2 DEF MountOpens, OpensPipe
  <2>4. client' \in [Clients -> ClientType]
    BY <1>0, <2>2, <2>3 DEF ClientType
  <2>5. worker' \in [Sessions -> WorkerType]
    BY <1>3, <1>8, <2>1, <2>2 DEF MountOpens
  <2>6. clientsFHandle' \in [Sessions -> Clients \cup {Free, Reserved}]
    BY <1>0, <1>8, <2>1, <2>2 DEF MountOpens
  <2> QED
    BY <1>8, <2>4, <2>5, <2>6, TypesNext DEF MountOpens
<1>9. CASE Executes(s)
  <2>1. worker' \in [Sessions -> WorkerType]
    BY <1>0, <1>3, <1>9 DEF Executes
  <2> QED
    BY <1>9, <2>1, TypesNext DEF Executes
<1>10. CASE Replies(s)
  <2>1. Busy(s) /\ SessionOK(s)
    BY <1>10 DEF Replies, RepliesThen, SessInv, SessionInv, Busy
  <2>2. ~threadBuffers[s].readable
    BY <1>10, <2>1 DEF Replies, RepliesThen, SessionOK
  <2>3. replies' = replies \/ replies' \in [Clients -> Seq(ReplyType)]
    BY <1>5, <1>10, <2>1, <2>2 DEF Replies, RepliesThen
  <2>4. worker' \in [Sessions -> WorkerType]
    BY <1>1, <1>10 DEF Replies, RepliesThen
  <2>5. \/ clientsFHandle' = clientsFHandle
        \/ clientsFHandle' \in [Sessions -> Clients \cup {Free, Reserved}]
    BY <1>4, <1>10 DEF Replies, RepliesThen
  <2> QED
    BY <1>10, <2>3, <2>4, <2>5, TypesNext DEF Replies, RepliesThen
<1>11. CASE UnmountFinishes(s)
  <2>1. worker' \in [Sessions -> WorkerType]
    BY <1>0, <1>3, <1>11 DEF UnmountFinishes
  <2>2. \/ clientsFHandle' = clientsFHandle
        \/ clientsFHandle' \in [Sessions -> Clients \cup {Free, Reserved}]
    BY <1>4, <1>11 DEF UnmountFinishes
  <2> QED
    BY <1>11, <2>1, <2>2, TypesNext DEF UnmountFinishes
<1>12. CASE UnmountReplies(s)
  <2>1. Busy(s) /\ SessionOK(s)
    BY <1>12 DEF UnmountReplies, SessInv, SessionInv, Busy
  <2>2. ~threadBuffers[s].readable
    BY <1>12, <2>1 DEF UnmountReplies, SessionOK
  <2>3. replies' = replies \/ replies' \in [Clients -> Seq(ReplyType)]
    BY <1>5, <1>12, <2>1, <2>2 DEF UnmountReplies
  <2>4. worker' \in [Sessions -> WorkerType]
    BY <1>1, <1>12 DEF UnmountReplies
  <2> QED
    BY <1>12, <2>3, <2>4, TypesNext DEF UnmountReplies
<1>13. CASE UnmountFinishesAgain(s)
  <2>1. worker' \in [Sessions -> WorkerType]
    BY <1>1, <1>13 DEF UnmountFinishesAgain
  <2> QED
    BY <1>4, <1>13, <2>1, TypesNext DEF UnmountFinishesAgain
<1> QED
  BY <1>6, <1>7, <1>8, <1>9, <1>10, <1>11, <1>12, <1>13 DEF WorkerNext

-----------------------------------------------------------------------------
\* The invariant and the types hold at the start.
LEMMA InvInit == Init => TypeInv /\ SessInv
<1> SUFFICES ASSUME Init PROVE TypeInv /\ SessInv
  OBVIOUS
<1>1. NoRequest \in Requests
  BY RequestParts
<1>2. TypeInv
  BY <1>1 DEF Init, TypeInv, TypeOK, ReplyType
<1>3. DOMAIN pipe = {} /\ ~InHand /\ \A s \in Sessions : ~Busy(s)
  BY DEF Init, InHand, Busy
<1>4. PipeInv /\ ReceiverInv
  BY <1>3 DEF Init, PipeInv, ReceiverInv, InHand
<1>5. SessionInv /\ ReservedInv
  BY <1>3, Constants DEF Init, SessionInv, SessionOK, ReservedInv
<1>6. ClientInv /\ StartInv
  BY <1>3 DEF Init, ClientInv, ClientOK, Active, StartInv
<1> QED
  BY <1>2, <1>4, <1>5, <1>6 DEF SessInv

\* Every step of an orderly system keeps them.
LEMMA InvNext ==
    ASSUME Orderly, TypeInv, SessInv, [Next]_vars
    PROVE  TypeInv' /\ SessInv'
<1>1. ASSUME NEW c \in Clients, ClientNext(c) \/ Reads(c) PROVE TypeInv' /\ SessInv'
  <2>1. CASE tfs_mount(c)
    BY <1>1, <2>1, ClientTypes, AsksKeeps DEF tfs_mount, ClientNext, Requested
  <2>2. CASE tfs_call(c)
    BY <1>1, <2>2, ClientTypes, AsksKeeps DEF tfs_call, ClientNext, Requested
  <2>3. CASE tfs_unmount(c)
    BY <1>1, <2>3, ClientTypes, AsksKeeps DEF tfs_unmount, ClientNext, Requested
  <2> QED
    BY <1>1, <2>1, <2>2, <2>3, ClientTypes, DiesKeeps, ReadsKeeps DEF ClientNext
<1>2. ASSUME ReceiverNext PROVE TypeInv' /\ SessInv'
  BY <1>2, ReceiverTypes, ReceiveKeeps, WriteKeeps, SignalKeeps, RefusalOpensKeeps,
     RefusalWritesKeeps DEF ReceiverNext
<1>3. ASSUME NEW s \in Sessions, WorkerNext(s) PROVE TypeInv' /\ SessInv'
  BY <1>3, WorkerTypes, WorkerKeeps
<1>4. ASSUME UNCHANGED vars PROVE TypeInv' /\ SessInv'
  <2>1. UNCHANGED <<pipe, receiver, clientsFHandle, threadBuffers, worker, client, replies>>
    BY <1>4 DEF vars
  <2>2. TypeInv'
    BY <2>1, TypesNext
  <2>3. PipeInv' /\ ReceiverInv'
    BY <2>1 DEF SessInv, PipeInv, PipeOK, ReceiverInv, Asked, Waits, Holds, InHand, Busy, RequestOf
  <2>4. SessionInv'
    <3>1. SUFFICES ASSUME NEW s \in Sessions PROVE SessionOK(s)'
      BY DEF SessionInv
    <3>2. SessionOK(s)
      BY DEF SessInv, SessionInv
    <3>3. \A t \in Sessions : (Busy(t)' <=> Busy(t)) /\ RequestOf(t)' = RequestOf(t)
      BY <2>1 DEF Busy, RequestOf
    <3> QED
      BY <2>1, <3>2, <3>3 DEF SessionOK, Asked, Waits, Holds
  <2>6. ReservedInv'
    BY <2>1 DEF SessInv, ReservedInv, Busy, RequestOf
  <2>5. ClientInv' /\ StartInv'
    BY <2>1 DEF SessInv, ClientInv, ClientOK, Active, StartInv, Settled
  <2> QED
    BY <2>2, <2>3, <2>4, <2>6, <2>5 DEF SessInv
<1> QED
  BY <1>1, <1>2, <1>3, <1>4 DEF Next

\* The inductive invariant holds in every state of an orderly system.
LEMMA Invariant ==
    ASSUME Orderly
    PROVE  Spec => [](TypeInv /\ SessInv)
<1>1. TypeInv /\ SessInv /\ [Next]_vars => TypeInv' /\ SessInv'
  BY InvNext
<1> QED
  BY InvInit, <1>1, PTL DEF Spec

\* Whatever the clients and the threads do, every variable keeps its type: a
\* session number in a reply or kept by a client is one that exists, or -1
\* (tfs_server.c:101-121, tecnicofs_client_api.c).
THEOREM TypeCorrect ==
    ASSUME Orderly
    PROVE  Spec => []TypeOK
<1>1. TypeInv => TypeOK
  BY DEF TypeInv
<1> QED
  BY Invariant, <1>1, PTL

\* For any number of clients and sessions, and clients that die at any moment:
\* the session that a mounted client believes to have is its own in the table
\* of the server, so that no two clients share one (tfs_server.c:101-137).
THEOREM SessionsSafe ==
    ASSUME Orderly
    PROVE  Spec => []SessionExclusive
<1>1. SessInv => SessionExclusive
  BY DEF SessInv, ClientInv, ClientOK, SessionExclusive
<1> QED
  BY Invariant, <1>1, PTL

\* A client never finds another client's reply in its pipe, a reply to an
\* earlier request or a second one (tfs_server.c:445-467).
THEOREM RepliesSafe ==
    ASSUME Orderly
    PROVE  Spec => []RepliesMatch
<1>1. SessInv => RepliesMatch
  BY DEF SessInv, ClientInv, ClientOK, RepliesMatch
<1> QED
  BY Invariant, <1>1, PTL

\* The receiver never writes over a request that waits for its worker
\* (tfs_server.c:405-408).
THEOREM BuffersSafe ==
    ASSUME Orderly
    PROVE  Spec => NoRequestOverwritten
<1>1. ASSUME TypeInv, SessInv, [Next]_vars, NEW s \in Sessions, threadBuffers[s].readable
      PROVE  threadBuffers'[s].info = threadBuffers[s].info
  <2>0. threadBuffers \in [Sessions -> BufferType]
    BY <1>1, TypeParts
  <2>1. CASE UNCHANGED threadBuffers
    BY <2>1
  <2>2. CASE writeToBufferPC
    <3>1. receiver.req.sessionID # s
      BY <1>1, <2>2 DEF writeToBufferPC, SessInv, ReceiverInv, Busy
    <3> QED
      BY <2>0, <2>2, <3>1 DEF writeToBufferPC
  <2>3. ASSUME NEW t \in Sessions, Takes(t)
        PROVE  threadBuffers'[s].info = threadBuffers[s].info
    BY <2>0, <2>3 DEF Takes, BufferType
  <2>4. CASE Next
    <3>1. ASSUME NEW c \in Clients, ClientNext(c) \/ Reads(c) PROVE UNCHANGED threadBuffers
      BY <3>1 DEF ClientNext, tfs_mount, tfs_call, tfs_unmount, Asks, Dies, Reads, server
    <3>2. ReceiverNext => UNCHANGED threadBuffers \/ writeToBufferPC
      BY DEF ReceiverNext, Receive, Signal, RefusalOpens, RefusalWrites
    <3>3. ASSUME NEW t \in Sessions, WorkerNext(t) PROVE UNCHANGED threadBuffers \/ Takes(t)
      BY <3>3 DEF WorkerNext, ChecksBuffer, Wakes, MountOpens, Executes, Replies, RepliesThen,
                  UnmountFinishes, UnmountReplies, UnmountFinishesAgain
    <3> QED
      BY <2>1, <2>2, <2>3, <2>4, <3>1, <3>2, <3>3 DEF Next
  <2>5. CASE UNCHANGED vars
    BY <2>1, <2>5 DEF vars
  <2> QED
    BY <1>1, <2>4, <2>5
<1>2. TypeInv /\ SessInv /\ [Next]_vars =>
        [\A s \in Sessions :
           threadBuffers[s].readable => threadBuffers'[s].info = threadBuffers[s].info]_vars
  BY <1>1
<1> QED
  BY Invariant, <1>2, PTL DEF Spec, NoRequestOverwritten

-----------------------------------------------------------------------------
\* The client a session is reserved for.
LEMMA ReservedFor ==
    ASSUME SessInv, NEW s \in Sessions, clientsFHandle[s] = Reserved
    PROVE  MountOf(s) \in Clients
<1>1. MountOf(s) = IF /\ receiver.stage = "storing" /\ receiver.req.op = "mount"
                      /\ receiver.req.sessionID = s
                   THEN receiver.req.client ELSE RequestOf(s).client
  BY DEF MountOf, RequestOf
<1>2. receiver.stage = "storing" => receiver.req.client \in Clients
  BY DEF SessInv, ReceiverInv, InHand, Asked
<1>3. Busy(s) => RequestOf(s).client \in Clients
  BY BusySession
<1> QED
  BY <1>1, <1>2, <1>3 DEF SessInv, ReservedInv

\* The owners of the sessions, after a step that changes that of at most one.
LEMMA SameOwners ==
    ASSUME \A s \in Sessions : /\ clientsFHandle'[s] = clientsFHandle[s]
                               /\ clientsFHandle[s] = Reserved => MountOf(s)' = MountOf(s)
    PROVE  SessionOwner' = SessionOwner
BY DEF SessionOwner

\* The same, when the owner of one session becomes o.
LEMMA OneOwner ==
    ASSUME NEW s \in Sessions, NEW o,
           clientsFHandle'[s] = Reserved => MountOf(s)' = o,
           clientsFHandle'[s] # Reserved => clientsFHandle'[s] = o,
           \A t \in Sessions \ {s} :
             /\ clientsFHandle'[t] = clientsFHandle[t]
             /\ clientsFHandle[t] = Reserved => MountOf(t)' = MountOf(t)
    PROVE  SessionOwner' = [SessionOwner EXCEPT ![s] = o]
BY DEF SessionOwner

\* Who is leaving, after a step in which nobody comes to leave.
LEMMA SameLeaving ==
    ASSUME \A c \in Clients :
             \/ client'[c] = client[c]
             \/ /\ client[c].stage \notin {"left", "dead"} /\ client'[c].stage \notin {"left", "dead"}
                /\ client[c].op = "unmount" <=> client'[c].op = "unmount"
             \/ client[c].op = "unmount" /\ client'[c].op = "unmount"
    PROVE  LeavingClients' = LeavingClients
BY DEF LeavingClients

\* Whose mount is not decided depends on the pipe only.
LEMMA SamePending ==
    ASSUME UNCHANGED pipe
    PROVE  PendingMounts' = PendingMounts
BY DEF PendingMounts

\* A client asks to mount, to unmount or for a call.
LEMMA AsksRefines ==
    ASSUME TypeInv, SessInv, NEW c \in Clients, ClientNext(c)
    PROVE  [Service!Next]_Service!vars
<1>0. client \in [Clients -> ClientType] /\ ClientOK(c)
  BY TypeParts DEF SessInv, ClientInv
<1>1. UNCHANGED <<receiver, clientsFHandle, threadBuffers, worker, replies>>
  BY DEF ClientNext, tfs_mount, tfs_call, tfs_unmount, Asks, Dies, server
<1>2. SessionOwner' = SessionOwner
  BY <1>1, SameOwners DEF MountOf
<1>3. ASSUME NEW op \in Requested, NEW stage \in {"opening", "reading"}, Asks(c, op, stage),
             client[c].stage \in {"new", "mounted"}
      PROVE  /\ client'[c].stage = stage /\ client'[c].op = op
             /\ \A d \in Clients \ {c} : client'[d] = client[d]
             /\ PendingMounts' = IF op = "mount" THEN PendingMounts \cup {c} ELSE PendingMounts
             /\ c \notin PendingMounts
  <2>1. client' = [client EXCEPT ![c].stage = stage, ![c].op = op]
    BY <1>3 DEF Asks
  <2>2. PICK r \in Requests : r = [op |-> op, client |-> c, sessionID |-> client[c].session_id]
    BY <1>0 DEF ClientType, Requests, Requested
  <2>3. pipe' = Append(pipe, r) /\ r.op = op /\ r.client = c
    BY <1>3, <2>2 DEF Asks
  <2>4. PICK k : /\ DOMAIN pipe' = DOMAIN pipe \cup {k} /\ pipe'[k] = r
                 /\ k \notin DOMAIN pipe
                 /\ \A i \in DOMAIN pipe : pipe'[i] = pipe[i]
    BY <2>3, PipeAfterAppend DEF TypeInv
  <2>5. c \notin PendingMounts
    BY <1>3, NothingAsked DEF PendingMounts
  <2>6. PendingMounts' = IF op = "mount" THEN PendingMounts \cup {c} ELSE PendingMounts
    BY <2>3, <2>4 DEF PendingMounts
  <2> QED
    BY <1>0, <2>1, <2>5, <2>6 DEF ClientType
<1>4. CASE tfs_mount(c)
  <2>1. /\ client'[c].stage = "opening" /\ client'[c].op = "mount"
        /\ \A d \in Clients \ {c} : client'[d] = client[d]
        /\ PendingMounts' = PendingMounts \cup {c} /\ c \notin PendingMounts
        /\ client[c].stage = "new"
    BY <1>3, <1>4 DEF tfs_mount, Requested
  <2>2. LeavingClients' = LeavingClients
    BY <1>0, <2>1, SameLeaving DEF ClientOK
  <2>3. Service!Ask(c)
    BY <1>2, <2>1, <2>2 DEF Service!Ask
  <2> QED
    BY <2>3 DEF Service!Next
<1>5. CASE tfs_call(c)
  <2>1. /\ client'[c].stage = "reading" /\ client'[c].op = "call"
        /\ \A d \in Clients \ {c} : client'[d] = client[d]
        /\ PendingMounts' = PendingMounts
        /\ client[c].stage = "mounted"
    BY <1>3, <1>5 DEF tfs_call, Requested
  <2>2. LeavingClients' = LeavingClients
    BY <1>0, <2>1, SameLeaving DEF ClientOK
  <2> QED
    BY <1>2, <2>1, <2>2 DEF Service!vars
<1>6. CASE tfs_unmount(c)
  <2>1. /\ client'[c].stage = "reading" /\ client'[c].op = "unmount"
        /\ \A d \in Clients \ {c} : client'[d] = client[d]
        /\ PendingMounts' = PendingMounts
    BY <1>3, <1>6 DEF tfs_unmount, Requested
  <2>2. LeavingClients' = LeavingClients \cup {c}
    BY <2>1 DEF LeavingClients
  <2>3. Service!Leave(c)
    BY <1>2, <2>1, <2>2 DEF Service!Leave
  <2> QED
    BY <2>3 DEF Service!Next
<1>7. CASE Dies(c)
  <2>1. UNCHANGED pipe /\ client' = [client EXCEPT ![c].stage = "dead"]
    BY <1>7 DEF Dies
  <2>2. client'[c].stage = "dead" /\ \A d \in Clients \ {c} : client'[d] = client[d]
    BY <1>0, <2>1 DEF ClientType
  <2>3. LeavingClients' = LeavingClients \cup {c}
    BY <2>2 DEF LeavingClients
  <2>4. Service!Leave(c)
    BY <1>2, <2>1, <2>3, SamePending DEF Service!Leave
  <2> QED
    BY <2>4 DEF Service!Next
<1> QED
  BY <1>4, <1>5, <1>6, <1>7 DEF ClientNext

\* A client reads a reply: nothing that the service promises changes.
LEMMA ReadsRefines ==
    ASSUME TypeInv, SessInv, NEW c \in Clients, Reads(c)
    PROVE  UNCHANGED Service!vars
<1>0. client \in [Clients -> ClientType] /\ ClientOK(c)
  BY TypeParts DEF SessInv, ClientInv
<1>1. /\ UNCHANGED <<pipe, receiver, clientsFHandle, threadBuffers, worker>>
      /\ client[c].stage = "reading"
  BY DEF Reads, server
<1>2. SessionOwner' = SessionOwner
  BY <1>1, SameOwners DEF MountOf
<1>3. PICK val : val = Head(replies[c]).val
  OBVIOUS
<1>4. PICK stage, id :
        /\ stage = StageAfter(client[c].op, val)
        /\ client' = [client EXCEPT ![c].stage = stage, ![c].session_id = id]
  BY <1>3 DEF Reads
<1>5. /\ client'[c].op = client[c].op /\ client'[c].stage = stage
      /\ \A d \in Clients \ {c} : client'[d] = client[d]
  BY <1>0, <1>4 DEF ClientType
<1>6. stage \in {"refused", "mounted", "left"} /\ (stage = "left" => client[c].op = "unmount")
  BY <1>4 DEF StageAfter
<1>7. LeavingClients' = LeavingClients
  BY <1>1, <1>5, <1>6, SameLeaving
<1> QED
  BY <1>1, <1>2, <1>7, SamePending DEF Service!vars

\* The receiver reads a request: it grants a session, refuses one, or goes on
\* with a request of a client that has one.
LEMMA ReceiveRefines ==
    ASSUME Orderly, TypeInv, SessInv, Receive
    PROVE  [Service!Next]_Service!vars
<1>1. /\ UNCHANGED <<threadBuffers, worker, client, replies>>
      /\ receiver.stage = "reading" /\ pipe # <<>> /\ pipe' = Tail(pipe)
  BY DEF Receive
<1>2. /\ 1 \in DOMAIN pipe /\ Head(pipe) = pipe[1] /\ pipe[1] \in Requests
      /\ \A i \in DOMAIN pipe' : i \in Nat /\ i >= 1 /\ i + 1 \in DOMAIN pipe /\ pipe'[i] = pipe[i + 1]
  BY <1>1, PipeAfterTail DEF TypeInv
<1>3. PICK r : r = pipe[1]
  OBVIOUS
<1>4. PICK c \in Clients : c = r.client
  BY <1>2, <1>3 DEF SessInv, PipeInv, PipeOK, Asked
<1>5. LeavingClients' = LeavingClients
  BY <1>1, SameLeaving
<1>6. PendingMounts' = IF r.op = "mount" THEN PendingMounts \ {c} ELSE PendingMounts
  <2>1. ASSUME NEW i \in DOMAIN pipe, i # 1
        PROVE  pipe[i].client # c /\ \E j \in DOMAIN pipe' : pipe'[j] = pipe[i]
    <3>1. pipe[i].client # c
      BY <1>2, <1>3, <1>4, <2>1 DEF SessInv, PipeInv, PipeOK
    <3>2. pipe \in Seq(Requests) /\ DOMAIN pipe = 1 .. Len(pipe) /\ Len(pipe) \in Nat
      BY LenProperties DEF TypeInv, TypeOK
    <3>3. /\ pipe' \in Seq(Requests) /\ Len(pipe') = Len(pipe) - 1
          /\ \A j \in 1 .. Len(pipe') : pipe'[j] = pipe[j + 1]
      BY <1>1, <3>2, HeadTailProperties
    <3>4. DOMAIN pipe' = 1 .. Len(pipe) - 1
      BY <3>3, LenProperties
    <3>5. i - 1 \in DOMAIN pipe' /\ pipe'[i - 1] = pipe[(i - 1) + 1] /\ (i - 1) + 1 = i
      BY <2>1, <3>2, <3>3, <3>4
    <3> QED
      BY <3>1, <3>5
  <2>2. ASSUME NEW j \in DOMAIN pipe'
        PROVE  \E i \in DOMAIN pipe : i # 1 /\ pipe[i] = pipe'[j]
    BY <1>2
  <2>3. \A d \in Clients : d \in PendingMounts' <=>
          \E i \in DOMAIN pipe : i # 1 /\ pipe[i].op = "mount" /\ pipe[i].client = d
    BY <2>1, <2>2 DEF PendingMounts
  <2>4. \A d \in Clients \ {c} : d \in PendingMounts' <=> d \in PendingMounts
    BY <1>2, <1>3, <1>4, <2>3 DEF PendingMounts
  <2>5. c \notin PendingMounts'
    BY <1>4, <2>1, <2>3
  <2>6. r.op # "mount" => c \notin PendingMounts
    BY <1>3, <2>1 DEF PendingMounts
  <2>7. PendingMounts' \subseteq Clients /\ PendingMounts \subseteq Clients
    BY DEF PendingMounts
  <2> QED
    BY <2>4, <2>5, <2>6, <2>7
<1>7. r.op = "mount" => c \in PendingMounts
  BY <1>2, <1>3, <1>4 DEF PendingMounts
<1>8. ASSUME NEW s \in FreeSessions, r.op = "mount",
             clientsFHandle' = [clientsFHandle EXCEPT ![s] = Reserved],
             receiver' = [stage |-> "storing", req |-> [r EXCEPT !.sessionID = s]]
      PROVE  Service!Grant(c, s)
  <2>1. s \in Sessions /\ clientsFHandle[s] = Free
    BY DEF FreeSessions
  <2>2. /\ clientsFHandle'[s] = Reserved
        /\ \A t \in Sessions \ {s} : clientsFHandle'[t] = clientsFHandle[t]
    BY <1>8, <2>1, TypeParts
  <2>3. /\ receiver'.stage = "storing" /\ receiver'.req.sessionID = s
        /\ receiver'.req.op = "mount" /\ receiver'.req.client = c
    BY <1>2, <1>3, <1>4, <1>8 DEF Requests
  <2>4. MountOf(s)' = c /\ \A t \in Sessions \ {s} : MountOf(t)' = MountOf(t)
    BY <1>1, <2>3 DEF MountOf
  <2>5. SessionOwner' = [SessionOwner EXCEPT ![s] = c]
    BY <2>1, <2>2, <2>4, OneOwner
  <2>6. SessionOwner[s] = Free
    BY <2>1, Constants DEF SessionOwner
  <2> QED
    BY <1>5, <1>6, <1>7, <1>8, <2>5, <2>6 DEF Service!Grant
<1>9. ASSUME FreeSessions = {}, r.op = "mount", UNCHANGED clientsFHandle,
             receiver' = [stage |-> "refusing", req |-> r]
      PROVE  Service!Refuse(c)
  <2>1. SessionOwner' = SessionOwner
    BY <1>1, <1>9, SameOwners DEF MountOf
  <2>2. ASSUME NEW s \in Sessions PROVE SessionOwner[s] # Free
    BY <1>9, ReservedFor, Constants DEF FreeSessions, SessionOwner
  <2> QED
    BY <1>5, <1>6, <1>7, <1>9, <2>1, <2>2 DEF Service!Refuse
<1>10. CASE ReceiveMount
  <2>1. r.op = "mount"
    BY <1>2, <1>3, <1>10 DEF ReceiveMount
  <2>2. \/ \E s \in FreeSessions : Service!Grant(c, s)
        \/ Service!Refuse(c)
    BY <1>2, <1>3, <1>8, <1>9, <1>10, <2>1 DEF ReceiveMount
  <2> QED
    BY <2>2 DEF Service!Next, Service!Decide, FreeSessions
<1>11. CASE ReceiveOther
  <2>1. /\ r.op # "mount" /\ receiver'.req = r /\ UNCHANGED clientsFHandle
    BY <1>2, <1>3, <1>11 DEF ReceiveOther
  <2>2. SessionOwner' = SessionOwner
    BY <1>1, <2>1, SameOwners DEF MountOf
  <2> QED
    BY <1>5, <1>6, <2>1, <2>2 DEF Service!vars
<1> QED
  BY <1>10, <1>11 DEF Receive

\* What the receiver does with the request changes nothing that is promised.
LEMMA ReceiverStutters ==
    ASSUME TypeInv, SessInv, writeToBufferPC \/ Signal \/ RefusalOpens \/ RefusalWrites
    PROVE  UNCHANGED Service!vars
<1>0. /\ client \in [Clients -> ClientType] /\ worker \in [Sessions -> WorkerType]
      /\ threadBuffers \in [Sessions -> BufferType] /\ receiver \in ReceiverType
  BY TypeParts
<1>1. UNCHANGED <<pipe, clientsFHandle>>
  BY DEF writeToBufferPC, Signal, RefusalOpens, RefusalWrites
<1>2. CASE writeToBufferPC
  <2>1. PICK s : s = receiver.req.sessionID
    OBVIOUS
  <2>2. /\ UNCHANGED <<worker, client>> /\ receiver.stage = "storing"
        /\ receiver'.stage = "signalling"
    BY <1>0, <1>2 DEF writeToBufferPC, ReceiverType
  <2>3. s \in Sessions /\ (clientsFHandle[s] = Reserved => receiver.req.op = "mount")
    <3>1. /\ s \in Sessions
          /\ receiver.req.op # "mount" => clientsFHandle[s] \in Clients
      BY <2>1, <2>2 DEF SessInv, ReceiverInv, Holds, InHand, Asked
    <3> QED
      BY <3>1, Constants
  <2>4. /\ threadBuffers'[s].readable /\ threadBuffers'[s].info = receiver.req
        /\ \A t \in Sessions \ {s} : threadBuffers'[t] = threadBuffers[t]
    BY <1>0, <1>2, <2>1, <2>3 DEF writeToBufferPC, BufferType
  <2>5. clientsFHandle[s] = Reserved => MountOf(s)' = MountOf(s)
    BY <2>1, <2>2, <2>3, <2>4 DEF MountOf
  <2>6. \A t \in Sessions \ {s} : MountOf(t)' = MountOf(t)
    BY <2>1, <2>2, <2>4 DEF MountOf
  <2>7. SessionOwner' = SessionOwner
    BY <1>1, <2>5, <2>6, SameOwners
  <2>8. LeavingClients' = LeavingClients
    BY <2>2, SameLeaving
  <2> QED
    BY <1>1, <2>7, <2>8, SamePending DEF Service!vars
<1>3. CASE Signal
  <2>1. /\ UNCHANGED <<threadBuffers, client>>
        /\ receiver.stage = "signalling" /\ receiver'.stage = "reading"
    BY <1>3 DEF Signal
  <2>2. \A t \in Sessions : worker'[t].req = worker[t].req
    BY <1>0, <1>3 DEF Signal, WorkerType
  <2>3. \A t \in Sessions : MountOf(t)' = MountOf(t)
    BY <2>1, <2>2 DEF MountOf
  <2>4. SessionOwner' = SessionOwner
    BY <1>1, <2>3, SameOwners
  <2>5. LeavingClients' = LeavingClients
    BY <2>1, SameLeaving
  <2> QED
    BY <1>1, <2>4, <2>5, SamePending DEF Service!vars
<1>4. CASE RefusalOpens \/ RefusalWrites
  <2>1. /\ UNCHANGED <<threadBuffers, worker>>
        /\ receiver.stage # "storing" /\ receiver'.stage # "storing"
    BY <1>0, <1>4 DEF RefusalOpens, RefusalWrites, ReceiverType
  <2>2. \A t \in Sessions : MountOf(t)' = MountOf(t)
    BY <2>1 DEF MountOf
  <2>3. SessionOwner' = SessionOwner
    BY <1>1, <2>2, SameOwners
  <2>4. LeavingClients' = LeavingClients
    <3>1. CASE UNCHANGED client
      BY <3>1, SameLeaving
    <3>2. CASE RefusalOpens
      <4>1. PICK c : c = receiver.req.client
        OBVIOUS
      <4>2. /\ client[c].stage \in {"opening", "reading", "mounted"}
            /\ \E stage \in {"opening", "reading", "mounted"} :
                 client' = [client EXCEPT ![c].stage = stage]
        BY <3>2, <4>1 DEF RefusalOpens, OpensPipe
      <4>3. /\ \A d \in Clients \ {c} : client'[d] = client[d]
            /\ c \in Clients => /\ client'[c].op = client[c].op
                                /\ client'[c].stage \in {"opening", "reading", "mounted"}
        BY <1>0, <4>2 DEF ClientType
      <4> QED
        BY <4>2, <4>3, SameLeaving
    <3> QED
      BY <1>4, <3>1, <3>2 DEF RefusalWrites
  <2> QED
    BY <1>1, <2>3, <2>4, SamePending DEF Service!vars
<1> QED
  BY <1>2, <1>3, <1>4

\* A worker gives its session back, if its client left, or changes nothing.
LEMMA WorkerRefines ==
    ASSUME TypeInv, SessInv, NEW s \in Sessions, WorkerNext(s)
    PROVE  [Service!Next]_Service!vars
<1>0. /\ client \in [Clients -> ClientType] /\ worker \in [Sessions -> WorkerType]
      /\ threadBuffers \in [Sessions -> BufferType]
      /\ clientsFHandle \in [Sessions -> Clients \cup {Free, Reserved}]
      /\ SessionOK(s)
  BY TypeParts DEF SessInv, SessionInv
<1>1. UNCHANGED <<pipe, receiver>>
  BY DEF WorkerNext, ChecksBuffer, Wakes, MountOpens, Executes, Replies, RepliesThen,
         UnmountFinishes, UnmountReplies, UnmountFinishesAgain
<1>2. PendingMounts' = PendingMounts
  BY <1>1, SamePending
<1>3. ASSUME UNCHANGED client PROVE LeavingClients' = LeavingClients
  BY <1>3, SameLeaving
<1>4. ASSUME UNCHANGED threadBuffers, UNCHANGED clientsFHandle,
             \A t \in Sessions : worker'[t].req = worker[t].req
      PROVE  SessionOwner' = SessionOwner
  BY <1>1, <1>4, SameOwners DEF MountOf
<1>5. ASSUME Takes(s), UNCHANGED clientsFHandle, threadBuffers[s].readable
      PROVE  SessionOwner' = SessionOwner
  <2>1. /\ worker'[s].req = threadBuffers[s].info /\ ~threadBuffers'[s].readable
        /\ \A t \in Sessions \ {s} : worker'[t] = worker[t] /\ threadBuffers'[t] = threadBuffers[t]
    BY <1>0, <1>5 DEF Takes, WorkerType, BufferType
  <2>2. \A t \in Sessions : MountOf(t)' = MountOf(t)
    BY <1>1, <1>5, <2>1 DEF MountOf
  <2> QED
    BY <1>5, <2>2, SameOwners
<1>6. ASSUME clientsFHandle[s] \in LeavingClients, UNCHANGED <<threadBuffers, client>>,
             \A t \in Sessions : worker'[t].req = worker[t].req,
             clientsFHandle' = [clientsFHandle EXCEPT ![s] = Free]
      PROVE  Service!Release(s)
  <2>1. /\ clientsFHandle'[s] = Free
        /\ \A t \in Sessions \ {s} : clientsFHandle'[t] = clientsFHandle[t]
    BY <1>0, <1>6
  <2>2. \A t \in Sessions \ {s} : MountOf(t)' = MountOf(t)
    BY <1>1, <1>6 DEF MountOf
  <2>3. SessionOwner' = [SessionOwner EXCEPT ![s] = Free]
    BY <2>1, <2>2, OneOwner, Constants
  <2>4. SessionOwner[s] \in LeavingClients
    BY <1>6, Constants DEF SessionOwner, LeavingClients
  <2> QED
    BY <1>2, <1>3, <1>6, <2>3, <2>4 DEF Service!Release
<1>7. CASE ChecksBuffer(s)
  <2>1. ~threadBuffers[s].readable
    BY <1>0, <1>7 DEF ChecksBuffer, SessionOK
  <2>2. \A t \in Sessions : worker'[t].req = worker[t].req
    BY <1>0, <1>7, <2>1 DEF ChecksBuffer, Turns, WorkerType
  <2> QED
    BY <1>2, <1>3, <1>4, <1>7, <2>1, <2>2 DEF ChecksBuffer, Service!vars
<1>8. CASE Wakes(s)
  <2>1. threadBuffers[s].readable
    BY <1>0, <1>8 DEF Wakes, SessionOK
  <2> QED
    BY <1>2, <1>3, <1>5, <1>8, <2>1 DEF Wakes, Service!vars
<1>9. CASE MountOpens(s)
  <2>1. PICK c : c = worker[s].req.client
    OBVIOUS
  <2>2. /\ worker[s].stage = "running" /\ worker[s].req.op = "mount" /\ UNCHANGED threadBuffers
        /\ Busy(s) /\ ~threadBuffers[s].readable /\ RequestOf(s) = worker[s].req
    BY <1>0, <1>9 DEF MountOpens, Runs, SessionOK, Busy, RequestOf
  <2>3. c \in Clients /\ clientsFHandle[s] = Reserved
    BY <1>0, <2>1, <2>2, BusySession DEF SessionOK
  <2>4. /\ \A t \in Sessions : worker'[t].req = worker[t].req
        /\ clientsFHandle'[s] = c
        /\ \A t \in Sessions \ {s} : clientsFHandle'[t] = clientsFHandle[t]
    BY <1>0, <1>9, <2>1 DEF MountOpens, WorkerType
  <2>5. \A t \in Sessions : MountOf(t)' = MountOf(t)
    BY <1>1, <2>2, <2>4 DEF MountOf
  <2>6. MountOf(s) = c
    <3>1. receiver.stage = "storing" => receiver.req.sessionID # s
      BY <2>2 DEF SessInv, ReceiverInv
    <3> QED
      BY <2>1, <2>2, <3>1 DEF MountOf
  <2>7. SessionOwner' = SessionOwner
    BY <2>3, <2>4, <2>5, <2>6, Constants DEF SessionOwner
  <2>8. LeavingClients' = LeavingClients
    <3>1. /\ client[c].stage \in {"opening", "reading", "mounted"}
          /\ \E stage \in {"opening", "reading", "mounted"} :
               client' = [client EXCEPT ![c].stage = stage]
      BY <1>9, <2>1 DEF MountOpens, OpensPipe
    <3>2. /\ \A d \in Clients \ {c} : client'[d] = client[d]
          /\ client'[c].op = client[c].op
          /\ client'[c].stage \in {"opening", "reading", "mounted"}
      BY <1>0, <2>3, <3>1 DEF ClientType
    <3> QED
      BY <3>1, <3>2, SameLeaving
  <2> QED
    BY <1>2, <2>7, <2>8 DEF Service!vars
<1>10. CASE Executes(s)
  <2>1. \A t \in Sessions : worker'[t].req = worker[t].req
    BY <1>0, <1>10 DEF Executes, WorkerType
  <2> QED
    BY <1>2, <1>3, <1>4, <1>10, <2>1 DEF Executes, Service!vars
<1>11. CASE Replies(s)
  <2>1. \A t \in Sessions : worker'[t].req = worker[t].req
    BY <1>0, <1>11 DEF Replies, RepliesThen, Turns, WorkerType
  <2>2. UNCHANGED <<threadBuffers, client>> /\ worker[s].stage = "replying"
    BY <1>11 DEF Replies, RepliesThen
  <2>3. Busy(s) /\ ~threadBuffers[s].readable /\ RequestOf(s) = worker[s].req
    BY <1>0, <2>2 DEF SessionOK, Busy, RequestOf
  <2>4. PICK c \in Clients : c = worker[s].req.client
    BY <2>3, BusySession
  <2>5. worker[s].fd = c /\ clientsFHandle[s] = c /\ Waits(c, "reading")
    BY <1>0, <2>2, <2>3, <2>4 DEF SessionOK
  <2>6. CASE Reachable(c)
    <3>1. UNCHANGED clientsFHandle
      BY <1>11, <2>5, <2>6 DEF Replies, RepliesThen
    <3> QED
      BY <1>2, <1>3, <1>4, <2>1, <2>2, <3>1 DEF Service!vars
  <2>7. CASE ~Reachable(c)
    <3>1. clientsFHandle' = [clientsFHandle EXCEPT ![s] = Free]
      BY <1>11, <2>5, <2>7 DEF Replies, RepliesThen
    <3>2. clientsFHandle[s] \in LeavingClients
      BY <2>5, <2>7 DEF Reachable, Waits, LeavingClients
    <3>3. Service!Release(s)
      BY <1>6, <2>1, <2>2, <3>1, <3>2
    <3> QED
      BY <3>3 DEF Service!Next
  <2> QED
    BY <2>6, <2>7
<1>12. CASE UnmountFinishes(s)
  <2>1. \A t \in Sessions : worker'[t].req = worker[t].req
    BY <1>0, <1>12 DEF UnmountFinishes, WorkerType
  <2>2. /\ UNCHANGED <<threadBuffers, client>> /\ worker[s].stage = "running"
        /\ worker[s].req.op = "unmount"
    BY <1>12 DEF UnmountFinishes, Runs
  <2>3. Busy(s) /\ ~threadBuffers[s].readable /\ RequestOf(s) = worker[s].req
    BY <1>0, <2>2 DEF SessionOK, Busy, RequestOf
  <2>4. PICK c \in Clients : c = worker[s].req.client
    BY <2>3, BusySession
  <2>5. clientsFHandle[s] = c /\ client[c].op = "unmount"
    BY <1>0, <2>2, <2>3, <2>4 DEF SessionOK, Holds, Asked
  <2>6. clientsFHandle' = [clientsFHandle EXCEPT ![s] = Free]
    BY <1>12, <2>5 DEF UnmountFinishes
  <2>7. clientsFHandle[s] \in LeavingClients
    BY <2>5 DEF LeavingClients
  <2>8. Service!Release(s)
    BY <1>6, <2>1, <2>2, <2>6, <2>7
  <2> QED
    BY <2>8 DEF Service!Next
<1>13. CASE UnmountReplies(s)
  <2>1. \A t \in Sessions : worker'[t].req = worker[t].req
    BY <1>0, <1>13 DEF UnmountReplies, Turns, WorkerType
  <2> QED
    BY <1>2, <1>3, <1>4, <1>13, <2>1 DEF UnmountReplies, Service!vars
<1>14. CASE UnmountFinishesAgain(s)
  <2>1. \A t \in Sessions : worker'[t].req = worker[t].req
    BY <1>0, <1>14 DEF UnmountFinishesAgain, Turns, WorkerType
  <2>2. clientsFHandle' = clientsFHandle
    BY <1>0, <1>14 DEF UnmountFinishesAgain, SessionOK
  <2> QED
    BY <1>2, <1>3, <1>4, <1>14, <2>1, <2>2 DEF UnmountFinishesAgain, Service!vars
<1> QED
  BY <1>7, <1>8, <1>9, <1>10, <1>11, <1>12, <1>13, <1>14 DEF WorkerNext

\* At the start nobody has a session, asks for one or leaves.
LEMMA ServiceInit == Init => Service!Init
<1> SUFFICES ASSUME Init PROVE Service!Init
  OBVIOUS
<1>1. SessionOwner = [s \in Sessions |-> Free]
  BY Constants DEF Init, SessionOwner
<1>2. PendingMounts = {} /\ LeavingClients = {}
  BY DEF Init, PendingMounts, LeavingClients
<1> QED
  BY <1>1, <1>2 DEF Service!Init

\* The receiver, the workers and the session table keep the promise about
\* sessions: every step grants a free session to a client that asked, refuses
\* one when none is free, takes one back from a client that leaves, or changes
\* no owner (tfs_server.c:101-170 and 310-331).
THEOREM ServiceKept ==
    ASSUME Orderly
    PROVE  Spec => ServiceSafety
<1>1. TypeInv /\ SessInv /\ [Next]_vars => [Service!Next]_Service!vars
  <2> SUFFICES ASSUME TypeInv, SessInv, [Next]_vars PROVE [Service!Next]_Service!vars
    OBVIOUS
  <2>1. CASE UNCHANGED vars
    <3>1. SessionOwner' = SessionOwner
      BY <2>1, SameOwners DEF vars, MountOf
    <3>2. LeavingClients' = LeavingClients
      BY <2>1, SameLeaving DEF vars
    <3> QED
      BY <2>1, <3>1, <3>2, SamePending DEF vars, Service!vars
  <2>2. CASE Next
    BY <2>2, AsksRefines, ReadsRefines, ReceiveRefines, ReceiverStutters, WorkerRefines
       DEF Next, ReceiverNext
  <2> QED
    BY <2>1, <2>2
<1> QED
  BY Invariant, ServiceInit, <1>1, PTL DEF Spec, ServiceSafety

=============================================================================
