------------------------ MODULE TfsOperations_proofs ------------------------
(***************************************************************************)
(* Proofs about TfsOperations, for any number of threads and any size of   *)
(* the open file table.                                                    *)
(***************************************************************************)
EXTENDS TfsOperations, FiniteSetTheorems, TLAPS

LEMMA HandlesFinite == IsFiniteSet(Handles)
BY OperationsAssumption, FS_Interval DEF Handles

\* Opening a file adds one to the number of open files, closing one takes one
\* away, and the number is 0 exactly when no file is open.
LEMMA TakenCardinality ==
    ASSUME NEW S \in SUBSET Handles
    PROVE  /\ Cardinality(S) \in Nat
           /\ Cardinality(S) = 0 <=> S = {}
           /\ \A h \in Handles \ S : Cardinality(S \cup {h}) = Cardinality(S) + 1
           /\ \A h \in S : Cardinality(S \ {h}) = Cardinality(S) - 1
<1>1. IsFiniteSet(S)
  BY HandlesFinite, FS_Subset
<1>2. Cardinality(S) \in Nat
  BY <1>1, FS_CardinalityType
<1>3. Cardinality(S) = 0 <=> S = {}
  BY <1>1, FS_EmptySet
<1>4. \A h \in Handles \ S : Cardinality(S \cup {h}) = Cardinality(S) + 1
  BY <1>1, FS_AddElement
<1>5. \A h \in S : Cardinality(S \ {h}) = Cardinality(S) - 1
  BY <1>1, FS_RemoveElement
<1> QED
  BY <1>2, <1>3, <1>4, <1>5

-----------------------------------------------------------------------------
\* Every step keeps the types.
LEMMA TypesNext == TypeOK /\ [Next]_vars => TypeOK'
<1> SUFFICES ASSUME TypeOK, [Next]_vars PROVE TypeOK'
  OBVIOUS
<1> USE DEF TypeOK
<1>1. ASSUME NEW t \in Threads, CallOpen(t) PROVE TypeOK'
  BY <1>1 DEF CallOpen, Call, Stages
<1>2. ASSUME NEW t \in Threads, NEW h \in Handles, CallClose(t, h) PROVE TypeOK'
  BY <1>2, OperationsAssumption DEF CallClose, Call, Stages, Handles
<1>3. ASSUME NEW t \in Threads, CallAccess(t) PROVE TypeOK'
  BY <1>3 DEF CallAccess, Call, Stages
<1>4. ASSUME NEW t \in Destroyers, CallDestroy(t) PROVE TypeOK'
  BY <1>4, OperationsAssumption DEF CallDestroy, Call, Stages
<1>5. ASSUME NEW t \in Threads, tfs_open(t) PROVE TypeOK'
  <2>1. pc' \in [Threads -> Stages] /\ fh' = fh
    BY <1>5 DEF tfs_open, Returns, Stages
  <2>2. /\ single_global_lock' \in Threads \cup {NoThread}
        /\ openFiles' \in Int
        /\ taken' \in SUBSET Handles
    <3>1. CASE OpenFails(t)
      BY <3>1 DEF OpenFails
    <3>2. CASE OpenSucceeds(t)
      BY <3>2 DEF OpenSucceeds, FreeHandles, Handles
    <3>3. CASE OpenRefused(t)
      BY <3>3 DEF OpenRefused
    <3> QED
      BY <1>5, <3>1, <3>2, <3>3 DEF tfs_open
  <2> QED
    BY <1>5, <2>1, <2>2 DEF tfs_open, Returns
<1>6. ASSUME NEW t \in Threads, tfs_close(t) PROVE TypeOK'
  <2>1. CASE CloseFails(t)
    BY <1>6, <2>1 DEF tfs_close, CloseFails, Returns, Stages
  <2>2. CASE CloseSucceeds(t)
    <3>1. /\ openFiles' \in Int
          /\ taken' \in SUBSET Handles
          /\ fh' = fh /\ single_global_lock' = single_global_lock
      BY <1>6, <2>2 DEF tfs_close, CloseSucceeds, ForgetsHandle, AfterClose, SignalsIf
    <3>2. \/ pc' = [pc EXCEPT ![t] = "idle"]
          \/ \E w \in Waiters : pc' = [pc EXCEPT ![t] = "idle", ![w] = "signalled"]
      BY <2>2 DEF CloseSucceeds, ForgetsHandle, AfterClose, SignalsIf, Returns
    <3> QED
      BY <3>1, <3>2 DEF Waiters, Stages
  <2> QED
    BY <1>6, <2>1, <2>2 DEF tfs_close
<1>7. ASSUME NEW t \in Threads, tfs_access(t) PROVE TypeOK'
  BY <1>7 DEF tfs_access, Returns, Stages
<1>8. ASSUME NEW t \in Threads, tfs_destroy_after_all_closed(t) PROVE TypeOK'
  BY <1>8 DEF tfs_destroy_after_all_closed, Locks, Stages
<1>9. ASSUME NEW t \in Threads, DestroyResumes(t) PROVE TypeOK'
  BY <1>9 DEF DestroyResumes, Returns, Stages
<1>10. ASSUME NEW t \in Threads, SpuriousWakeup(t) PROVE TypeOK'
  BY <1>10 DEF SpuriousWakeup, Stages
<1>11. CASE tfs_init
  BY <1>11 DEF tfs_init
<1>12. CASE UNCHANGED vars
  BY <1>12 DEF vars
<1> QED
  BY <1>1, <1>2, <1>3, <1>4, <1>5, <1>6, <1>7, <1>8, <1>9, <1>10, <1>11, <1>12
     DEF Next, Calls, Steps

\* The variables keep their types, and only a destroyer is ever in the stages
\* of tfs_destroy_after_all_closed.
THEOREM TypeCorrect == Spec => []TypeOK
<1>1. Init => TypeOK
  BY OperationsAssumption DEF Init, TypeOK, Handles, Stages
<1>2. TypeOK /\ [Next]_vars => TypeOK'
  BY TypesNext
<1> QED
  BY <1>1, <1>2, PTL DEF Spec

-----------------------------------------------------------------------------
\* The steps that leave the counter and the open files alone.
LEMMA QuietSteps ==
    ASSUME [Next]_vars
    PROVE  \/ UNCHANGED <<openFiles, taken>>
           \/ \E t \in Threads : OpenSucceeds(t) \/ CloseSucceeds(t)
           \/ \E t \in Threads : tfs_destroy_after_all_closed(t)
           \/ tfs_init
BY DEF Next, vars, Calls, Steps, CallOpen, CallClose, CallAccess, CallDestroy,
       Call, tfs_open, OpenFails, OpenRefused, tfs_close, CloseFails,
       tfs_access, DestroyResumes, SpuriousWakeup

\* Every step keeps the counter right.
LEMMA CountNext == TypeOK /\ CountMatches /\ [Next]_vars => CountMatches'
<1> SUFFICES ASSUME TypeOK, CountMatches, [Next]_vars PROVE CountMatches'
  OBVIOUS
<1>0. /\ openFiles \in Int
      /\ taken \in SUBSET Handles
      /\ Cardinality(taken) \in Nat
  BY TakenCardinality DEF TypeOK
<1>1. CASE UNCHANGED <<openFiles, taken>>
  BY <1>1 DEF CountMatches
<1>2. ASSUME NEW t \in Threads, OpenSucceeds(t) PROVE CountMatches'
  <2>1. PICK h \in Handles \ taken : taken' = taken \cup {h}
    BY <1>2 DEF OpenSucceeds, FreeHandles, Handles
  <2>2. Cardinality(taken') = Cardinality(taken) + 1
    BY <1>0, <2>1, TakenCardinality
  <2> QED
    BY <1>0, <1>2, <2>2 DEF OpenSucceeds, CountMatches
<1>3. ASSUME NEW t \in Threads, CloseSucceeds(t) PROVE CountMatches'
  <2>1. fh[t] \in taken /\ taken' = taken \ {fh[t]}
    BY <1>3 DEF CloseSucceeds, ForgetsHandle, AfterClose, SignalsIf
  <2>2. Cardinality(taken') = Cardinality(taken) - 1 /\ Cardinality(taken) # 0
    BY <1>0, <2>1, TakenCardinality
  <2>3. openFiles' = IF openFiles > 0 THEN openFiles - 1 ELSE openFiles + 1
    BY <1>3 DEF CloseSucceeds, ForgetsHandle, AfterClose, SignalsIf
  <2> QED
    BY <1>0, <2>2, <2>3 DEF CountMatches
<1>4. ASSUME NEW t \in Threads, tfs_destroy_after_all_closed(t) PROVE CountMatches'
  BY <1>0, <1>4 DEF tfs_destroy_after_all_closed, CountMatches
<1>5. CASE tfs_init
  BY <1>5, FS_EmptySet DEF tfs_init, CountMatches
<1> QED
  BY <1>1, <1>2, <1>3, <1>4, <1>5, QuietSteps

\* The counter tells the number of open files, whatever destructions are
\* requested, repeated or woken, and whatever opens come late.
THEOREM CounterCorrect == Spec => []CountMatches
<1>1. Init => CountMatches
  BY FS_EmptySet DEF Init, CountMatches
<1>2. TypeOK /\ CountMatches /\ [Next]_vars => CountMatches'
  BY CountNext
<1> QED
  BY <1>1, <1>2, TypeCorrect, PTL DEF Spec

-----------------------------------------------------------------------------
(* From here on pthread_cond_wait returns only when it is signalled, and a *)
(* destruction is requested only when none is pending.  Both are needed:   *)
(* after a spurious return the waiter destroys the file system without     *)
(* looking at the counter again, and a second request turns the counter    *)
(* positive again, so that the last close signals nobody.                  *)

Disciplined == ~SpuriousWakeups /\ ~RepeatedDestroys

\* The inductive invariant: at most one thread is in
\* tfs_destroy_after_all_closed, and its stage tells what the counter is.
DestroyInv ==
    /\ \A s, t \in Destroying : s = t
    /\ \A t \in Threads :
         /\ pc[t] = "tfs_destroy" => openFiles >= 0
         /\ pc[t] = "cond_wait" => openFiles < -1
         /\ pc[t] = "signalled" => openFiles = -1

\* A step that moves no thread into or along the destruction and leaves the
\* counter alone cannot disturb the invariant.
LEMMA DestroyInvStable ==
    ASSUME TypeOK, DestroyInv, openFiles' = openFiles,
           \A t \in Threads : pc'[t] \in {pc[t], "idle", "tfs_open", "tfs_close", "tfs_access"}
    PROVE  DestroyInv'
<1>1. \A t \in Destroying' : t \in Destroying /\ pc'[t] = pc[t]
  BY DEF Destroying
<1>2. \A s, t \in Destroying' : s = t
  BY <1>1 DEF DestroyInv
<1> QED
  BY <1>1, <1>2 DEF DestroyInv, Destroying

\* Every step of a disciplined program keeps the invariant.
LEMMA DestroyNext ==
    ASSUME Disciplined
    PROVE  TypeOK /\ CountMatches /\ DestroyInv /\ [Next]_vars => DestroyInv'
<1> SUFFICES ASSUME TypeOK, CountMatches, DestroyInv, [Next]_vars
             PROVE  DestroyInv'
  OBVIOUS
<1>0. pc \in [Threads -> Stages] /\ openFiles \in Int /\ taken \in SUBSET Handles
  BY DEF TypeOK
<1>1. ASSUME NEW t \in Threads,
             \/ CallOpen(t) \/ CallAccess(t)
             \/ \E h \in Handles : CallClose(t, h)
      PROVE  DestroyInv'
  <2>1. /\ openFiles' = openFiles
        /\ \E op \in {"tfs_open", "tfs_close", "tfs_access"} :
             pc' = [pc EXCEPT ![t] = op]
    BY <1>1 DEF CallOpen, CallAccess, CallClose, Call
  <2> QED
    BY <1>0, <2>1, DestroyInvStable
<1>2. ASSUME NEW t \in Threads, CallDestroy(t) PROVE DestroyInv'
  <2>1. /\ openFiles >= 0 /\ Destroying = {} /\ openFiles' = openFiles
        /\ pc' = [pc EXCEPT ![t] = "tfs_destroy"]
    BY <1>0, <1>2 DEF CallDestroy, Call, Disciplined, DestroyRequested
  <2>2. \A s \in Threads \ {t} : pc'[s] = pc[s] /\ s \notin Destroying
    BY <1>0, <2>1
  <2>3. Destroying' = {t} /\ pc'[t] = "tfs_destroy"
    BY <1>0, <2>1, <2>2 DEF Destroying
  <2> QED
    BY <2>1, <2>2, <2>3 DEF DestroyInv, Destroying
<1>3. ASSUME NEW t \in Threads, tfs_open(t) PROVE DestroyInv'
  <2>1. pc' = [pc EXCEPT ![t] = "idle"]
    BY <1>3 DEF tfs_open, Returns
  <2>2. CASE OpenFails(t) \/ OpenRefused(t)
    BY <1>0, <2>1, <2>2, DestroyInvStable DEF OpenFails, OpenRefused
  <2>3. CASE OpenSucceeds(t)
    <3>1. openFiles >= 0 /\ openFiles' >= 0
      BY <1>0, <2>3 DEF OpenSucceeds
    <3>2. \A s \in Threads : pc[s] \notin {"cond_wait", "signalled"}
      BY <1>0, <3>1 DEF DestroyInv
    <3>3. Destroying' \subseteq Destroying
          /\ \A s \in Threads : pc'[s] \notin {"cond_wait", "signalled"}
      BY <1>0, <2>1, <3>2 DEF Destroying
    <3> QED
      BY <3>1, <3>3 DEF DestroyInv
  <2> QED
    BY <1>3, <2>2, <2>3 DEF tfs_open
<1>4. ASSUME NEW t \in Threads, tfs_close(t) PROVE DestroyInv'
  <2>1. CASE CloseFails(t)
    BY <1>0, <2>1, DestroyInvStable DEF CloseFails, Returns
  <2>2. CASE CloseSucceeds(t)
    <3>1. openFiles # 0 /\ openFiles # -1
      <4>1. taken # {}
        BY <2>2 DEF CloseSucceeds, ForgetsHandle, AfterClose, SignalsIf
      <4> QED
        BY <1>0, <4>1, TakenCardinality DEF CountMatches
    <3>2. openFiles' = IF openFiles > 0 THEN openFiles - 1 ELSE openFiles + 1
      BY <2>2 DEF CloseSucceeds, ForgetsHandle, AfterClose, SignalsIf
    <3>3. pc[t] = "tfs_close"
      BY <1>4 DEF tfs_close, Locks
    <3>4. CASE openFiles' = -1 /\ Waiters # {}
      <4>1. PICK w \in Waiters : pc' = [pc EXCEPT ![t] = "idle", ![w] = "signalled"]
        BY <2>2, <3>4 DEF CloseSucceeds, ForgetsHandle, AfterClose, SignalsIf
      <4>2. w \in Threads /\ w # t /\ w \in Destroying /\ Destroying = {w}
        BY <3>3, <4>1 DEF Waiters, Destroying, DestroyInv
      <4>3. pc'[w] = "signalled" /\ \A s \in Threads \ {w} : pc'[s] \in {pc[s], "idle"}
        BY <1>0, <4>1, <4>2
      <4>4. Destroying' = {w}
        BY <4>2, <4>3 DEF Destroying
      <4> QED
        BY <3>4, <4>3, <4>4 DEF DestroyInv, Destroying
    <3>5. CASE ~(openFiles' = -1 /\ Waiters # {})
      <4>1. pc' = [pc EXCEPT ![t] = "idle"]
        BY <2>2, <3>5 DEF CloseSucceeds, ForgetsHandle, AfterClose, SignalsIf, Returns
      <4>2. Destroying' \subseteq Destroying
            /\ \A s \in Threads : pc'[s] \in {pc[s], "idle"}
        BY <1>0, <4>1 DEF Destroying
      <4>3. \A s \in Threads :
              /\ pc[s] = "tfs_destroy" => openFiles' >= 0
              /\ pc[s] = "cond_wait" => openFiles' < -1
              /\ pc[s] # "signalled"
        <5>1. Waiters # {} => openFiles' # -1
          BY <3>5
        <5> QED
          BY <1>0, <3>1, <3>2, <5>1 DEF DestroyInv, Waiters
      <4> QED
        BY <4>2, <4>3 DEF DestroyInv
    <3> QED
      BY <3>4, <3>5
  <2> QED
    BY <1>4, <2>1, <2>2 DEF tfs_close
<1>5. ASSUME NEW t \in Threads, tfs_access(t) PROVE DestroyInv'
  BY <1>0, <1>5, DestroyInvStable DEF tfs_access, Returns
<1>6. ASSUME NEW t \in Threads, tfs_destroy_after_all_closed(t) PROVE DestroyInv'
  <2>1. /\ pc[t] = "tfs_destroy" /\ openFiles >= 0
        /\ openFiles' = -(openFiles + 1)
        /\ pc' = [pc EXCEPT ![t] = IF openFiles' # -1 THEN "cond_wait" ELSE "idle"]
    BY <1>6 DEF tfs_destroy_after_all_closed, Locks, DestroyInv
  <2>2. \A s \in Threads \ {t} : pc'[s] = pc[s] /\ s \notin Destroying
    BY <1>0, <2>1 DEF DestroyInv, Destroying
  <2>3. Destroying' \subseteq {t}
        /\ pc'[t] = IF openFiles' # -1 THEN "cond_wait" ELSE "idle"
    BY <1>0, <2>1, <2>2 DEF Destroying
  <2> QED
    BY <1>0, <2>1, <2>2, <2>3 DEF DestroyInv, Destroying
<1>7. ASSUME NEW t \in Threads, DestroyResumes(t) PROVE DestroyInv'
  BY <1>0, <1>7, DestroyInvStable DEF DestroyResumes, Returns
<1>8. ASSUME NEW t \in Threads, SpuriousWakeup(t) PROVE DestroyInv'
  BY <1>8 DEF SpuriousWakeup, Disciplined
<1>9. CASE tfs_init
  BY <1>9 DEF tfs_init, DestroyInv, Destroying
<1>10. CASE UNCHANGED vars
  BY <1>0, <1>10, DestroyInvStable DEF vars
<1> QED
  BY <1>1, <1>2, <1>3, <1>4, <1>5, <1>6, <1>7, <1>8, <1>9, <1>10, OperationsAssumption
     DEF Next, Calls, Steps

\* At most one thread is in the destruction, and the counter is as it expects.
THEOREM DestroyInvariant == ASSUME Disciplined PROVE Spec => []DestroyInv
<1>1. Init => DestroyInv
  BY DEF Init, DestroyInv, Destroying
<1>2. TypeOK /\ CountMatches /\ DestroyInv /\ [Next]_vars => DestroyInv'
  BY DestroyNext
<1> QED
  BY <1>1, <1>2, TypeCorrect, CounterCorrect, PTL DEF Spec

-----------------------------------------------------------------------------
\* What the counter and the invariant say of the open files.
LEMMA DrainedOrNot ==
    ASSUME TypeOK, CountMatches, DestroyInv
    PROVE  /\ openFiles \in Int
           /\ openFiles = 0 \/ openFiles = -1 <=> taken = {}
           /\ \A t \in Threads : pc[t] = "signalled" => taken = {}
           /\ \A t \in Threads : pc[t] = "cond_wait" => taken # {}
<1>1. openFiles \in Int /\ taken \in SUBSET Handles
  BY DEF TypeOK
<1>2. openFiles = 0 \/ openFiles = -1 <=> taken = {}
  BY <1>1, TakenCardinality DEF CountMatches
<1> QED
  BY <1>1, <1>2 DEF DestroyInv

\* No wakeup is lost: whoever sleeps on condVar has an open file to wait for.
THEOREM WakeupNotLost == ASSUME Disciplined PROVE Spec => []NoLostWakeup
<1>1. TypeOK /\ CountMatches /\ DestroyInv => NoLostWakeup
  BY DrainedOrNot DEF DestroyInv, NoLostWakeup, Waiters
<1> QED
  BY <1>1, TypeCorrect, CounterCorrect, DestroyInvariant, PTL

\* No tfs_destroy_after_all_closed gets past its wait while a file is open.
THEOREM DestroySafe == ASSUME Disciplined PROVE Spec => DestroyOnlyWhenAllClosed
<1> DEFINE Finishes(t) == pc[t] \in {"tfs_destroy", "signalled"} /\ pc'[t] = "idle"
<1>1. /\ TypeOK /\ CountMatches /\ DestroyInv
      /\ [Next]_vars
      => [\A t \in Threads : Finishes(t) => taken = {}]_vars
  <2> SUFFICES ASSUME TypeOK, CountMatches, DestroyInv, [Next]_vars,
                      NEW t \in Threads, Finishes(t)
               PROVE  taken = {}
    OBVIOUS
  <2>1. CASE pc[t] = "signalled"
    BY <2>1, DrainedOrNot
  <2>2. CASE pc[t] = "tfs_destroy"
    <3>1. tfs_destroy_after_all_closed(t)
      <4>0. pc \in [Threads -> Stages] /\ t \in Threads /\ pc'[t] # pc[t]
        BY <2>2 DEF TypeOK
      <4>1. ASSUME NEW u \in Threads, Calls(u) PROVE FALSE
        BY <2>2, <4>0, <4>1 DEF Calls, CallOpen, CallClose, CallAccess, CallDestroy, Call
      <4>2. ASSUME NEW u \in Threads, tfs_close(u) PROVE FALSE
        BY <2>2, <4>0, <4>2 DEF tfs_close, Locks, CloseFails, CloseSucceeds, ForgetsHandle, AfterClose, SignalsIf, Returns, Waiters
      <4>3. ASSUME NEW u \in Threads,
                   tfs_open(u) \/ tfs_access(u) \/ DestroyResumes(u)
            PROVE  FALSE
        BY <2>2, <4>0, <4>3 DEF tfs_open, tfs_access, DestroyResumes, Locks, Returns
      <4>4. ASSUME NEW u \in Threads, SpuriousWakeup(u) PROVE FALSE
        BY <4>4 DEF SpuriousWakeup, Disciplined
      <4>5. ASSUME NEW u \in Threads \ {t}, tfs_destroy_after_all_closed(u) PROVE FALSE
        BY <2>2, <4>0, <4>5 DEF tfs_destroy_after_all_closed, Locks
      <4>6. ~tfs_init /\ ~UNCHANGED vars
        BY <2>2, <4>0 DEF tfs_init, vars
      <4> QED
        BY <4>1, <4>2, <4>3, <4>4, <4>5, <4>6, OperationsAssumption DEF Next, Steps
    <3>2. openFiles >= 0 /\ -(openFiles + 1) = -1
      <4>1. pc \in [Threads -> Stages]
        BY DEF TypeOK
      <4> QED
        BY <2>2, <3>1, <4>1 DEF tfs_destroy_after_all_closed, DestroyInv
    <3> QED
      BY <3>2, DrainedOrNot
  <2> QED
    BY <2>1, <2>2
<1>2. Spec => [][\A t \in Threads : Finishes(t) => taken = {}]_vars
  BY <1>1, TypeCorrect, CounterCorrect, DestroyInvariant, PTL DEF Spec
<1> QED
  BY <1>2 DEF DestroyOnlyWhenAllClosed

-----------------------------------------------------------------------------
\* The counter, the mutex and the condition variable implement DestroyBarrier, but
\* for its liveness: every step is a step of it or a stutter (operations.c:38-50,
\* 125-154).
THEOREM BarrierRefinement == ASSUME Disciplined PROVE Spec => BarrierSafety
<1>1. Init => Barrier!Init
  BY DEF Init, Barrier!Init, Phase
<1>2. /\ TypeOK /\ CountMatches /\ DestroyInv
      /\ TypeOK' /\ CountMatches' /\ DestroyInv'
      /\ [Next]_vars
      => [Barrier!Next]_(Barrier!vars)
  <2> SUFFICES ASSUME TypeOK, CountMatches, DestroyInv,
                      TypeOK', CountMatches', DestroyInv', [Next]_vars
               PROVE  [Barrier!Next]_(Barrier!vars)
    OBVIOUS
  <2>0. pc \in [Threads -> Stages] /\ openFiles \in Int /\ openFiles' \in Int
    BY DEF TypeOK
  <2> DEFINE Stutter == taken' = taken /\ Phase' = Phase
  <2>1. Stutter => [Barrier!Next]_(Barrier!vars)
    BY DEF Barrier!vars
  <2>2. openFiles' = openFiles /\ taken' = taken /\ Sleeping' = Sleeping => Stutter
    BY DEF Phase
  <2>3. ASSUME NEW t \in Threads, Calls(t) PROVE Stutter
    <3>1. /\ UNCHANGED <<openFiles, taken>>
          /\ pc[t] = "idle"
          /\ \E op \in {"tfs_open", "tfs_close", "tfs_access", "tfs_destroy"} :
               pc' = [pc EXCEPT ![t] = op]
      BY <2>3 DEF Calls, CallOpen, CallClose, CallAccess, CallDestroy, Call
    <3>2. Sleeping' = Sleeping
      BY <2>0, <3>1 DEF Sleeping
    <3> QED
      BY <2>2, <3>1, <3>2
  <2>4. ASSUME NEW t \in Threads, tfs_open(t) PROVE [Barrier!Next]_(Barrier!vars)
    <3>1. pc[t] = "tfs_open" /\ pc' = [pc EXCEPT ![t] = "idle"]
      BY <2>4 DEF tfs_open, Locks, Returns
    <3>2. Sleeping' = Sleeping
      BY <2>0, <3>1 DEF Sleeping
    <3>3. CASE OpenFails(t) \/ OpenRefused(t)
      BY <2>1, <2>2, <3>2, <3>3 DEF OpenFails, OpenRefused
    <3>4. CASE OpenSucceeds(t)
      <4>1. Phase = "running" /\ Phase' = "running"
        <5>1. /\ openFiles >= 0 /\ ~(openFiles < 0)
              /\ openFiles' >= 0 /\ ~(openFiles' < 0)
          BY <2>0, <3>4 DEF OpenSucceeds
        <5> QED
          BY <5>1 DEF Phase
      <4>2. PICK h \in Handles : h \notin taken /\ taken' = taken \cup {h}
        BY <3>4 DEF OpenSucceeds, FreeHandles, Handles
      <4> QED
        BY <4>1, <4>2 DEF Barrier!Next, Barrier!Open
    <3> QED
      BY <2>4, <3>3, <3>4 DEF tfs_open
  <2>5. ASSUME NEW t \in Threads, tfs_close(t) PROVE [Barrier!Next]_(Barrier!vars)
    <3>1. CASE CloseFails(t)
      <4>1. Sleeping' = Sleeping
        BY <2>0, <2>5, <3>1 DEF tfs_close, Locks, CloseFails, Returns, Sleeping
      <4> QED
        BY <2>1, <2>2, <2>5, <3>1, <4>1 DEF tfs_close, CloseFails
    <3>2. CASE CloseSucceeds(t)
      <4>1. fh[t] \in taken /\ taken' = taken \ {fh[t]} /\ fh[t] \in Handles
        BY <3>2 DEF CloseSucceeds, ForgetsHandle, AfterClose, SignalsIf, TypeOK
      <4>2. pc[t] = "tfs_close"
        BY <2>5 DEF tfs_close, Locks
      <4>3. Sleeping' = Sleeping
        <5>1. \/ pc' = [pc EXCEPT ![t] = "idle"]
              \/ \E w \in Waiters : pc' = [pc EXCEPT ![t] = "idle", ![w] = "signalled"]
          BY <3>2 DEF CloseSucceeds, ForgetsHandle, AfterClose, SignalsIf, Returns
        <5> QED
          BY <2>0, <4>2, <5>1 DEF Sleeping, Waiters
      <4>4. openFiles >= 0 <=> openFiles' >= 0
        <5>1. openFiles # 0 /\ openFiles # -1
          BY <4>1, DrainedOrNot
        <5> QED
          BY <2>0, <3>2, <5>1 DEF CloseSucceeds, ForgetsHandle, AfterClose, SignalsIf
      <4>5. Phase' = Phase
        <5>1. (openFiles < 0) = (openFiles' < 0) /\ (openFiles >= 0) = (openFiles' >= 0)
          BY <2>0, <4>4
        <5> QED
          BY <4>3, <5>1, Zenon DEF Phase
      <4> QED
        BY <4>1, <4>5 DEF Barrier!Next, Barrier!Close
    <3> QED
      BY <2>5, <3>1, <3>2 DEF tfs_close
  <2>6. ASSUME NEW t \in Threads, tfs_access(t) PROVE Stutter
    <3>1. Sleeping' = Sleeping
      BY <2>0, <2>6 DEF tfs_access, Locks, Returns, Sleeping
    <3> QED
      BY <2>2, <2>6, <3>1 DEF tfs_access
  <2>7. ASSUME NEW t \in Threads, tfs_destroy_after_all_closed(t)
        PROVE  [Barrier!Next]_(Barrier!vars)
    <3>1. /\ pc[t] = "tfs_destroy" /\ taken' = taken /\ openFiles >= 0
          /\ openFiles' = -(openFiles + 1)
          /\ pc' = [pc EXCEPT ![t] = IF openFiles' # -1 THEN "cond_wait" ELSE "idle"]
      BY <2>7 DEF tfs_destroy_after_all_closed, Locks, DestroyInv
    <3>2. Phase = "running" /\ openFiles' < 0
      BY <2>0, <3>1 DEF Phase
    <3>3. Sleeping = {}
      BY <2>0, <3>1 DEF Sleeping, DestroyInv
    <3>4. Sleeping' = IF openFiles' # -1 THEN {t} ELSE {}
      BY <2>0, <3>1, <3>3 DEF Sleeping
    <3>5. openFiles' = -1 <=> taken = {}
      BY <2>0, <3>1, DrainedOrNot
    <3>6. Phase' = IF taken = {} THEN "destroyed" ELSE "draining"
      <4>1. ~(openFiles' >= 0)
        BY <2>0, <3>2
      <4>2. CASE taken = {}
        BY <3>2, <3>4, <3>5, <4>1, <4>2 DEF Phase
      <4>3. CASE taken # {}
        BY <3>2, <3>4, <3>5, <4>1, <4>3 DEF Phase
      <4> QED
        BY <4>2, <4>3
    <3> QED
      BY <3>1, <3>2, <3>6 DEF Barrier!Next, Barrier!Request
  <2>8. ASSUME NEW t \in Threads, DestroyResumes(t) PROVE [Barrier!Next]_(Barrier!vars)
    <3>1. /\ pc[t] = "signalled" /\ pc' = [pc EXCEPT ![t] = "idle"]
          /\ UNCHANGED <<openFiles, taken>>
      BY <2>8 DEF DestroyResumes, Locks, Returns
    <3>2. Sleeping = {t} /\ taken = {} /\ openFiles = -1
      BY <3>1, DrainedOrNot DEF Sleeping, DestroyInv, Destroying
    <3>3. Sleeping' = {}
      BY <2>0, <3>1, <3>2 DEF Sleeping
    <3>4. Phase = "draining" /\ Phase' = "destroyed"
      BY <3>1, <3>2, <3>3 DEF Phase
    <3> QED
      BY <3>1, <3>2, <3>4 DEF Barrier!Next, Barrier!Destroy
  <2>9. ASSUME NEW t \in Threads, SpuriousWakeup(t) PROVE FALSE
    BY <2>9 DEF SpuriousWakeup, Disciplined
  <2>10. CASE tfs_init
    <3>1. Sleeping = {} /\ openFiles < 0 /\ openFiles' = 0 /\ taken' = {}
      BY <2>10 DEF tfs_init, Sleeping
    <3>2. Phase = "destroyed" /\ Phase' = "running"
      BY <2>0, <3>1 DEF Phase
    <3> QED
      BY <3>1, <3>2 DEF Barrier!Next, Barrier!Restart
  <2>11. CASE UNCHANGED vars
    BY <2>1, <2>2, <2>11 DEF vars, Sleeping
  <2> QED
    BY <2>1, <2>3, <2>4, <2>5, <2>6, <2>7, <2>8, <2>9, <2>10, <2>11 DEF Next, Steps
<1> QED
  BY <1>1, <1>2, TypeCorrect, CounterCorrect, DestroyInvariant, PTL
     DEF Spec, BarrierSafety

=============================================================================
