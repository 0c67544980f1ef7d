----------------------- MODULE BlockFilesSteps_proofs -----------------------
(***************************************************************************)
(* Proofs of what no step of BlockFiles may do: lose a handle, but in a    *)
(* copy whose read fails; change the bytes of a file without its lock; or  *)
(* overwrite a byte through a handle that appends.                         *)
(***************************************************************************)
EXTENDS BlockFilesBlocks_proofs

(* Handles *)

\* At these stages a call that opens a file has no handle yet.
Unopened == {"create", "truncate", "delete", "append", "add"}

\* A thread takes a handle for its file only when it has none.
HandleInv == \A u \in Threads : thread[u].stage \in Unopened => thread[u].h = NoHandle

\* The call of a thread has this handle open, for its caller or for a copy.
HasOpen(me, h) == me.op \in {"open", "copy"} /\ me.h = h

\* The read of a copy fails.
CopyFails(t, h) ==
    /\ thread[t].op = "copy" /\ thread[t].stage = "entry" /\ thread[t].h = h
    /\ ret'.call = "tfs_read" /\ ret'.val = -1

\* What a step of a thread does with handles that are taken.
Tidy(t) ==
    /\ \A u \in Threads \ {t} : thread'[u] = thread[u]
    /\ thread'[t].stage \in Unopened => thread'[t].h = NoHandle
    /\ \A h \in takenHandles' \ takenHandles : HasOpen(thread'[t], h)
    /\ \A h \in takenHandles' \cap DOMAIN issued : h \in DOMAIN issued'
    /\ \A h \in takenHandles' : HasOpen(thread[t], h) =>
         HasOpen(thread'[t], h) \/ h \in DOMAIN issued' \/ CopyFails(t, h)

\* Such a step loses no handle, unless the read of a copy fails.
LEMMA TidyLosesNone ==
    ASSUME HandleInv, NEW t \in Threads, Tidy(t)
    PROVE  HandleInv' /\ \A h \in LostHandles' \ LostHandles : CopyFails(t, h)
<1>1. ASSUME NEW u \in Threads, thread'[u].stage \in Unopened PROVE thread'[u].h = NoHandle
  BY <1>1 DEF Tidy, HandleInv
<1>2. ASSUME NEW h, h \in LostHandles', h \notin LostHandles PROVE CopyFails(t, h)
  <2>1. /\ h \in takenHandles' /\ h \notin DOMAIN issued'
        /\ \A u \in Threads : ~HasOpen(thread'[u], h)
    BY <1>2 DEF LostHandles, HasOpen
  <2>2. h \in takenHandles /\ h \notin DOMAIN issued
    BY <2>1 DEF Tidy
  <2>3. PICK u \in Threads : HasOpen(thread[u], h)
    BY <1>2, <2>2 DEF LostHandles, HasOpen
  <2>4. u = t
    BY <2>1, <2>3 DEF Tidy
  <2> QED
    BY <2>1, <2>3, <2>4 DEF Tidy
<1> QED
  BY <1>1, <1>2 DEF HandleInv, Unopened

\* A thread that finds its file still has no handle, and one that has none
\* before or after a step leaves the handles to the others.
LEMMA FoundHandle ==
    ASSUME NEW me \in ThreadStates, NEW i \in Inumbers
    PROVE  Found(me, i).h = me.h
<1> DEFINE found == [me EXCEPT !.inum = i]
<1>1. found \in ThreadType /\ found.h = me.h
  BY DEF ThreadStates, ThreadType
<1>2. Found(me, i) = IF "TFS_O_TRUNC" \in me.flags THEN [found EXCEPT !.stage = "truncate"]
                     ELSE [found EXCEPT !.stage = IF "TFS_O_APPEND" \in found.flags THEN "append"
                                                  ELSE "add"]
  BY DEF Found, Emptied
<1> HIDE DEF found
<1> QED
  BY <1>1, <1>2 DEF ThreadType

\* A step of a thread that had no handle open, and takes none.
LEMMA TidyWithout ==
    ASSUME TypeInv, NEW t \in Threads, UNCHANGED <<takenHandles, issued>>,
           \A u \in Threads \ {t} : thread'[u] = thread[u],
           thread[t].op \notin {"open", "copy"} \/ thread[t].h = NoHandle,
           thread'[t].stage \in Unopened => thread'[t].h = NoHandle
    PROVE  Tidy(t)
<1>1. NoHandle \notin Handles
  BY BlocksAssumption DEF NoHandle, Handles
<1>2. \A h \in takenHandles' : ~HasOpen(thread[t], h)
  BY <1>1 DEF TypeInv, HasOpen
<1> QED
  BY <1>2 DEF Tidy

\* A step of a thread that goes on with the handle it has.
LEMMA TidyWith ==
    ASSUME HandleInv, NEW t \in Threads, takenHandles' \subseteq takenHandles, UNCHANGED issued,
           \A u \in Threads \ {t} : thread'[u] = thread[u],
           \A h \in takenHandles' : HasOpen(thread[t], h) => HasOpen(thread'[t], h),
           thread'[t].stage \notin Unopened
    PROVE  Tidy(t)
BY DEF Tidy

\* A call looks its handle up, and goes on with it, or finds it closed.
LEMMA FindsHandle ==
    ASSUME TypeInv, NEW t \in Threads, NEW me \in ThreadStates, Finds(t, me)
    PROVE  /\ UNCHANGED <<takenHandles, issued>>
           /\ \A u \in Threads \ {t} : thread'[u] = thread[u]
           /\ thread'[t].stage \in {"lock", "check", "idle"}
           /\ \/ thread'[t].h = me.h /\ thread'[t].op = me.op
              \/ me.h \notin takenHandles
<1>0. UNCHANGED <<takenHandles, issued>>
  BY DEF Finds, store, table
<1>1. CASE thread' = [thread EXCEPT ![t] = [me EXCEPT !.inum = open_file_table[me.h].of_inumber,
                        !.stage = IF me.op = "write" THEN "lock" ELSE "check"]]
  <2>1. /\ thread'[t].stage \in {"lock", "check"} /\ thread'[t].h = me.h /\ thread'[t].op = me.op
        /\ \A u \in Threads \ {t} : thread'[u] = thread[u]
    BY <1>1 DEF TypeInv, ThreadStates, ThreadType
  <2> QED
    BY <1>0, <2>1
<1>2. CASE Ends(t) /\ me.h \notin takenHandles
  BY <1>0, <1>2, StepFields DEF Idle
<1> QED
  BY <1>1, <1>2 DEF Finds

\* A call of tfs_open.
LEMMA TidyOpen ==
    ASSUME TypeInv, NamesInv, NEW t \in Threads, NEW n \in Names,
           NEW flags \in SUBSET {"TFS_O_CREAT", "TFS_O_TRUNC", "TFS_O_APPEND"},
           NEW op \in {"open", "copy"}, CallOpen(t, n, flags, op)
    PROVE  Tidy(t)
<1> DEFINE i == find_in_dir(n)
           me == [Idle EXCEPT !.op = op, !.name = n, !.flags = flags]
<1>0. UNCHANGED <<takenHandles, issued>> /\ thread[t].op = "none" /\ thread[t].h = NoHandle
  BY DEF CallOpen, store, table, Idle
<1>1. me \in ThreadStates /\ me.h = NoHandle
  BY Zeros DEF ThreadStates, ThreadType, Idle, StageOK, Opening, WithHandle, Writing
<1> HIDE DEF me
<1>2. CASE i >= 0 /\ thread' = [thread EXCEPT ![t] = Found(me, i)]
  <2>1. i \in Inumbers
    BY <1>2, LookupsFile DEF FileInodes, TypeInv
  <2> HIDE DEF i
  <2>2. thread'[t] = Found(me, i) /\ \A u \in Threads \ {t} : thread'[u] = thread[u]
    BY <1>2 DEF TypeInv
  <2>3. thread'[t].h = NoHandle
    BY <1>1, <2>1, <2>2, FoundHandle
  <2> QED
    BY <1>0, <2>2, <2>3, TidyWithout
<1>3. CASE thread' = [thread EXCEPT ![t] = [me EXCEPT !.stage = "create"]]
  <2>1. thread'[t].h = NoHandle /\ \A u \in Threads \ {t} : thread'[u] = thread[u]
    BY <1>1, <1>3 DEF TypeInv, ThreadStates, ThreadType
  <2> QED
    BY <1>0, <2>1, TidyWithout
<1>4. CASE thread' = thread
  BY <1>0, <1>4, TidyWithout
<1> QED
  BY <1>2, <1>3, <1>4 DEF CallOpen, me

\* A call begins; tfs_close gives its handle back.
LEMMA TidyCalls ==
    ASSUME Inv, HandleInv, NEW t \in Threads, Calls(t)
    PROVE  Tidy(t)
<1>0. TypeInv /\ NamesInv
  BY DEF Inv
<1>1. FlagSets \subseteq SUBSET {"TFS_O_CREAT", "TFS_O_TRUNC", "TFS_O_APPEND"} /\ Sources \subseteq Names
  BY BlocksAssumption
<1>2. ASSUME NEW h \in Handles, CallClose(t, h) PROVE Tidy(t)
  <2>1. /\ takenHandles' = takenHandles \ {h} /\ DOMAIN issued' = DOMAIN issued \ {h}
        /\ thread' = thread
    BY <1>2 DEF CallClose, Close
  <2> QED
    BY <2>1 DEF Tidy, HandleInv
<1>3. ASSUME NEW me \in ThreadStates, Finds(t, me), thread[t] = Idle PROVE Tidy(t)
  <2>1. /\ UNCHANGED <<takenHandles, issued>> /\ \A u \in Threads \ {t} : thread'[u] = thread[u]
        /\ thread'[t].stage \in {"lock", "check", "idle"}
    BY <1>0, <1>3, FindsHandle
  <2> QED
    BY <1>0, <1>3, <2>1, TidyWithout DEF Idle, Unopened
<1>4. ASSUME NEW h \in Handles, NEW buf \in Contents, CallWrite(t, h, buf) PROVE Tidy(t)
  <2> DEFINE me == [Idle EXCEPT !.op = "write", !.h = h, !.buf = buf]
  <2>1. buf \in Seq(Nat)
    BY BlocksAssumption
  <2>2. me \in ThreadType /\ me.op = "write" /\ me.h = h /\ me.stage = "idle" /\ me.freed = 0
        /\ me.inum = ROOT_DIR_INUM
    BY <2>1, Zeros DEF ThreadStates, ThreadType, Idle
  <2>3. Finds(t, me) /\ thread[t] = Idle
    BY <1>4 DEF CallWrite
  <2> HIDE DEF me
  <2>4. me \in ThreadStates
    BY <2>2 DEF ThreadStates, StageOK, Opening, WithHandle, Writing
  <2> QED
    BY <1>3, <2>3, <2>4
<1>5. ASSUME NEW h \in Handles, NEW len \in Lengths, CallRead(t, h, len) PROVE Tidy(t)
  <2> DEFINE me == [Idle EXCEPT !.op = "read", !.h = h, !.len = len]
  <2>1. len \in Nat
    BY BlocksAssumption
  <2>2. me \in ThreadType /\ me.op = "read" /\ me.h = h /\ me.stage = "idle" /\ me.freed = 0
        /\ me.inum = ROOT_DIR_INUM
    BY <2>1, Zeros DEF ThreadStates, ThreadType, Idle
  <2>3. Finds(t, me) /\ thread[t] = Idle
    BY <1>5 DEF CallRead
  <2> HIDE DEF me
  <2>4. me \in ThreadStates
    BY <2>2 DEF ThreadStates, StageOK, Opening, WithHandle, Writing
  <2> QED
    BY <1>3, <2>3, <2>4
<1> QED
  BY <1>0, <1>1, <1>2, <1>4, <1>5, TidyOpen DEF Calls

\* A file is created, or cannot be.
LEMMA TidyCreates ==
    ASSUME Inv, HandleInv, NEW t \in Threads, Creates(t)
    PROVE  Tidy(t)
<1> DEFINE me == thread[t]
           i == find_in_dir(me.name)
<1>0. /\ TypeInv /\ NamesInv /\ me \in ThreadStates /\ me.h = NoHandle
      /\ UNCHANGED <<takenHandles, issued>>
  BY DEF Inv, Creates, TypeInv, HandleInv, Unopened, table
<1>1. SUFFICES /\ thread'[t].stage \in Unopened => thread'[t].h = NoHandle
               /\ \A u \in Threads \ {t} : thread'[u] = thread[u]
  BY <1>0, TidyWithout
<1>2. CASE i >= 0 /\ thread' = [thread EXCEPT ![t] = Found(@, i)]
  <2>1. i \in Inumbers
    BY <1>0, <1>2, LookupsFile DEF FileInodes, TypeInv
  <2>2. thread' = [thread EXCEPT ![t] = Found(me, i)]
    BY <1>2
  <2> HIDE DEF i
  <2>3. thread'[t] = Found(me, i) /\ \A u \in Threads \ {t} : thread'[u] = thread[u]
    BY <1>0, <2>2 DEF TypeInv
  <2> QED
    BY <1>0, <2>1, <2>3, FoundHandle
<1>3. CASE Ends(t)
  BY <1>0, <1>3, StepFields DEF Idle
<1>4. CASE \E new : thread' = [thread EXCEPT ![t].stage = "add", ![t].inum = new]
  BY <1>0, <1>4 DEF TypeInv, ThreadStates, ThreadType
<1> QED
  BY <1>2, <1>3, <1>4 DEF Creates

\* A file is truncated, and the end of it is looked for: there is no handle yet.
LEMMA TidyTruncates ==
    ASSUME Inv, HandleInv, NEW t \in Threads,
           LocksToTruncate(t) \/ FreesBlock(t) \/ Truncates(t) \/ Positions(t)
    PROVE  Tidy(t)
<1>0. /\ TypeInv /\ thread[t] \in ThreadStates /\ thread[t].h = NoHandle
      /\ UNCHANGED <<takenHandles, issued>>
  BY DEF Inv, TypeInv, LocksToTruncate, FreesBlock, Truncates, Positions, HandleInv, Unopened,
         store, table
<1>1. SUFFICES thread'[t].h = thread[t].h /\ \A u \in Threads \ {t} : thread'[u] = thread[u]
  BY <1>0, TidyWithout
<1>2. CASE Stays(t, "delete")
  BY <1>0, <1>2, StepFields
<1>3. CASE thread' = [thread EXCEPT ![t] = Emptied(@)]
  BY <1>0, <1>3 DEF Emptied, TypeInv, ThreadStates, ThreadType
<1>4. CASE FreesBlock(t)
  BY <1>0, <1>4 DEF FreesBlock, TypeInv, ThreadStates, ThreadType
<1>5. CASE Truncates(t)
  BY <1>0, <1>5 DEF Truncates, Emptied, TypeInv, ThreadStates, ThreadType
<1>6. CASE Positions(t)
  BY <1>0, <1>6 DEF Positions, TypeInv, ThreadStates, ThreadType
<1> QED
  BY <1>2, <1>3, <1>4, <1>5, <1>6 DEF LocksToTruncate

\* A handle is taken, or none is left.
LEMMA TidyTakes ==
    ASSUME Inv, HandleInv, NEW t \in Threads, TakesEntry(t)
    PROVE  Tidy(t)
<1>0. /\ TypeInv /\ thread[t] \in ThreadStates /\ thread[t].h = NoHandle
      /\ thread[t].op \in {"open", "copy"} /\ UNCHANGED issued
  BY DEF Inv, TypeInv, TakesEntry, HandleInv, Unopened, ThreadStates, StageOK, Opening
<1>1. CASE /\ takenHandles' = takenHandles \cup {Lowest(FreeEntries)}
           /\ thread' = [thread EXCEPT ![t].stage = "fill", ![t].h = Lowest(FreeEntries)]
  <2>1. PICK g : g = Lowest(FreeEntries)
    OBVIOUS
  <2>2. takenHandles' = takenHandles \cup {g}
        /\ thread' = [thread EXCEPT ![t].stage = "fill", ![t].h = g]
    BY <1>1, <2>1
  <2>3. /\ thread'[t].stage = "fill" /\ thread'[t].h = g /\ thread'[t].op = thread[t].op
        /\ \A u \in Threads \ {t} : thread'[u] = thread[u]
    BY <1>0, <2>2 DEF TypeInv, ThreadStates, ThreadType
  <2>4. ~(thread'[t].stage \in Unopened) /\ HasOpen(thread'[t], g)
    BY <1>0, <2>3 DEF Unopened, HasOpen
  <2>5. \A h \in takenHandles : ~HasOpen(thread[t], h)
    <3>1. NoHandle \notin Handles
      BY BlocksAssumption DEF NoHandle, Handles
    <3> QED
      BY <1>0, <3>1 DEF TypeInv, HasOpen
  <2>6. \A h \in takenHandles' : h \in takenHandles \/ h = g
    BY <2>2
  <2> QED
    BY <1>0, <2>3, <2>4, <2>5, <2>6 DEF Tidy
<1>2. CASE Ends(t) /\ UNCHANGED takenHandles
  BY <1>0, <1>2, StepFields, TidyWithout DEF Idle
<1> QED
  BY <1>1, <1>2 DEF TakesEntry

\* The entry of the handle is filled: the handle goes to the caller, or the
\* copy goes on with it.
LEMMA TidyFills ==
    ASSUME Inv, HandleInv, NEW t \in Threads, FillsEntry(t)
    PROVE  Tidy(t)
<1>0. /\ TypeInv /\ UNCHANGED takenHandles
      /\ thread[t].stage = "fill"
  BY DEF Inv, FillsEntry
<1>1. CASE /\ Ends(t)
           /\ issued' = [g \in DOMAIN issued \cup {thread[t].h} |->
                IF g = thread[t].h THEN "TFS_O_APPEND" \in thread[t].flags ELSE issued[g]]
  <2>1. thread'[t] = Idle /\ \A u \in Threads \ {t} : thread'[u] = thread[u]
    BY <1>0, <1>1, StepFields
  <2>2. DOMAIN issued' = DOMAIN issued \cup {thread[t].h}
    BY <1>1
  <2> QED
    BY <1>0, <2>1, <2>2 DEF Tidy, HasOpen, Idle, Unopened
<1>2. CASE UNCHANGED issued /\ \E stage \in {"find", "close"} :
             thread' = [thread EXCEPT ![t] =
               [Idle EXCEPT !.stage = stage, !.op = "copy", !.h = thread[t].h,
                            !.len = IF stage = "find" THEN BUFFER_SIZE ELSE 0]]
  <2>1. PICK stage \in {"find", "close"} : thread' = [thread EXCEPT ![t] =
               [Idle EXCEPT !.stage = stage, !.op = "copy", !.h = thread[t].h,
                            !.len = IF stage = "find" THEN BUFFER_SIZE ELSE 0]]
    BY <1>2
  <2>2. thread'[t].stage \in {"find", "close"} /\ thread'[t].op = "copy" /\ thread'[t].h = thread[t].h
        /\ \A u \in Threads \ {t} : thread'[u] = thread[u]
    BY <1>0, <2>1 DEF Idle, TypeInv
  <2> QED
    BY <1>0, <1>2, <2>2, TidyWith DEF HasOpen, Unopened
<1> QED
  BY <1>1, <1>2 DEF FillsEntry

\* A copy closes its handle, or looks it up.
LEMMA TidyCopies ==
    ASSUME Inv, HandleInv, NEW t \in Threads, CopyCloses(t) \/ CopyReads(t)
    PROVE  Tidy(t)
<1>0. TypeInv /\ thread[t] \in ThreadStates
  BY DEF Inv, TypeInv
<1>1. CASE CopyCloses(t)
  <2>1. /\ takenHandles' = takenHandles \ {thread[t].h} /\ UNCHANGED issued
        /\ thread'[t] = Idle /\ \A u \in Threads \ {t} : thread'[u] = thread[u]
    BY <1>0, <1>1, StepFields DEF CopyCloses, Close
  <2> QED
    BY <2>1, TidyWith DEF HasOpen, Idle, Unopened
<1>2. CASE CopyReads(t)
  <2>1. Finds(t, thread[t])
    BY <1>2 DEF CopyReads
  <2>2. /\ UNCHANGED <<takenHandles, issued>> /\ \A u \in Threads \ {t} : thread'[u] = thread[u]
        /\ thread'[t].stage \in {"lock", "check", "idle"}
        /\ \/ thread'[t].h = thread[t].h /\ thread'[t].op = thread[t].op
           \/ thread[t].h \notin takenHandles
    BY <1>0, <2>1, FindsHandle
  <2> QED
    BY <2>2, TidyWith DEF HasOpen, Unopened
<1> QED
  BY <1>1, <1>2

\* A write has no handle open of its own.
LEMMA TidyWrites ==
    ASSUME Inv, HandleInv, NEW t \in Threads,
           \/ LocksToWrite(t) \/ LocksEntryToWrite(t) \/ AllocsBlock(t)
           \/ AllocsIndirect(t) \/ ReleasesIndirect(t) \/ Writes(t)
    PROVE  Tidy(t)
<1>0. /\ TypeInv /\ thread[t].op = "write" /\ thread[t].stage \notin Unopened
      /\ UNCHANGED <<takenHandles, issued>>
  <2>1. thread[t] \in ThreadStates
    BY DEF Inv, TypeInv
  <2>2. thread[t].op = "write" /\ thread[t].stage \in {"lock", "entry"} \cup Writing
    BY <2>1 DEF ThreadStates, StageOK, LocksToWrite, LocksEntryToWrite, AllocsBlock, AllocsIndirect,
                ReleasesIndirect, Writes, Writing
  <2>3. UNCHANGED <<takenHandles, issued>>
    BY DEF LocksToWrite, LocksEntryToWrite, AllocsBlock, AllocsIndirect,
           ReleasesIndirect, Writes, store, table
  <2> QED
    BY <2>2, <2>3 DEF Inv, Unopened, Writing
<1>1. SUFFICES /\ thread'[t].stage \notin Unopened
               /\ \A u \in Threads \ {t} : thread'[u] = thread[u]
  BY <1>0, TidyWithout
<1>2. CASE \E s \in {"entry", "alloc", "indirect", "release", "store"} : Stays(t, s)
  BY <1>0, <1>2, StepFields DEF Unopened
<1>3. CASE UNCHANGED thread
  BY <1>0, <1>3
<1>4. CASE Ends(t)
  BY <1>0, <1>4, StepFields DEF Idle, Unopened
<1> QED
  BY <1>2, <1>3, <1>4 DEF LocksToWrite, LocksEntryToWrite, AllocsBlock, AllocsIndirect,
                          ReleasesIndirect, Writes

\* A copy goes on with its handle after a read that did not fail.
LEMMA GoesOn ==
    ASSUME TypeInv, NEW t \in Threads, thread[t].op \in {"read", "copy"},
           NEW v \in Nat, AfterRead(t, v), NEW h, HasOpen(thread[t], h)
    PROVE  HasOpen(thread'[t], h)
<1> DEFINE stage == IF v > 0 THEN "find" ELSE "close"
           len == IF v > 0 THEN BUFFER_SIZE ELSE 0
<1>1. thread' = [thread EXCEPT ![t] = CopyAt(thread[t].h, stage, len)]
  <2>1. ~(thread[t].op = "read" \/ v < 0)
    BY DEF HasOpen
  <2> QED
    BY <2>1 DEF AfterRead, CopyAt
<1> HIDE DEF stage, len
<1>2. thread'[t] = CopyAt(thread[t].h, stage, len)
  BY <1>1 DEF TypeInv
<1>3. CopyAt(thread[t].h, stage, len).h = thread[t].h /\ CopyAt(thread[t].h, stage, len).op = "copy"
  BY DEF CopyAt, Idle
<1> QED
  BY <1>2, <1>3 DEF HasOpen

\* A read, of a caller or of a copy.
LEMMA TidyReads ==
    ASSUME Inv, HandleInv, NEW t \in Threads, ChecksAppend(t) \/ LocksToRead(t) \/ Reads(t)
    PROVE  Tidy(t)
<1>0. /\ TypeInv /\ thread[t].op \in {"read", "copy"} /\ UNCHANGED <<takenHandles, issued>>
  <2>1. thread[t] \in ThreadStates
    BY DEF Inv, TypeInv
  <2>2. thread[t].op \in {"read", "copy"}
    BY <2>1 DEF ThreadStates, StageOK, ChecksAppend, LocksToRead, Reads
  <2>3. UNCHANGED <<takenHandles, issued>>
    BY DEF ChecksAppend, LocksToRead, Reads, store, table
  <2> QED
    BY <2>2, <2>3 DEF Inv
<1>1. CASE \E s \in {"lock", "entry"} : Stays(t, s)
  BY <1>0, <1>1, StepFields, TidyWith DEF HasOpen, Unopened
<1>2. CASE \E v \in Nat : AfterRead(t, v)
  <2>1. PICK v \in Nat : AfterRead(t, v)
    BY <1>2
  <2>2. thread'[t].stage \in {"idle", "find", "close"} /\ \A u \in Threads \ {t} : thread'[u] = thread[u]
    BY <1>0, <2>1, StepFields
  <2>3. \A h : HasOpen(thread[t], h) => HasOpen(thread'[t], h)
    BY <1>0, <2>1, GoesOn
  <2> QED
    BY <1>0, <2>2, <2>3, TidyWith DEF Unopened
<1>3. CASE Reads(t) /\ Returns("tfs_read", -1) /\ AfterRead(t, -1)
  <2>1. thread'[t].stage \in {"idle", "find", "close"} /\ \A u \in Threads \ {t} : thread'[u] = thread[u]
    BY <1>0, <1>3, StepFields
  <2>2. \A h : HasOpen(thread[t], h) => CopyFails(t, h)
    BY <1>0, <1>3 DEF HasOpen, CopyFails, Reads, Returns
  <2> QED
    BY <1>0, <2>1, <2>2 DEF Tidy, Unopened
<1>4. CASE Reads(t) /\ ~(Returns("tfs_read", -1) /\ AfterRead(t, -1))
  <2> DEFINE node == inode_table[thread[t].inum]
             off == open_file_table[thread[t].h].of_offset
             n == Least((node.i_size - off) % SizeModulus, thread[t].len)
  <2>1. AfterRead(t, n)
    BY <1>4 DEF Reads
  <2>2. n \in Nat
    <3>1. thread[t].inum \in Inumbers /\ thread[t].len \in Nat /\ thread[t].h \in Handles
      BY <1>0, <1>4 DEF Reads, TypeInv, ThreadStates, ThreadType, StageOK, WithHandle
    <3>2. node.i_size \in Int /\ off \in Int
      <4>1. inode_table[thread[t].inum] \in InodeType /\ open_file_table[thread[t].h] \in EntryType
        BY <1>0, <3>1 DEF TypeInv
      <4>2. node.i_size \in Int
        BY <4>1, Sizes DEF InodeType
      <4>3. off \in Int
        BY <4>1, Sizes DEF EntryType
      <4> QED
        BY <4>2, <4>3
    <3>3. SizeModulus \in Nat /\ SizeModulus > 0
      BY Sizes, BlocksAssumption DEF MAX_FILE_SIZE
    <3> HIDE DEF node, off
    <3>4. (node.i_size - off) % SizeModulus \in Nat
      BY <3>2, <3>3
    <3> QED
      BY <3>1, <3>4 DEF Least
  <2> QED
    BY <1>2, <2>1, <2>2
<1>5. ChecksAppend(t) => AfterRead(t, 0) \/ Stays(t, "lock")
  BY DEF ChecksAppend
<1> QED
  BY <1>1, <1>2, <1>3, <1>4, <1>5 DEF LocksToRead

\* Every step of a thread.
LEMMA StepsTidy ==
    ASSUME Inv, HandleInv, NEW t \in Threads, Calls(t) \/ Step(t)
    PROVE  Tidy(t)
BY TidyCalls, TidyCreates, TidyTruncates, TidyTakes, TidyFills, TidyCopies, TidyWrites, TidyReads
DEF Step

\* Every step, and none.
LEMMA HandlesNext ==
    ASSUME Inv, HandleInv, [Next]_vars
    PROVE  /\ HandleInv'
           /\ \A h \in LostHandles' \ LostHandles : \E t \in Threads : CopyFails(t, h)
<1>1. CASE Restart
  <2>1. \A u \in Threads : thread'[u].stage = "idle"
    BY <1>1 DEF Restart
  <2>2. takenHandles' = {}
    BY <1>1 DEF Restart
  <2> QED
    BY <2>1, <2>2 DEF HandleInv, Unopened, LostHandles
<1>2. ASSUME NEW t \in Threads, Calls(t) \/ Step(t)
      PROVE  HandleInv' /\ \A h \in LostHandles' \ LostHandles : CopyFails(t, h)
  <2>1. Tidy(t)
    BY <1>2, StepsTidy
  <2> QED
    BY <2>1, TidyLosesNone
<1>3. CASE UNCHANGED vars
  <2>1. UNCHANGED <<takenHandles, issued, thread>>
    BY <1>3 DEF vars, store, table
  <2> QED
    BY <2>1 DEF HandleInv, Unopened, LostHandles
<1> QED
  BY <1>1, <1>2, <1>3 DEF Next

\* Only a copy whose read fails loses its handle: every other way out of a call
\* that opened a file closes it, or gives the handle to the caller
\* (operations.c:282-294).
THEOREM HandlesKept == Spec => OnlyFailedCopyLoses
<1>1. Init => HandleInv
  BY DEF Init, Idle, HandleInv, Unopened
<1>2. Inv /\ HandleInv /\ [Next]_vars =>
        HandleInv' /\ \A h \in LostHandles' \ LostHandles : \E t \in Threads : CopyFails(t, h)
  BY HandlesNext
<1>3. Inv /\ HandleInv /\ [Next]_vars => HandleInv'
  BY <1>2
<1>4. Inv /\ HandleInv /\ [Next]_vars =>
        [\A h \in LostHandles' \ LostHandles : \E t \in Threads :
           /\ thread[t].op = "copy" /\ thread[t].stage = "entry" /\ thread[t].h = h
           /\ ret'.call = "tfs_read" /\ ret'.val = -1]_vars
  BY <1>2 DEF CopyFails
<1> QED
  BY <1>1, <1>3, <1>4, Invariance, PTL DEF Spec, OnlyFailedCopyLoses

-----------------------------------------------------------------------------
(* The bytes of files *)

\* Byte p of a file, and no byte of it, are where they were.
ByteOf(i, p) == fs_data[BlockOf(i, divCeilRW(p, BLOCK_SIZE))][(p % BLOCK_SIZE) + 1]
BytesKept(i) ==
    \A k \in DOMAIN Content(i) : Content(i)[k] # NoByte => Content(i)'[k] = Content(i)[k]
ContentKept(i) == DOMAIN Content(i)' = DOMAIN Content(i) /\ BytesKept(i)

\* Bytes lie in blocks that are counted from 1.
LEMMA PlaceOfByte ==
    ASSUME NEW m \in 0 .. MAX_FILE_SIZE, NEW k \in 1 .. m
    PROVE  divCeilRW(k - 1, BLOCK_SIZE) # 0
<1>1. k \in Nat \ {0} /\ BLOCK_SIZE \in Nat \ {0}
  BY Sizes, BlocksAssumption
<1>2. (k - 1) \div BLOCK_SIZE \in Nat
  BY <1>1
<1> QED
  BY <1>2 DEF divCeilRW

\* The content of a file, by its blocks.
LEMMA ContentIs ==
    ASSUME NEW i, inode_table[i] \in InodeType
    PROVE  /\ At({"delete"}, i) # {} => Content(i) = <<>>
           /\ At({"delete"}, i) = {} => Content(i) =
                [k \in 1 .. inode_table[i].i_size |->
                   IF k > inode_table[i].blocksAlloc * BLOCK_SIZE THEN NoByte ELSE ByteOf(i, k - 1)]
<1>1. ASSUME NEW k \in 1 .. inode_table[i].i_size
      PROVE  fs_data[CellOf(inode_table[i], k - 1)[1]][CellOf(inode_table[i], k - 1)[2]]
               = ByteOf(i, k - 1)
  <2> DEFINE n == divCeilRW(k - 1, BLOCK_SIZE)
  <2>1. n # 0
    BY PlaceOfByte DEF InodeType
  <2>2. getNthDataBlock(inode_table[i], n) = BlockOf(i, n)
    BY <2>1 DEF getNthDataBlock, BlockOf, BlockAt
  <2> QED
    BY <2>2 DEF CellOf, ByteOf
<1> QED
  BY <1>1 DEF Content

\* The same after a step.
LEMMA ContentIsNext ==
    ASSUME NEW i, inode_table'[i] \in InodeType
    PROVE  /\ At({"delete"}, i)' # {} => Content(i)' = <<>>
           /\ At({"delete"}, i)' = {} => Content(i)' =
                [k \in 1 .. inode_table'[i].i_size |->
                   IF k > inode_table'[i].blocksAlloc * BLOCK_SIZE THEN NoByte
                   ELSE ByteOf(i, k - 1)']
<1>1. ASSUME NEW k \in 1 .. inode_table'[i].i_size
      PROVE  fs_data'[CellOf(inode_table[i], k - 1)'[1]][CellOf(inode_table[i], k - 1)'[2]]
               = ByteOf(i, k - 1)'
  <2> DEFINE n == divCeilRW(k - 1, BLOCK_SIZE)
  <2>1. n # 0
    BY PlaceOfByte DEF InodeType
  <2>2. getNthDataBlock(inode_table[i], n)' = BlockOf(i, n)'
    BY <2>1 DEF getNthDataBlock, BlockOf, BlockAt
  <2> QED
    BY <2>2 DEF CellOf, ByteOf
<1> QED
  BY <1>1 DEF Content

\* A file that is not being truncated has a block for each place up to its last.
LEMMA KeysInUse ==
    ASSUME TypeInv, NEW i \in Inumbers, At({"delete"}, i) = {},
           NEW n \in 1 .. inode_table[i].blocksAlloc
    PROVE  n \in Keys /\ n # 0 /\ InUse(i, n)
<1>1. inode_table[i] \in InodeType /\ MAX_INODE_BLOCKS \in Nat
      /\ inode_table[i].blocksAlloc \in 0 .. MAX_INODE_BLOCKS
  BY BlocksAssumption DEF TypeInv, InodeType
<1>2. HasKey(inode_table[i], n) /\ n # 0 /\ n \in Keys
  BY <1>1 DEF HasKey, Keys
<1>3. FreePos(inode_table[i], n) \in 1 .. FreeLen(inode_table[i]) /\ FreeLen(inode_table[i]) \in Nat
  BY <1>1, <1>2, FreePositions
<1>4. Freed(i) = 0
  BY DEF Freed
<1> QED
  BY <1>2, <1>3, <1>4 DEF InUse

\* A file that has no fewer blocks than before, and whose bytes are the same,
\* has the same content.
LEMMA BytesStay ==
    ASSUME NEW i, At({"delete"}, i) = {}, At({"delete"}, i)' = {},
           inode_table[i] \in InodeType, inode_table'[i] \in InodeType,
           inode_table[i].i_size <= inode_table'[i].i_size,
           inode_table[i].blocksAlloc <= inode_table'[i].blocksAlloc,
           \A p \in Nat : p < inode_table[i].i_size /\ p < inode_table[i].blocksAlloc * BLOCK_SIZE
                            => ByteOf(i, p)' = ByteOf(i, p)
    PROVE  /\ BytesKept(i)
           /\ inode_table'[i].i_size = inode_table[i].i_size => ContentKept(i)
<1> DEFINE node == inode_table[i]
           new == inode_table'[i]
<1>1. Content(i) = [k \in 1 .. node.i_size |->
        IF k > node.blocksAlloc * BLOCK_SIZE THEN NoByte ELSE ByteOf(i, k - 1)]
  BY ContentIs
<1>2. Content(i)' = [k \in 1 .. new.i_size |->
        IF k > new.blocksAlloc * BLOCK_SIZE THEN NoByte ELSE ByteOf(i, k - 1)']
  BY ContentIsNext
<1>3. /\ node.i_size \in Nat /\ new.i_size \in Nat /\ node.i_size <= new.i_size
      /\ node.blocksAlloc * BLOCK_SIZE \in Nat /\ new.blocksAlloc * BLOCK_SIZE \in Nat
      /\ node.blocksAlloc * BLOCK_SIZE <= new.blocksAlloc * BLOCK_SIZE
  <2>1. /\ node.i_size \in Nat /\ new.i_size \in Nat /\ node.blocksAlloc \in Nat
        /\ new.blocksAlloc \in Nat /\ BLOCK_SIZE \in Nat
    BY Sizes, BlocksAssumption DEF InodeType
  <2>2. \A a, b, c \in Nat : a <= b => a * c <= b * c /\ a * c \in Nat /\ b * c \in Nat
    OBVIOUS
  <2> HIDE DEF node, new
  <2> QED
    BY <2>1, <2>2 DEF node, new
<1>4. PICK room : room = node.blocksAlloc * BLOCK_SIZE
  OBVIOUS
<1>5. PICK more : more = new.blocksAlloc * BLOCK_SIZE
  OBVIOUS
<1>6. ASSUME NEW k \in 1 .. node.i_size, ~(k > room)
      PROVE  k \in 1 .. new.i_size /\ ~(k > more) /\ ByteOf(i, k - 1)' = ByteOf(i, k - 1)
  <2>1. k - 1 \in Nat /\ k - 1 < node.i_size /\ k - 1 < room
    BY <1>3, <1>4, <1>6
  <2>2. ByteOf(i, k - 1)' = ByteOf(i, k - 1)
    BY <1>4, <2>1
  <2> HIDE DEF node, new
  <2> QED
    BY <1>3, <1>4, <1>5, <1>6, <2>2
<1> HIDE DEF node, new
<1>7. BytesKept(i)
  BY <1>1, <1>2, <1>4, <1>5, <1>6 DEF BytesKept
<1>8. new.i_size = node.i_size => DOMAIN Content(i)' = DOMAIN Content(i)
  BY <1>1, <1>2
<1> QED
  BY <1>7, <1>8 DEF ContentKept, node, new

\* Blocks that keep their place and what is in them.
LEMMA BytesSame ==
    ASSUME TypeInv, NEW i \in Inumbers,
           \A n \in 1 .. inode_table[i].blocksAlloc :
             BlockOf(i, n)' = BlockOf(i, n) /\ fs_data'[BlockOf(i, n)] = fs_data[BlockOf(i, n)]
    PROVE  \A p \in Nat : p < inode_table[i].blocksAlloc * BLOCK_SIZE => ByteOf(i, p)' = ByteOf(i, p)
<1>1. BLOCK_SIZE \in Nat \ {0} /\ inode_table[i].blocksAlloc \in Nat
  BY BlocksAssumption DEF TypeInv, InodeType
<1>2. ASSUME NEW p \in Nat, p < inode_table[i].blocksAlloc * BLOCK_SIZE
      PROVE  ByteOf(i, p)' = ByteOf(i, p)
  <2>1. divCeilRW(p, BLOCK_SIZE) \in 1 .. inode_table[i].blocksAlloc
    <3>1. p \div BLOCK_SIZE \in 0 .. inode_table[i].blocksAlloc - 1
      BY <1>1, <1>2, BlockOfByte
    <3> DEFINE q == p \div BLOCK_SIZE
    <3>2. q \in 0 .. inode_table[i].blocksAlloc - 1
      BY <3>1
    <3> HIDE DEF q
    <3>3. q + 1 \in 1 .. inode_table[i].blocksAlloc
      BY <1>1, <3>2
    <3> QED
      BY <3>3 DEF q, divCeilRW
  <2> QED
    BY <2>1 DEF ByteOf
<1> QED
  BY <1>2

\* A truncation of a file goes on, or none does.
LEMMA DeletesSame ==
    ASSUME NEW t \in Threads, \A u \in Threads \ {t} : thread'[u] = thread[u], NEW i,
           Deletes(thread'[t], i) <=> Deletes(thread[t], i)
    PROVE  At({"delete"}, i)' = At({"delete"}, i)
<1>1. \A u \in Threads : Deletes(thread'[u], i) <=> Deletes(thread[u], i)
  OBVIOUS
<1> QED
  BY <1>1 DEF At, Deletes

\* A step that changes the cells of no block but those of one file, and the
\* i-node of no other file, changes no byte of another file.
LEMMA OthersApart ==
    ASSUME TypeInv, TypeInv', BlockInv, NEW t \in Threads,
           \A u \in Threads \ {t} : thread'[u] = thread[u], NEW x,
           \A i \in FileInodes \ {x} : inode_table'[i] = inode_table[i],
           \A i \in FileInodes \ {x} : Deletes(thread'[t], i) <=> Deletes(thread[t], i),
           \A c \in takenBlocks :
             \/ fs_data'[c] = fs_data[c]
             \/ x \in FileInodes /\ \E k \in Keys : InUse(x, k) /\ BlockOf(x, k) = c
    PROVE  \A i \in FileInodes \ {x} : ContentKept(i)
<1> SUFFICES ASSUME NEW i \in FileInodes \ {x} PROVE ContentKept(i)
  OBVIOUS
<1>1. i \in Inumbers /\ inode_table[i] \in InodeType /\ inode_table'[i] = inode_table[i]
  BY DEF FileInodes, TypeInv
<1>2. At({"delete"}, i)' = At({"delete"}, i)
  BY DeletesSame
<1>3. CASE At({"delete"}, i) # {}
  <2>1. Content(i) = <<>> /\ Content(i)' = <<>>
    BY <1>1, <1>2, <1>3, ContentIs, ContentIsNext
  <2> QED
    BY <2>1 DEF ContentKept, BytesKept
<1>4. CASE At({"delete"}, i) = {}
  <2>1. ASSUME NEW k \in Keys, InUse(i, k)
        PROVE  fs_data'[BlockOf(i, k)] = fs_data[BlockOf(i, k)]
    <3>1. BlockOf(i, k) \in takenBlocks
      BY <2>1 DEF BlockInv
    <3>2. \A l \in Keys : x \in FileInodes /\ InUse(x, l) => BlockOf(x, l) # BlockOf(i, k)
      BY <2>1 DEF BlockInv
    <3> QED
      BY <3>1, <3>2
  <2>2. ASSUME NEW n \in 1 .. inode_table[i].blocksAlloc
        PROVE  BlockOf(i, n)' = BlockOf(i, n) /\ fs_data'[BlockOf(i, n)] = fs_data[BlockOf(i, n)]
    <3>1. n \in Keys /\ n # 0 /\ InUse(i, n)
      BY <1>1, <1>4, KeysInUse
    <3>2. CASE n <= DIRECT_BLOCK_COUNT
      BY <1>1, <2>1, <3>1, <3>2 DEF BlockOf, BlockAt
    <3>3. CASE ~(n <= DIRECT_BLOCK_COUNT)
      <4>1. n > DIRECT_BLOCK_COUNT
        BY <3>1, <3>3, BlocksAssumption DEF Keys
      <4>2. InUse(i, 0) /\ BlockOf(i, 0) = inode_table[i].indirect_data_block /\ 0 \in Keys
        BY <1>1, <3>1, <4>1, IndirectInUse
      <4>3. fs_data'[inode_table[i].indirect_data_block] = fs_data[inode_table[i].indirect_data_block]
        BY <2>1, <4>2
      <4> QED
        BY <1>1, <2>1, <3>1, <3>3, <4>3 DEF BlockOf, BlockAt
    <3> QED
      BY <3>2, <3>3
  <2>3. \A p \in Nat : p < inode_table[i].blocksAlloc * BLOCK_SIZE => ByteOf(i, p)' = ByteOf(i, p)
    BY <1>1, <2>2, BytesSame
  <2>4. inode_table[i].i_size <= inode_table[i].i_size
        /\ inode_table[i].blocksAlloc <= inode_table[i].blocksAlloc
    <3>1. inode_table[i].i_size \in 0 .. MAX_FILE_SIZE
          /\ inode_table[i].blocksAlloc \in 0 .. MAX_INODE_BLOCKS
      BY <1>1 DEF InodeType
    <3>2. \A m : \A n \in 0 .. m : n <= n
      OBVIOUS
    <3> QED
      BY <3>1, <3>2
  <2> QED
    BY <1>1, <1>2, <1>4, <2>3, <2>4, BytesStay
<1> QED
  BY <1>3, <1>4

\* The thread that has a file's lock, or takes it, makes the step.
ByHolder(i) == \E u \in Threads : /\ u \in {rwlock[i].writer, rwlock'[i].writer}
                                  /\ thread'[u] # thread[u]
Apart == \A i \in FileInodes \cap takenInodes' : ContentKept(i) \/ ByHolder(i)

\* A thread that goes on with its write or truncation holds the lock, or did.
LEMMA HolderSteps ==
    ASSUME NEW t \in Threads, thread'[t] # thread[t], NEW x \in Inumbers,
           \/ LockInv /\ HoldsWrite(thread[t], x)
           \/ LockInv' /\ HoldsWrite(thread'[t], x)
    PROVE  ByHolder(x)
<1>1. CASE LockInv /\ HoldsWrite(thread[t], x)
  BY <1>1 DEF LockInv, ByHolder
<1>2. CASE LockInv' /\ HoldsWrite(thread'[t], x)
  <2>1. rwlock'[x].writer = t
    BY <1>2 DEF LockInv, HoldsWrite
  <2> QED
    BY <2>1 DEF ByHolder
<1> QED
  BY <1>1, <1>2

\* A step that changes neither i-nodes nor cells, of a thread that neither
\* starts nor stops a truncation.
LEMMA ApartQuiet ==
    ASSUME TypeInv, TypeInv', BlockInv, NEW t \in Threads,
           \A u \in Threads \ {t} : thread'[u] = thread[u],
           thread[t].stage # "delete", thread'[t].stage # "delete",
           UNCHANGED <<inode_table, fs_data>>
    PROVE  Apart
<1>1. ROOT_DIR_INUM \notin FileInodes
  BY DEF FileInodes
<1>2. \A i : Deletes(thread'[t], i) <=> Deletes(thread[t], i)
  BY DEF Deletes
<1>3. \A i \in FileInodes \ {ROOT_DIR_INUM} : ContentKept(i)
  BY <1>2, OthersApart
<1> QED
  BY <1>1, <1>3 DEF Apart

\* A step of a thread on its own file.
LEMMA ApartOwn ==
    ASSUME TypeInv, TypeInv', BlockInv, NEW t \in Threads,
           \A u \in Threads \ {t} : thread'[u] = thread[u],
           NEW x \in FileInodes, x = thread[t].inum, ContentKept(x) \/ ByHolder(x),
           thread'[t].inum = x \/ thread'[t].stage # "delete",
           \A i \in Inumbers \ {x} : inode_table'[i] = inode_table[i],
           \A c \in takenBlocks :
             fs_data'[c] = fs_data[c] \/ \E k \in Keys : InUse(x, k) /\ BlockOf(x, k) = c
    PROVE  Apart
<1>1. \A i \in FileInodes \ {x} : inode_table'[i] = inode_table[i]
  BY DEF FileInodes, TypeInv
<1>2. \A i \in FileInodes \ {x} : ~Deletes(thread'[t], i) /\ ~Deletes(thread[t], i)
  BY DEF Deletes
<1>3. \A i \in FileInodes \ {x} : ContentKept(i)
  BY <1>1, <1>2, OthersApart
<1> QED
  BY <1>3 DEF Apart

\* A file is created, or found.
LEMMA ApartCreates ==
    ASSUME AllInv, TypeInv', NEW t \in Threads, Creates(t)
    PROVE  Apart
<1> DEFINE me == thread[t]
           i == find_in_dir(me.name)
           free == Inumbers \ takenInodes
<1>0. /\ TypeInv /\ NamesInv /\ BlockInv /\ me \in ThreadStates /\ me.stage = "create"
      /\ fs_data' = fs_data
  BY DEF AllInv, Inv, Creates, TypeInv, disk
<1>1. CASE i >= 0 /\ thread' = [thread EXCEPT ![t] = Found(@, i)] /\ UNCHANGED inode_table
  <2>1. i \in Inumbers
    BY <1>0, <1>1, LookupsFile DEF FileInodes, TypeInv
  <2>2. thread' = [thread EXCEPT ![t] = Found(me, i)]
    BY <1>1
  <2> HIDE DEF i
  <2>3. thread'[t] = Found(me, i) /\ \A u \in Threads \ {t} : thread'[u] = thread[u]
    BY <1>0, <2>2 DEF TypeInv
  <2>4. thread'[t].stage \in {"truncate", "append", "add"}
    BY <1>0, <2>1, <2>3, FoundFields
  <2> QED
    BY <1>0, <1>1, <2>3, <2>4, ApartQuiet
<1>2. CASE Ends(t) /\ UNCHANGED inode_table
  <2>1. thread'[t].stage = "idle" /\ \A u \in Threads \ {t} : thread'[u] = thread[u]
    BY <1>0, <1>2, StepFields DEF Idle
  <2> QED
    BY <1>0, <1>2, <2>1, ApartQuiet
<1>3. CASE /\ free # {}
           /\ inode_table' = [inode_table EXCEPT ![Lowest(free)] = NewInode]
           /\ thread' = [thread EXCEPT ![t].stage = "add", ![t].inum = Lowest(free)]
  <2>a. PICK new : new = Lowest(free)
    OBVIOUS
  <2>1. new \notin takenInodes /\ new \in Inumbers
    <3>1. free \in SUBSET Inumbers
      OBVIOUS
    <3> HIDE DEF free
    <3>2. Lowest(free) \in free
      BY <1>3, <3>1, FreeOnes
    <3> QED
      BY <2>a, <3>1, <3>2 DEF free
  <2>b. /\ inode_table' = [inode_table EXCEPT ![new] = NewInode]
        /\ thread' = [thread EXCEPT ![t].stage = "add", ![t].inum = new]
    BY <1>3, <2>a
  <2>2. thread'[t].stage = "add" /\ \A u \in Threads \ {t} : thread'[u] = thread[u]
    BY <1>0, <2>b DEF TypeInv, ThreadStates, ThreadType
  <2>3. \A j \in Inumbers \ {new} : inode_table'[j] = inode_table[j]
    BY <1>0, <2>1, <2>b DEF TypeInv
  <2>4. \A j \in FileInodes : j # new /\ j \in Inumbers
    BY <1>0, <2>1 DEF FileInodes, TypeInv
  <2>5. \A j : ~Deletes(thread[t], j) /\ ~Deletes(thread'[t], j)
    BY <1>0, <2>2 DEF Deletes
  <2>6. \A j \in FileInodes \ {new} : inode_table'[j] = inode_table[j]
    BY <2>3, <2>4
  <2>7. \A j \in FileInodes \ {new} : ContentKept(j)
    BY <1>0, <2>2, <2>5, <2>6, OthersApart
  <2> QED
    BY <2>4, <2>7 DEF Apart
<1> QED
  BY <1>1, <1>2, <1>3 DEF Creates

\* A file is truncated.
LEMMA ApartTruncates ==
    ASSUME AllInv, TypeInv', LockInv', NEW t \in Threads,
           LocksToTruncate(t) \/ FreesBlock(t) \/ Truncates(t)
    PROVE  Apart
<1>a. PICK x : x = thread[t].inum
  OBVIOUS
<1>0. /\ TypeInv /\ LockInv /\ BlockInv /\ fs_data' = fs_data
      /\ thread[t] \in ThreadStates /\ thread[t].stage \in {"truncate", "delete"}
  BY DEF AllInv, Inv, TypeInv, LocksToTruncate, FreesBlock, Truncates, store, disk
<1>1. x \in FileInodes /\ x \in Inumbers
  BY <1>0, <1>a DEF AllInv, FileInv, FileStages, FileInodes, TypeInv
<1>2. CASE LocksToTruncate(t) /\ thread' = [thread EXCEPT ![t] = Emptied(@)]
  <2>1. thread'[t].stage \in {"append", "add"} /\ \A u \in Threads \ {t} : thread'[u] = thread[u]
    BY <1>0, <1>2 DEF Emptied, TypeInv, ThreadStates, ThreadType
  <2>2. thread[t].stage = "truncate" /\ UNCHANGED inode_table
    BY <1>2 DEF LocksToTruncate, store
  <2> QED
    BY <1>0, <2>1, <2>2, ApartQuiet
<1>3. CASE LocksToTruncate(t) /\ Stays(t, "delete")
  <2>1. /\ thread'[t].stage = "delete" /\ thread'[t].inum = x
        /\ \A u \in Threads \ {t} : thread'[u] = thread[u]
    BY <1>0, <1>a, <1>3, StepFields
  <2>2. thread[t].stage = "truncate" /\ inode_table' = inode_table
    BY <1>3 DEF LocksToTruncate, store
  <2>3. ByHolder(x)
    <3>1. HoldsWrite(thread'[t], x) /\ thread'[t] # thread[t]
      BY <2>1, <2>2 DEF HoldsWrite
    <3> QED
      BY <1>1, <3>1, HolderSteps
  <2> QED
    BY <1>0, <1>1, <1>a, <2>1, <2>2, <2>3, ApartOwn
<1>4. CASE FreesBlock(t) \/ Truncates(t)
  <2>1. /\ \A u \in Threads \ {t} : thread'[u] = thread[u]
        /\ thread'[t].inum = x \/ thread'[t].stage # "delete"
        /\ thread'[t] # thread[t]
    <3>1. CASE FreesBlock(t)
      <4>1. thread' = [thread EXCEPT ![t].freed = thread[t].freed + 1]
        BY <3>1 DEF FreesBlock
      <4>2. thread'[t].inum = x /\ thread'[t].freed = thread[t].freed + 1
            /\ \A u \in Threads \ {t} : thread'[u] = thread[u]
        BY <1>0, <1>a, <4>1 DEF TypeInv, ThreadStates, ThreadType
      <4>3. thread[t].freed \in Nat
        BY <1>0 DEF ThreadStates, ThreadType
      <4> QED
        BY <4>2, <4>3
    <3>2. CASE Truncates(t)
      <4>1. thread'[t].stage \in {"append", "add"} /\ \A u \in Threads \ {t} : thread'[u] = thread[u]
        BY <1>0, <3>2 DEF Truncates, Emptied, TypeInv, ThreadStates, ThreadType
      <4>2. thread[t].stage = "delete"
        BY <3>2 DEF Truncates
      <4> QED
        BY <4>1, <4>2
    <3> QED
      BY <1>4, <3>1, <3>2
  <2>2. \A i \in Inumbers \ {x} : inode_table'[i] = inode_table[i]
    BY <1>0, <1>1, <1>4, <1>a DEF FreesBlock, Truncates, TypeInv
  <2>3. HoldsWrite(thread[t], x)
    BY <1>4, <1>a DEF FreesBlock, Truncates, HoldsWrite
  <2>4. ByHolder(x)
    BY <1>0, <1>1, <2>1, <2>3, HolderSteps
  <2> QED
    BY <1>0, <1>1, <1>a, <2>1, <2>2, <2>4, ApartOwn
<1> QED
  BY <1>2, <1>3, <1>4 DEF LocksToTruncate

\* The file that a thread writes to.
LEMMA WriterHas ==
    ASSUME AllInv, NEW t \in Threads, thread[t].stage \in Writing, NEW x, x = thread[t].inum
    PROVE  /\ TypeInv /\ LockInv /\ BlockInv
           /\ x \in FileInodes /\ x \in Inumbers /\ HoldsWrite(thread[t], x)
           /\ At({"delete"}, x) = {}
           /\ \A u \in Threads \ {t} : ~Deletes(thread[u], x)
<1>1. TypeInv /\ LockInv /\ FileInv /\ BlockInv
  BY DEF AllInv, Inv
<1>2. x \in FileInodes /\ x \in Inumbers /\ NoOther(t, x)
  BY <1>1, WriterUses
<1>3. HoldsWrite(thread[t], x)
  BY DEF HoldsWrite
<1>4. \A u \in Threads \ {t} : ~Deletes(thread[u], x)
  BY <1>2 DEF NoOther, HoldsWrite, Deletes
<1>5. ~Deletes(thread[t], x)
  BY DEF Deletes, Writing
<1>6. At({"delete"}, x) = {}
  BY <1>4, <1>5 DEF At, Deletes
<1> QED
  BY <1>1, <1>2, <1>3, <1>4, <1>6

\* A file that grows by a block keeps its bytes.
LEMMA GrownKept ==
    ASSUME TypeInv, TypeInv', BlockInv, NEW x \in FileInodes,
           At({"delete"}, x) = {}, At({"delete"}, x)' = {}, Grown(x)
    PROVE  ContentKept(x)
<1>1. x \in Inumbers /\ inode_table[x] \in InodeType /\ inode_table'[x] \in InodeType
  BY DEF FileInodes, TypeInv
<1>2. ASSUME NEW n \in 1 .. inode_table[x].blocksAlloc
      PROVE  BlockOf(x, n)' = BlockOf(x, n) /\ fs_data'[BlockOf(x, n)] = fs_data[BlockOf(x, n)]
  <2>1. n \in Keys /\ n # 0 /\ InUse(x, n)
    BY <1>1, KeysInUse
  <2>2. BlockOf(x, n) \in takenBlocks
    BY <2>1 DEF BlockInv
  <2>3. 0 \in Keys
    BY BlocksAssumption DEF Keys
  <2>4. ~(BlockOf(x, n) = BlockOf(x, 0) /\ InUse(x, 0))
    BY <2>1, <2>3 DEF BlockInv
  <2> QED
    BY <2>1, <2>2, <2>4 DEF Grown
<1>3. \A p \in Nat : p < inode_table[x].blocksAlloc * BLOCK_SIZE => ByteOf(x, p)' = ByteOf(x, p)
  BY <1>1, <1>2, BytesSame
<1>4. /\ inode_table[x].i_size <= inode_table'[x].i_size
      /\ inode_table[x].blocksAlloc <= inode_table'[x].blocksAlloc
      /\ inode_table'[x].i_size = inode_table[x].i_size
  BY <1>1, Sizes, BlocksAssumption DEF InodeType, Grown
<1> QED
  BY <1>1, <1>3, <1>4, BytesStay

\* A block is taken.
LEMMA ApartAllocs ==
    ASSUME AllInv, TypeInv', NEW t \in Threads, AllocsBlock(t)
    PROVE  Apart
<1>a. PICK x : x = thread[t].inum
  OBVIOUS
<1>b. PICK b : b = Lowest(Blocks \ takenBlocks)
  OBVIOUS
<1>c. PICK n : n = inode_table[x].blocksAlloc + 1
  OBVIOUS
<1>0. thread[t].stage = "alloc" /\ thread[t].stage \in Writing /\ takenBlocks # Blocks
  BY DEF AllocsBlock, Writing
<1>1. /\ TypeInv /\ LockInv /\ BlockInv /\ x \in FileInodes /\ x \in Inumbers
      /\ HoldsWrite(thread[t], x) /\ At({"delete"}, x) = {}
      /\ \A u \in Threads \ {t} : ~Deletes(thread[u], x)
  BY <1>0, <1>a, WriterHas
<1>2. b \in Blocks /\ b \notin takenBlocks
  BY <1>0, <1>1, <1>b, FreeBlock
<1>3. \A i \in Inumbers \ {x} : inode_table'[i] = inode_table[i]
  <2>1. inode_table \in [Inumbers -> InodeType]
    BY <1>1 DEF TypeInv
  <2> QED
    BY <1>1, <1>a, <2>1 DEF AllocsBlock
<1>4. CASE UNCHANGED thread
  <2>1. Grown(x)
    BY <1>4, <1>a, BlocksAllocated DEF AllInv
  <2>2. At({"delete"}, x)' = {}
    BY <1>1, <1>4 DEF At
  <2>3. ContentKept(x)
    BY <1>1, <2>1, <2>2, GrownKept
  <2>4. 0 \in Keys
    BY BlocksAssumption DEF Keys
  <2>5. \A c \in takenBlocks :
          fs_data'[c] = fs_data[c] \/ \E k \in Keys : InUse(x, k) /\ BlockOf(x, k) = c
    BY <2>1, <2>4 DEF Grown
  <2> QED
    BY <1>1, <1>3, <1>4, <1>a, <2>3, <2>5, ApartOwn
<1>5. CASE Stays(t, "indirect") /\ fs_data' = Zeroed(b)
  <2>1. thread'[t].stage = "indirect" /\ \A u \in Threads \ {t} : thread'[u] = thread[u]
    BY <1>1, <1>5, StepFields
  <2>2. thread'[t] # thread[t]
    BY <1>0, <2>1
  <2>3. ByHolder(x)
    BY <1>1, <2>2, HolderSteps
  <2>4. \A c \in takenBlocks : fs_data'[c] = fs_data[c]
    BY <1>1, <1>2, <1>5, CellsNext DEF TypeInv
  <2> QED
    BY <1>1, <1>3, <1>a, <2>1, <2>3, <2>4, ApartOwn
<1> QED
  BY <1>4, <1>5, <1>b DEF AllocsBlock

\* The block behind a new indirect block is taken, or the indirect block given
\* back.
LEMMA ApartIndirect ==
    ASSUME AllInv, TypeInv', NEW t \in Threads, AllocsIndirect(t) \/ ReleasesIndirect(t)
    PROVE  Apart
<1>a. PICK x : x = thread[t].inum
  OBVIOUS
<1>b. PICK b : b = Lowest(Blocks \ takenBlocks)
  OBVIOUS
<1>c. PICK ind : ind = inode_table[x].indirect_data_block
  OBVIOUS
<1>0. thread[t].stage \in Between /\ thread[t].stage \in Writing
  BY DEF AllocsIndirect, ReleasesIndirect, Writing, Between
<1>1. /\ TypeInv /\ LockInv /\ BlockInv /\ x \in FileInodes /\ x \in Inumbers
      /\ HoldsWrite(thread[t], x)
  BY <1>0, <1>a, WriterHas
<1>2. 0 \in Keys /\ InUse(x, 0) /\ BlockOf(x, 0) = ind
  <2>1. 0 \in Keys
    BY BlocksAssumption DEF Keys
  <2>2. InUse(x, 0)
    BY <1>0, <1>1, <1>a, <2>1, WriterUses DEF AllInv
  <2> QED
    BY <1>c, <2>1, <2>2 DEF BlockOf, BlockAt
<1>3. ind \in takenBlocks /\ ind \in Blocks
  BY <1>1, <1>2 DEF BlockInv, TypeInv
<1>4. \A i \in Inumbers \ {x} : inode_table'[i] = inode_table[i]
  <2>1. inode_table \in [Inumbers -> InodeType]
    BY <1>1 DEF TypeInv
  <2> QED
    BY <1>1, <1>a, <2>1 DEF AllocsIndirect, ReleasesIndirect
<1>5. PICK s \in {"alloc", "release", "store"} : Stays(t, s) /\ s # thread[t].stage
  BY DEF AllocsIndirect, ReleasesIndirect
<1>6. thread'[t].stage = s /\ \A u \in Threads \ {t} : thread'[u] = thread[u]
  BY <1>1, <1>5, StepFields
<1>7. ByHolder(x)
  <2>1. thread'[t] # thread[t]
    BY <1>5, <1>6
  <2> QED
    BY <1>1, <2>1, HolderSteps
<1>8. \A c \in takenBlocks : fs_data'[c] = fs_data[c] \/ c = ind
  <2>1. CASE fs_data' = fs_data
    BY <2>1
  <2>2. CASE Blocks \ takenBlocks # {} /\ fs_data' = [Zeroed(b) EXCEPT ![ind][1] = b]
    <3>1. b \in Blocks /\ b \notin takenBlocks
      BY <1>1, <1>b, <2>2, FreeBlock
    <3>2. ind \in Blocks \ {b} /\ 1 \in 1 .. BLOCK_SIZE
      BY <1>3, <3>1, BlocksAssumption
    <3>3. fs_data' = Numbered(b, ind, 1)
      BY <2>2 DEF Numbered
    <3>4. \A d \in Blocks \ {b, ind} : fs_data'[d] = fs_data[d]
      BY <1>1, <3>1, <3>2, <3>3, CellsNext
    <3> QED
      BY <1>1, <3>1, <3>4 DEF TypeInv
  <2> QED
    BY <1>a, <1>b, <1>c, <2>1, <2>2 DEF AllocsIndirect, ReleasesIndirect, disk
<1>9. \A c \in takenBlocks :
        fs_data'[c] = fs_data[c] \/ \E k \in Keys : InUse(x, k) /\ BlockOf(x, k) = c
  BY <1>2, <1>8
<1>10. thread'[t].stage # "delete"
  BY <1>6
<1> QED
  BY <1>1, <1>4, <1>6, <1>7, <1>9, <1>10, <1>a, ApartOwn

\* Bytes are written.
LEMMA ApartWrites ==
    ASSUME AllInv, TypeInv', NEW t \in Threads, Writes(t)
    PROVE  Apart
<1>a. PICK x : x = thread[t].inum
  OBVIOUS
<1>0. thread[t].stage \in Writing /\ thread[t].stage # "idle" /\ Ends(t)
  BY DEF Writes, Writing
<1>1. /\ TypeInv /\ LockInv /\ BlockInv /\ x \in FileInodes /\ x \in Inumbers
      /\ HoldsWrite(thread[t], x) /\ At({"delete"}, x) = {}
  BY <1>0, <1>a, WriterHas
<1>2. \A i \in Inumbers \ {x} : inode_table'[i] = inode_table[i]
  BY <1>1, <1>a DEF Writes, TypeInv
<1>3. thread'[t].stage = "idle" /\ \A u \in Threads \ {t} : thread'[u] = thread[u]
  BY <1>0, <1>1, StepFields DEF Idle
<1>4. ByHolder(x)
  BY <1>0, <1>1, <1>3, HolderSteps
<1>5. ASSUME NEW c \in takenBlocks, \A k \in Keys : InUse(x, k) => BlockOf(x, k) # c
      PROVE  fs_data'[c] = fs_data[c]
  <2>1. \A k \in 1 .. inode_table[x].blocksAlloc : BlockOf(x, k) # c
    BY <1>1, <1>5, KeysInUse
  <2>2. c \in Blocks
    BY <1>1 DEF TypeInv
  <2> QED
    BY <1>1, <1>a, <2>1, <2>2, WritesWhere
<1>6. \A c \in takenBlocks :
        fs_data'[c] = fs_data[c] \/ \E k \in Keys : InUse(x, k) /\ BlockOf(x, k) = c
  BY <1>5
<1> QED
  BY <1>1, <1>2, <1>3, <1>4, <1>6, <1>a, ApartOwn

\* Every step, and none.
LEMMA ApartNext ==
    ASSUME AllInv, AllInv', [Next]_vars
    PROVE  Apart
<1>0. TypeInv /\ TypeInv' /\ LockInv' /\ BlockInv /\ Inv
  BY DEF AllInv, Inv
<1>1. CASE Restart
  <2>1. FileInodes \cap takenInodes' = {}
    BY <1>1 DEF Restart, FileInodes
  <2> QED
    BY <2>1 DEF Apart
<1>2. ASSUME NEW t \in Threads,
             \/ Calls(t) \/ Positions(t) \/ TakesEntry(t) \/ FillsEntry(t) \/ CopyCloses(t)
             \/ CopyReads(t) \/ LocksToWrite(t) \/ LocksEntryToWrite(t) \/ ChecksAppend(t)
             \/ LocksToRead(t) \/ Reads(t)
      PROVE  Apart
  <2>1. /\ Calm(thread[t]) /\ Calm(thread'[t]) /\ \A u \in Threads \ {t} : thread'[u] = thread[u]
        /\ UNCHANGED <<inode_table, directory, disk>>
    BY <1>0, <1>2, CallsCalm, StepsCalm
  <2> QED
    BY <1>0, <2>1, ApartQuiet DEF Calm, disk
<1>3. ASSUME NEW t \in Threads, Step(t) PROVE Apart
  BY <1>0, <1>2, <1>3, ApartCreates, ApartTruncates, ApartAllocs, ApartIndirect, ApartWrites DEF Step
<1>4. CASE UNCHANGED vars
  <2>1. UNCHANGED <<inode_table, fs_data, thread, takenInodes>>
    BY <1>4 DEF vars, store, disk, directory
  <2>2. ASSUME NEW i \in FileInodes PROVE ContentKept(i)
    <3>1. Content(i)' = Content(i)
      BY <2>1 DEF Content, At, CellOf, getNthDataBlock
    <3> QED
      BY <3>1 DEF ContentKept, BytesKept
  <2> QED
    BY <2>2 DEF Apart
<1> QED
  BY <1>1, <1>2, <1>3, <1>4 DEF Next

\* The bytes of a file change only in a step of the thread that has its lock
\* for writing (operations.c:48-57, 137-193).
THEOREM FilesKeptApart == Spec => FilesApart
<1>1. AllInv /\ AllInv' /\ [Next]_vars =>
        [\A i \in FileInodes \cap takenInodes' :
           \/ DOMAIN Content(i)' = DOMAIN Content(i)
              /\ \A k \in DOMAIN Content(i) :
                   Content(i)[k] # NoByte => Content(i)'[k] = Content(i)[k]
           \/ \E t \in Threads : /\ t \in {rwlock[i].writer, rwlock'[i].writer}
                                 /\ thread'[t] # thread[t]]_vars
  BY ApartNext DEF Apart, ContentKept, BytesKept, ByHolder
<1> QED
  BY <1>1, AllInvariant, PTL DEF Spec, FilesApart

-----------------------------------------------------------------------------
(* Writes through handles that append *)

\* A thread that writes through a handle that appends stands at the file's end.
AtEnd(u) ==
    thread[u].stage \in Writing /\ open_file_table[thread[u].h].isAppending =>
      open_file_table[thread[u].h].of_offset = inode_table[thread[u].inum].i_size
AppendInv == \A u \in Threads : AtEnd(u)

\* A step leaves the other threads at the end of their files if it changes no
\* entry whose mutex another thread has, nor the size of another's file.
LEMMA AppendOthers ==
    ASSUME AllInv, AppendInv, NEW t \in Threads,
           \A u \in Threads \ {t} : thread'[u] = thread[u],
           \A h \in Handles : file_entry_mutex[h] \in Threads \ {t} =>
             open_file_table'[h] = open_file_table[h],
           \A i \in FileInodes : ~HoldsWrite(thread[t], i) =>
             inode_table'[i].i_size = inode_table[i].i_size,
           AtEnd(t)'
    PROVE  AppendInv'
<1>0. TypeInv /\ LockInv
  BY DEF AllInv, Inv
<1>1. ASSUME NEW u \in Threads \ {t} PROVE AtEnd(u)'
  <2>1. CASE thread[u].stage \notin Writing
    BY <2>1 DEF AtEnd, Writing
  <2>2. CASE thread[u].stage \in Writing
    <3>1. PICK h : h = thread[u].h
      OBVIOUS
    <3>2. PICK x : x = thread[u].inum
      OBVIOUS
    <3>3. h \in Handles /\ file_entry_mutex[h] = u
      BY <1>0, <2>2, <3>1 DEF TypeInv, ThreadStates, StageOK, WithHandle, LockInv, HoldsEntry
    <3>4. x \in FileInodes /\ x \in Inumbers /\ HoldsWrite(thread[u], x)
      BY <2>2, <3>2, WriterHas
    <3>5. ~HoldsWrite(thread[t], x)
      BY <1>0, <3>4, OneWriter
    <3>6. open_file_table'[h] = open_file_table[h] /\ inode_table'[x].i_size = inode_table[x].i_size
      BY <3>3, <3>4, <3>5
    <3>7. open_file_table[h].isAppending => open_file_table[h].of_offset = inode_table[x].i_size
      BY <2>2, <3>1, <3>2 DEF AppendInv, AtEnd
    <3>8. thread'[u].h = h /\ thread'[u].inum = x
      BY <3>1, <3>2
    <3> QED
      BY <3>6, <3>7, <3>8 DEF AtEnd
  <2> QED
    BY <2>1, <2>2
<1> QED
  BY <1>1 DEF AppendInv

\* A step that neither takes nor releases the mutex of an entry: a thread that
\* writes after it has done so before.
LEMMA AppendKept ==
    ASSUME AllInv, AllInv', AppendInv, NEW t \in Threads,
           \A u \in Threads \ {t} : thread'[u] = thread[u],
           UNCHANGED file_entry_mutex,
           \A h \in Handles : file_entry_mutex[h] \in Threads =>
             open_file_table'[h] = open_file_table[h],
           \A i \in FileInodes :
             (thread[t].stage \in Writing \/ ~HoldsWrite(thread[t], i)) =>
               inode_table'[i].i_size = inode_table[i].i_size,
           thread[t].stage \in Writing => thread'[t].inum = thread[t].inum
    PROVE  AppendInv'
<1>0. TypeInv /\ LockInv /\ TypeInv' /\ LockInv'
  BY DEF AllInv, Inv
<1>1. AtEnd(t)'
  <2>1. CASE thread'[t].stage \notin Writing
    BY <2>1 DEF AtEnd, Writing
  <2>2. CASE thread'[t].stage \in Writing
    <3>1. PICK h : h = thread'[t].h
      OBVIOUS
    <3>2. h \in Handles /\ file_entry_mutex'[h] = t
      BY <1>0, <2>2, <3>1 DEF TypeInv, ThreadStates, StageOK, WithHandle, LockInv, HoldsEntry, Writing
    <3>3. file_entry_mutex[h] = t
      BY <3>2
    <3>4. thread[t].h = h /\ thread[t].stage \in Writing
      BY <1>0, <3>2, <3>3 DEF LockInv, HoldsEntry
    <3>5. PICK x : x = thread[t].inum
      OBVIOUS
    <3>6. x \in FileInodes
      BY <3>4, <3>5, WriterHas
    <3>7. open_file_table'[h] = open_file_table[h] /\ inode_table'[x].i_size = inode_table[x].i_size
      BY <3>2, <3>3, <3>4, <3>6
    <3>8. open_file_table[h].isAppending => open_file_table[h].of_offset = inode_table[x].i_size
      BY <3>4, <3>5 DEF AppendInv, AtEnd
    <3>9. thread'[t].inum = x
      BY <3>4, <3>5
    <3> QED
      BY <3>1, <3>7, <3>8, <3>9 DEF AtEnd
  <2> QED
    BY <2>1, <2>2
<1>2. \A h \in Handles : file_entry_mutex[h] \in Threads \ {t} =>
        open_file_table'[h] = open_file_table[h]
  OBVIOUS
<1> QED
  BY <1>1, <1>2, AppendOthers

\* A thread takes the mutex of its entry: if the handle appends, its offset is
\* set to the end of the file.
LEMMA AppendLocks ==
    ASSUME AllInv, AllInv', AppendInv, NEW t \in Threads, LocksEntryToWrite(t),
           \A u \in Threads \ {t} : thread'[u] = thread[u]
    PROVE  AppendInv'
<1>a. PICK h : h = thread[t].h
  OBVIOUS
<1>b. PICK x : x = thread[t].inum
  OBVIOUS
<1>0. /\ TypeInv /\ LockInv /\ thread[t].stage = "entry" /\ thread[t].stage \notin Writing
      /\ CanLockEntry(h) /\ UNCHANGED inode_table
      /\ open_file_table' = [open_file_table EXCEPT ![h].of_offset = WriteStart(thread[t])]
  BY <1>a DEF AllInv, Inv, LocksEntryToWrite, Writing
<1>1. h \in Handles /\ x \in Inumbers
  BY <1>0, <1>a, <1>b DEF TypeInv, ThreadStates, ThreadType, StageOK, WithHandle
<1>2. /\ open_file_table'[h].of_offset = WriteStart(thread[t])
      /\ open_file_table'[h].isAppending = open_file_table[h].isAppending
      /\ \A g \in Handles \ {h} : open_file_table'[g] = open_file_table[g]
  BY <1>0, <1>1 DEF TypeInv, EntryType
<1>3. NoThread \notin Threads /\ file_entry_mutex[h] = NoThread
  BY <1>0, BlocksAssumption DEF CanLockEntry
<1>4. \A g \in Handles : file_entry_mutex[g] \in Threads => open_file_table'[g] = open_file_table[g]
  BY <1>2, <1>3
<1>5. CASE UNCHANGED file_entry_mutex
  BY <1>0, <1>4, <1>5, AppendKept
<1>6. CASE Stays(t, "alloc")
  <2>1. thread'[t].h = h /\ thread'[t].inum = x
    BY <1>0, <1>6, <1>a, <1>b, StepFields
  <2>2. open_file_table[h].isAppending => WriteStart(thread[t]) = inode_table[x].i_size
    BY <1>a, <1>b DEF WriteStart
  <2>3. AtEnd(t)'
    BY <1>0, <1>2, <2>1, <2>2 DEF AtEnd
  <2> QED
    BY <1>0, <1>4, <2>3, AppendOthers
<1> QED
  BY <1>5, <1>6 DEF LocksEntryToWrite

\* A thread has written: it is done with its entry and its file.
LEMMA AppendWrites ==
    ASSUME AllInv, AppendInv, NEW t \in Threads, Writes(t),
           \A u \in Threads \ {t} : thread'[u] = thread[u]
    PROVE  AppendInv'
<1>a. PICK h : h = thread[t].h
  OBVIOUS
<1>b. PICK x : x = thread[t].inum
  OBVIOUS
<1>0. thread[t].stage \in Writing /\ Ends(t)
  BY DEF Writes, Writing
<1>1. TypeInv /\ LockInv /\ x \in Inumbers /\ HoldsWrite(thread[t], x)
  BY <1>0, <1>b, WriterHas
<1>2. file_entry_mutex[h] = t
  BY <1>0, <1>1, <1>a DEF TypeInv, ThreadStates, StageOK, WithHandle, LockInv, HoldsEntry
<1>3. \A g \in Handles \ {h} : open_file_table'[g] = open_file_table[g]
  BY <1>1, <1>a DEF Writes, TypeInv
<1>4. \A i \in Inumbers \ {x} : inode_table'[i] = inode_table[i]
  BY <1>1, <1>b DEF Writes, TypeInv
<1>5. \A i \in FileInodes : ~HoldsWrite(thread[t], i) =>
        inode_table'[i].i_size = inode_table[i].i_size
  BY <1>1, <1>4 DEF FileInodes, TypeInv
<1>6. AtEnd(t)'
  <2>1. thread'[t].stage = "idle"
    BY <1>0, <1>1, StepFields DEF Idle
  <2> QED
    BY <2>1 DEF AtEnd, Writing
<1> QED
  BY <1>2, <1>3, <1>5, <1>6, AppendOthers

\* No file's size changes.
SizesKept == \A i \in FileInodes : inode_table'[i].i_size = inode_table[i].i_size

\* Every other step of a call.
LEMMA AppendSteps ==
    ASSUME AllInv, AllInv', AppendInv, NEW t \in Threads, Step(t),
           \A u \in Threads \ {t} : thread'[u] = thread[u]
    PROVE  AppendInv'
<1>0. TypeInv /\ LockInv /\ NoThread \notin Threads
  BY BlocksAssumption DEF AllInv, Inv
<1>1. CASE \/ Positions(t) \/ TakesEntry(t) \/ CopyCloses(t) \/ CopyReads(t)
           \/ LocksToWrite(t) \/ ChecksAppend(t) \/ LocksToRead(t) \/ LocksToTruncate(t)
           \/ FreesBlock(t)
  <2>1. UNCHANGED <<inode_table, open_file_table, file_entry_mutex>>
    BY <1>1 DEF Positions, TakesEntry, CopyCloses, Close, CopyReads, Finds, LocksToWrite,
       ChecksAppend, LocksToRead, LocksToTruncate, FreesBlock, store, table, locks
  <2>2. thread[t].stage \notin Writing
    BY <1>1 DEF Positions, TakesEntry, CopyCloses, CopyReads, LocksToWrite,
       ChecksAppend, LocksToRead, LocksToTruncate, FreesBlock, Writing
  <2> QED
    BY <2>1, <2>2, AppendKept
<1>2. CASE FillsEntry(t) \/ Reads(t)
  <2>1. /\ UNCHANGED <<inode_table, file_entry_mutex>> /\ thread[t].stage \notin Writing
        /\ file_entry_mutex[thread[t].h] = NoThread
    BY <1>2 DEF FillsEntry, Reads, locks, Writing, CanLockEntry
  <2>2. \A g \in Handles \ {thread[t].h} : open_file_table'[g] = open_file_table[g]
    BY <1>0, <1>2 DEF FillsEntry, Reads, TypeInv
  <2>3. \A g \in Handles : file_entry_mutex[g] \in Threads => open_file_table'[g] = open_file_table[g]
    BY <1>0, <2>1, <2>2
  <2> QED
    BY <2>1, <2>3, AppendKept
<1>3. CASE Creates(t)
  <2>1. /\ UNCHANGED <<open_file_table, file_entry_mutex>> /\ thread[t].stage \notin Writing
    BY <1>3 DEF Creates, table, locks, Writing
  <2>2. \A i \in FileInodes : inode_table'[i].i_size = inode_table[i].i_size
    <3> DEFINE free == Inumbers \ takenInodes
    <3>1. UNCHANGED inode_table \/
            (free # {} /\ inode_table' = [inode_table EXCEPT ![Lowest(free)] = NewInode])
      BY <1>3 DEF Creates
    <3>2. ASSUME free # {} PROVE Lowest(free) \in free
      <4>1. free \in SUBSET Inumbers
        OBVIOUS
      <4> HIDE DEF free
      <4> QED
        BY <3>2, <4>1, FreeOnes
    <3> QED
      BY <1>0, <3>1, <3>2 DEF FileInodes, TypeInv
  <2> QED
    BY <2>1, <2>2, AppendKept
<1>4. CASE Truncates(t)
  <2>1. /\ UNCHANGED <<open_file_table, file_entry_mutex>> /\ thread[t].stage \notin Writing
        /\ thread[t].stage = "delete"
    BY <1>4 DEF Truncates, table, Writing
  <2>2. \A i \in FileInodes : ~HoldsWrite(thread[t], i) =>
          inode_table'[i].i_size = inode_table[i].i_size
    <3>1. \A i \in Inumbers : i # thread[t].inum => inode_table'[i] = inode_table[i]
      BY <1>0, <1>4 DEF Truncates, TypeInv
    <3>2. HoldsWrite(thread[t], thread[t].inum)
      BY <2>1 DEF HoldsWrite
    <3> QED
      BY <1>0, <3>1, <3>2 DEF FileInodes, TypeInv
  <2> QED
    BY <2>1, <2>2, AppendKept
<1>5. CASE AllocsBlock(t) \/ AllocsIndirect(t) \/ ReleasesIndirect(t)
  <2>1. UNCHANGED <<open_file_table, file_entry_mutex>>
    BY <1>5 DEF AllocsBlock, AllocsIndirect, ReleasesIndirect, table, locks
  <2>2. \A i \in FileInodes : inode_table'[i].i_size = inode_table[i].i_size
    <3>1. inode_table \in [Inumbers -> InodeType] /\ thread[t].inum \in Inumbers
          /\ FileInodes \subseteq Inumbers
      BY <1>0 DEF TypeInv, ThreadStates, ThreadType, FileInodes
    <3>2. PICK x \in Inumbers : x = thread[t].inum
      BY <3>1
    <3>3. UNCHANGED inode_table => SizesKept
      BY DEF SizesKept
    <3>4. \A b, n : inode_table' = [inode_table EXCEPT ![x].i_data_block = Append(@, b),
                                                     ![x].blocksAlloc = n] => SizesKept
      BY <3>1 DEF InodeType, SizesKept
    <3>5. \A b : inode_table' = [inode_table EXCEPT ![x].indirect_data_block = b] => SizesKept
      BY <3>1 DEF InodeType, SizesKept
    <3>6. \A n : inode_table' = [inode_table EXCEPT ![x].blocksAlloc = n] => SizesKept
      BY <3>1 DEF InodeType, SizesKept
    <3>7. AllocsIndirect(t) => SizesKept
      <4>1. AllocsIndirect(t) => UNCHANGED inode_table \/
              inode_table' = [inode_table EXCEPT ![x].blocksAlloc = inode_table[x].blocksAlloc + 1]
        BY <3>2 DEF AllocsIndirect
      <4> QED
        BY <3>3, <3>6, <4>1
    <3>8. ReleasesIndirect(t) => SizesKept
      <4>1. ReleasesIndirect(t) =>
              inode_table' = [inode_table EXCEPT ![x].indirect_data_block = 0]
        BY <3>2 DEF ReleasesIndirect
      <4> QED
        BY <3>5, <4>1
    <3>9. AllocsBlock(t) => SizesKept
      <4>1. PICK b : b = Lowest(Blocks \ takenBlocks)
        OBVIOUS
      <4>2. PICK n : n = inode_table[x].blocksAlloc + 1
        OBVIOUS
      <4>3. AllocsBlock(t) =>
              \/ inode_table' = [inode_table EXCEPT ![x].i_data_block = Append(@, b),
                                                    ![x].blocksAlloc = n]
              \/ inode_table' = [inode_table EXCEPT ![x].indirect_data_block = b]
              \/ inode_table' = [inode_table EXCEPT ![x].blocksAlloc = n]
        BY <3>2, <4>1, <4>2 DEF AllocsBlock
      <4> QED
        BY <3>4, <3>5, <3>6, <4>3
    <3> QED
      BY <1>5, <3>7, <3>8, <3>9 DEF SizesKept
  <2>3. thread'[t].inum = thread[t].inum
    <3>1. CASE UNCHANGED thread
      BY <3>1
    <3>2. CASE \E s : Stays(t, s)
      BY <1>0, <3>2, StepFields
    <3> QED
      BY <1>5, <3>1, <3>2 DEF AllocsBlock, AllocsIndirect, ReleasesIndirect
  <2> QED
    BY <2>1, <2>2, <2>3, AppendKept
<1> QED
  BY <1>1, <1>2, <1>3, <1>4, <1>5, AppendLocks, AppendWrites DEF Step

\* Where a byte lies tells which byte it is.
LEMMA SamePlace ==
    ASSUME NEW s \in Nat \ {0}, NEW p \in Nat, NEW q \in Nat,
           p \div s = q \div s, p % s = q % s
    PROVE  p = q
<1>1. /\ p = s * (p \div s) + (p % s)
      /\ q = s * (q \div s) + (q % s)
  OBVIOUS
<1> QED
  BY <1>1

\* A write through a handle that appends puts no byte where the file has one.
LEMMA AppendedBytes ==
    ASSUME AllInv, NEW t \in Threads, Writes(t), NEW x, x = thread[t].inum,
           open_file_table[thread[t].h].of_offset = inode_table[x].i_size,
           NEW p \in Nat, p < inode_table[x].i_size, p < inode_table[x].blocksAlloc * BLOCK_SIZE
    PROVE  ByteOf(x, p)' = ByteOf(x, p)
<1> DEFINE node == inode_table[x]
           off == open_file_table[thread[t].h].of_offset
           m == WriteLength(t)
           n == divCeilRW(p, BLOCK_SIZE)
           c == (p % BLOCK_SIZE) + 1
           Wrote(b, e) == {q \in off .. off + m - 1 :
                             CellOf(inode_table[thread[t].inum], q) = <<b, e>>}
<1>0. thread[t].stage \in Writing /\ thread[t].stage \notin Between
  BY DEF Writes, Writing, Between
<1>1. /\ TypeInv /\ LockInv /\ BlockInv /\ x \in FileInodes /\ x \in Inumbers
      /\ At({"delete"}, x) = {} /\ thread[t].h \in Handles
  <2>1. TypeInv /\ LockInv /\ BlockInv /\ x \in FileInodes /\ x \in Inumbers /\ At({"delete"}, x) = {}
    BY <1>0, WriterHas
  <2> QED
    BY <1>0, <2>1 DEF TypeInv, ThreadStates, StageOK, WithHandle
<1>2. /\ BLOCK_SIZE \in Nat \ {0} /\ node.blocksAlloc \in Nat /\ node \in InodeType
      /\ off \in Nat /\ m \in Nat
  <2>1. BLOCK_SIZE \in Nat \ {0} /\ node.blocksAlloc \in Nat /\ node \in InodeType
    BY <1>1, BlocksAssumption DEF TypeInv, InodeType
  <2>2. m \in Nat /\ off \in 0 .. MAX_FILE_SIZE
    BY <1>1, WriteLengthBound
  <2> QED
    BY <2>1, <2>2, Sizes
<1>3. n \in 1 .. node.blocksAlloc /\ c \in 1 .. BLOCK_SIZE
  <2>1. p \div BLOCK_SIZE \in 0 .. node.blocksAlloc - 1 /\ p % BLOCK_SIZE \in 0 .. BLOCK_SIZE - 1
    BY <1>2, BlockOfByte
  <2> DEFINE q == p \div BLOCK_SIZE
             r == p % BLOCK_SIZE
  <2>2. q \in 0 .. node.blocksAlloc - 1 /\ r \in 0 .. BLOCK_SIZE - 1
    BY <2>1
  <2>3. node.blocksAlloc \in Nat /\ BLOCK_SIZE \in Nat
    BY <1>2
  <2> HIDE DEF q, r, node
  <2>4. q + 1 \in 1 .. node.blocksAlloc /\ r + 1 \in 1 .. BLOCK_SIZE
    BY <2>2, <2>3
  <2> QED
    BY <2>4 DEF q, r, divCeilRW
<1>4. n \in Keys /\ n # 0 /\ InUse(x, n)
  BY <1>1, <1>3, KeysInUse
<1>5. PICK b : b = BlockOf(x, n)
  OBVIOUS
<1>6. b \in Blocks
  BY <1>1, <1>4, <1>5 DEF BlockInv, TypeInv
<1>7. Wrote(b, c) = {}
  <2> SUFFICES ASSUME NEW q \in off .. off + m - 1, CellOf(node, q) = <<b, c>> PROVE FALSE
    OBVIOUS
  <2>1. q \in Nat /\ q < off + m /\ off <= q /\ p < off
    <3>1. off \in Nat /\ m \in Nat /\ p < off
      BY <1>2
    <3> HIDE DEF off, m
    <3> QED
      BY <3>1
  <2> DEFINE l == divCeilRW(q, BLOCK_SIZE)
  <2>2. l \in 1 .. node.blocksAlloc
    BY <1>1, <2>1, WrittenBlock
  <2>3. l \in Keys /\ l # 0 /\ InUse(x, l)
    BY <1>1, <2>2, KeysInUse
  <2>4. CellOf(node, q) = <<BlockOf(x, l), (q % BLOCK_SIZE) + 1>>
    BY <2>3 DEF CellOf, getNthDataBlock, BlockOf, BlockAt
  <2>5. BlockOf(x, l) = b /\ (q % BLOCK_SIZE) + 1 = c
    BY <2>4
  <2>6. l = n
    BY <1>1, <1>4, <1>5, <2>3, <2>5 DEF BlockInv
  <2>7. q \div BLOCK_SIZE = p \div BLOCK_SIZE /\ q % BLOCK_SIZE = p % BLOCK_SIZE
    <3>1. /\ q \div BLOCK_SIZE \in Nat /\ p \div BLOCK_SIZE \in Nat
          /\ q % BLOCK_SIZE \in Nat /\ p % BLOCK_SIZE \in Nat
      BY <1>2, <2>1
    <3>2. (q \div BLOCK_SIZE) + 1 = (p \div BLOCK_SIZE) + 1
          /\ (q % BLOCK_SIZE) + 1 = (p % BLOCK_SIZE) + 1
      BY <2>5, <2>6 DEF divCeilRW
    <3>3. \A e, f \in Nat : e + 1 = f + 1 => e = f
      OBVIOUS
    <3> QED
      BY <3>1, <3>2, <3>3
  <2>8. q = p
    BY <1>2, <2>1, <2>7, SamePlace
  <2> QED
    BY <1>2, <2>1, <2>8
<1>8. fs_data'[b][c] = fs_data[b][c]
  <2>1. fs_data'[b] = [e \in 1 .. BLOCK_SIZE |->
                         IF Wrote(b, e) = {} THEN fs_data[b][e]
                         ELSE thread[t].buf[(CHOOSE q \in Wrote(b, e) : TRUE) - off + 1]]
    BY <1>6 DEF Writes, WriteLength
  <2> HIDE DEF Wrote, off, c
  <2> QED
    BY <1>3, <1>7, <2>1
<1>9. BlockOf(x, n)' = b
  <2>1. /\ inode_table'[x].i_data_block = node.i_data_block
        /\ inode_table'[x].indirect_data_block = node.indirect_data_block
    <3>1. inode_table \in [Inumbers -> InodeType]
      BY <1>1 DEF TypeInv
    <3> QED
      BY <1>1, <3>1 DEF Writes, InodeType
  <2>2. CASE n <= DIRECT_BLOCK_COUNT
    BY <1>4, <1>5, <2>1, <2>2 DEF BlockOf, BlockAt
  <2>3. CASE ~(n <= DIRECT_BLOCK_COUNT)
    <3>1. n > DIRECT_BLOCK_COUNT
      <4>1. n \in Nat /\ DIRECT_BLOCK_COUNT \in Nat
        BY <1>4, BlocksAssumption DEF Keys
      <4> HIDE DEF n
      <4> QED
        BY <2>3, <4>1
    <3>2. PICK ind : ind = node.indirect_data_block
      OBVIOUS
    <3>3. InUse(x, 0) /\ BlockOf(x, 0) = ind /\ 0 \in Keys
      BY <1>1, <1>4, <3>1, <3>2, IndirectInUse
    <3>4. ind \in Blocks
      BY <1>1, <3>3 DEF BlockInv, TypeInv
    <3>5. \A k \in 1 .. node.blocksAlloc : BlockOf(x, k) # ind
      <4> SUFFICES ASSUME NEW k \in 1 .. node.blocksAlloc PROVE BlockOf(x, k) # ind
        OBVIOUS
      <4>1. k \in Keys /\ k # 0 /\ InUse(x, k)
        BY <1>1, KeysInUse
      <4> QED
        BY <1>1, <3>3, <4>1 DEF BlockInv
    <3>6. fs_data'[ind] = fs_data[ind]
      BY <1>1, <3>4, <3>5, WritesWhere
    <3>7. BlockOf(x, n) = fs_data[ind][n - DIRECT_BLOCK_COUNT]
          /\ BlockOf(x, n)' = fs_data'[ind][n - DIRECT_BLOCK_COUNT]
      BY <1>4, <2>1, <2>3, <3>2 DEF BlockOf, BlockAt
    <3> QED
      BY <1>5, <3>6, <3>7
  <2> QED
    BY <2>2, <2>3
<1> QED
  BY <1>5, <1>8, <1>9 DEF ByteOf

\* So the file keeps its bytes.
LEMMA AppendExtends ==
    ASSUME AllInv, TypeInv', AppendInv, NEW t \in Threads, Writes(t), NEW x, x = thread[t].inum,
           open_file_table[thread[t].h].isAppending
    PROVE  BytesKept(x)
<1>0. thread[t].stage \in Writing /\ Ends(t)
  BY DEF Writes, Writing
<1>1. /\ TypeInv /\ x \in FileInodes /\ x \in Inumbers /\ At({"delete"}, x) = {}
      /\ \A u \in Threads \ {t} : ~Deletes(thread[u], x)
  BY <1>0, WriterHas
<1>2. open_file_table[thread[t].h].of_offset = inode_table[x].i_size
  BY <1>0 DEF AppendInv, AtEnd
<1>3. At({"delete"}, x)' = {}
  <2>1. thread'[t].stage = "idle" /\ \A u \in Threads \ {t} : thread'[u] = thread[u]
    BY <1>0, <1>1, StepFields DEF Idle
  <2> QED
    BY <1>1, <2>1 DEF At, Deletes
<1>4. inode_table[x] \in InodeType /\ inode_table'[x] \in InodeType
  BY <1>1 DEF TypeInv
<1>5. /\ inode_table'[x].i_size = Greatest(inode_table[x].i_size,
           open_file_table[thread[t].h].of_offset + WriteLength(t))
      /\ inode_table'[x].blocksAlloc = inode_table[x].blocksAlloc
  <2>1. inode_table' = [inode_table EXCEPT ![x].i_size =
          Greatest(@, open_file_table[thread[t].h].of_offset + WriteLength(t))]
    BY DEF Writes, WriteLength
  <2>2. inode_table \in [Inumbers -> InodeType]
    BY <1>1 DEF TypeInv
  <2> QED
    BY <1>1, <2>1, <2>2 DEF InodeType
<1>6. inode_table[x].i_size <= inode_table'[x].i_size
  <2>1. inode_table[x].i_size \in Nat /\ inode_table'[x].i_size \in Nat
    BY <1>4, Sizes DEF InodeType
  <2> QED
    BY <1>5, <2>1 DEF Greatest
<1>7. inode_table[x].blocksAlloc <= inode_table'[x].blocksAlloc
  BY <1>4, <1>5, BlocksAssumption DEF InodeType
<1>8. \A p \in Nat : p < inode_table[x].i_size /\ p < inode_table[x].blocksAlloc * BLOCK_SIZE
                       => ByteOf(x, p)' = ByteOf(x, p)
  BY <1>2, AppendedBytes
<1> QED
  BY <1>3, <1>1, <1>4, <1>6, <1>7, <1>8, BytesStay

\* Only the last step of a write ends it.
LEMMA OverwritesWrites ==
    ASSUME AllInv, HandleInv, NEW u \in Threads, Calls(u) \/ Step(u), NEW t \in Threads, Overwrites(t)
    PROVE  u = t /\ Writes(t)
<1>0. TypeInv /\ Inv /\ thread[t].stage \in Writing /\ thread'[t] = Idle
  BY DEF AllInv, Inv, Overwrites
<1>1. thread[t].stage # "idle" /\ thread'[t].stage = "idle" /\ thread'[t] # thread[t]
  BY <1>0 DEF Writing, Idle
<1>2. u = t
  <2>1. Tidy(u)
    BY <1>0, StepsTidy
  <2> QED
    BY <1>1, <2>1 DEF Tidy
<1>3. ~Calls(t)
  <2>1. Calls(t) => thread[t] = Idle
    BY DEF Calls, CallOpen, CallClose, CallWrite, CallRead
  <2> QED
    BY <1>1, <2>1 DEF Idle
<1>4. ~(AllocsBlock(t) \/ AllocsIndirect(t) \/ ReleasesIndirect(t))
  <2>1. \A s \in {"alloc", "indirect", "release", "store"} : Stays(t, s) => thread'[t].stage = s
    BY <1>0, StepFields
  <2>2. AllocsBlock(t) \/ AllocsIndirect(t) \/ ReleasesIndirect(t) =>
          UNCHANGED thread \/ \E s \in {"alloc", "indirect", "release", "store"} : Stays(t, s)
    BY DEF AllocsBlock, AllocsIndirect, ReleasesIndirect
  <2> QED
    BY <1>1, <2>1, <2>2
<1>5. Writes(t)
  BY <1>0, <1>2, <1>3, <1>4 DEF Step, Creates, LocksToTruncate, FreesBlock, Truncates, Positions,
     TakesEntry, FillsEntry, CopyCloses, CopyReads, LocksToWrite, LocksEntryToWrite, ChecksAppend,
     LocksToRead, Reads, Writing
<1> QED
  BY <1>2, <1>5

\* Every step, and none.
LEMMA AppendNext ==
    ASSUME AllInv, AllInv', HandleInv, AppendInv, [Next]_vars
    PROVE  /\ AppendInv'
           /\ \A t \in Threads : Overwrites(t) => ~open_file_table[thread[t].h].isAppending
<1>0. Inv /\ TypeInv'
  BY DEF AllInv, Inv
<1>1. CASE Restart
  <2>1. \A t \in Threads : thread[t].stage = "idle" /\ thread'[t].stage = "idle"
    BY <1>1 DEF Restart
  <2> QED
    BY <2>1 DEF AppendInv, AtEnd, Overwrites, Writing
<1>2. ASSUME NEW u \in Threads, Calls(u) \/ Step(u) PROVE AppendInv'
  <2>1. \A w \in Threads \ {u} : thread'[w] = thread[w]
    BY <1>0, <1>2, StepsTidy DEF Tidy
  <2>2. CASE Step(u)
    BY <2>1, <2>2, AppendSteps
  <2>3. CASE Calls(u)
    <3>1. thread[u] = Idle
      BY <2>3 DEF Calls, CallOpen, CallClose, CallWrite, CallRead
    <3>2. UNCHANGED <<inode_table, open_file_table, file_entry_mutex>>
      BY <2>3 DEF Calls, CallOpen, CallClose, Close, CallWrite, CallRead, Finds, store, table, locks
    <3>3. thread[u].stage \notin Writing
      BY <3>1 DEF Idle, Writing
    <3> QED
      BY <2>1, <3>2, <3>3, AppendKept
  <2> QED
    BY <1>2, <2>2, <2>3
<1>3. ASSUME NEW u \in Threads, Calls(u) \/ Step(u), NEW t \in Threads, Overwrites(t),
             open_file_table[thread[t].h].isAppending
      PROVE  FALSE
  <2>1. Writes(t)
    BY <1>3, OverwritesWrites
  <2>2. PICK x : x = thread[t].inum
    OBVIOUS
  <2>3. BytesKept(x)
    BY <1>0, <1>3, <2>1, <2>2, AppendExtends
  <2>4. PICK i \in {thread[t].inum} :
          \E k \in DOMAIN Content(i) : Content(i)[k] # NoByte /\ Content(i)'[k] # Content(i)[k]
    BY <1>3 DEF Overwrites
  <2>5. i = x
    BY <2>2, <2>4
  <2>6. BytesKept(i)
    BY <2>3, <2>5 DEF BytesKept
  <2> QED
    BY <2>4, <2>6 DEF BytesKept
<1>4. CASE UNCHANGED vars
  <2>1. UNCHANGED <<inode_table, open_file_table, thread>>
    BY <1>4 DEF vars, store, table
  <2>2. \A t \in Threads : AtEnd(t)'
    BY <2>1 DEF AppendInv, AtEnd, Writing
  <2>3. \A t \in Threads : ~Overwrites(t)
    BY <2>1 DEF Overwrites, Writing, Idle
  <2> QED
    BY <2>2, <2>3 DEF AppendInv
<1> QED
  BY <1>1, <1>2, <1>3, <1>4 DEF Next

\* A write through a handle that appends changes no byte that the file has,
\* whoever else has written since the handle was last used
\* (operations.c:139-141).
THEOREM AppendsKeepBytes == Spec => AppendsExtend
<1>1. Init => HandleInv /\ AppendInv
  BY DEF Init, Idle, HandleInv, Unopened, AppendInv, AtEnd, Writing
<1>2. AllInv /\ HandleInv /\ [Next]_vars => HandleInv'
  BY HandlesNext DEF AllInv
<1>3. AllInv /\ AllInv' /\ HandleInv /\ AppendInv /\ [Next]_vars => AppendInv'
  BY AppendNext
<1>4. AllInv /\ AllInv' /\ HandleInv /\ AppendInv /\ [Next]_vars =>
        [\A t \in Threads : Overwrites(t) => ~open_file_table[thread[t].h].isAppending]_vars
  BY AppendNext
<1> QED
  BY <1>1, <1>2, <1>3, <1>4, AllInvariant, PTL DEF Spec, AppendsExtend

=============================================================================
