---------------------- MODULE BlockFilesBlocks_proofs ----------------------
(***************************************************************************)
(* Proofs about the blocks of BlockFiles: that every taken block belongs   *)
(* to one place of one file, whatever steps of writes and truncations      *)
(* interleave.                                                             *)
(***************************************************************************)
EXTENDS BlockFiles_proofs

(* Which i-nodes threads and handles refer to *)

\* At these stages a thread has found its file.
FileStages == {"truncate", "delete", "append", "add", "fill", "check", "lock", "entry"}
                \cup Writing

\* A copy that has filled its entry and has not closed it.
Copies(me) == me.op = "copy" /\ me.stage \in {"find", "check", "lock", "entry"}

\* None of them refers to the i-node of the root directory, which is not a file.
FileInv ==
    /\ \A u \in Threads : thread[u].stage \in FileStages => thread[u].inum \in FileInodes
    /\ \A u \in Threads : Copies(thread[u]) =>
         open_file_table[thread[u].h].of_inumber # ROOT_DIR_INUM
    /\ \A h \in DOMAIN issued : open_file_table[h].of_inumber # ROOT_DIR_INUM

\* A step of one thread, which goes on with a file if with any.
LEMMA FilesNext ==
    ASSUME TypeInv, FileInv, NEW t \in Threads,
           \A u \in Threads \ {t} : thread'[u] = thread[u],
           thread'[t].stage \in FileStages => thread'[t].inum \in FileInodes',
           Copies(thread'[t]) => thread'[t].h \in Handles
             /\ open_file_table'[thread'[t].h].of_inumber # ROOT_DIR_INUM,
           \A h \in DOMAIN issued' : open_file_table'[h].of_inumber # ROOT_DIR_INUM,
           \A h \in Handles : open_file_table[h].of_inumber # ROOT_DIR_INUM
                                => open_file_table'[h].of_inumber # ROOT_DIR_INUM,
           FileInodes \subseteq FileInodes'
    PROVE  FileInv'
<1>1. ASSUME NEW u \in Threads, thread'[u].stage \in FileStages
      PROVE  thread'[u].inum \in FileInodes'
  <2>1. CASE u = t
    BY <1>1, <2>1
  <2>2. CASE u # t
    BY <1>1, <2>2 DEF FileInv
  <2> QED
    BY <2>1, <2>2
<1>2. ASSUME NEW u \in Threads, Copies(thread'[u])
      PROVE  open_file_table'[thread'[u].h].of_inumber # ROOT_DIR_INUM
  <2>1. CASE u = t
    BY <1>2, <2>1
  <2>2. CASE u # t
    <3>1. thread'[u] = thread[u] /\ Copies(thread[u])
      BY <1>2, <2>2
    <3>2. thread[u].h \in Handles
      BY <3>1 DEF Copies, TypeInv, ThreadStates, StageOK, WithHandle
    <3> QED
      BY <3>1, <3>2 DEF FileInv
  <2> QED
    BY <2>1, <2>2
<1> QED
  BY <1>1, <1>2 DEF FileInv, Copies

\* The same when no handle changes hands.
LEMMA FilesKept ==
    ASSUME TypeInv, FileInv, NEW t \in Threads,
           \A u \in Threads \ {t} : thread'[u] = thread[u],
           thread'[t].stage \in FileStages => thread'[t].inum \in FileInodes',
           Copies(thread'[t]) => Copies(thread[t]) /\ thread'[t].h = thread[t].h,
           \A h \in Handles : open_file_table'[h].of_inumber = open_file_table[h].of_inumber,
           DOMAIN issued' \subseteq DOMAIN issued,
           FileInodes \subseteq FileInodes'
    PROVE  FileInv'
<1>1. Copies(thread'[t]) => thread'[t].h \in Handles
        /\ open_file_table'[thread'[t].h].of_inumber # ROOT_DIR_INUM
  <2> SUFFICES ASSUME Copies(thread'[t])
               PROVE  thread'[t].h \in Handles
                        /\ open_file_table'[thread'[t].h].of_inumber # ROOT_DIR_INUM
    OBVIOUS
  <2>1. Copies(thread[t]) /\ thread'[t].h = thread[t].h
    OBVIOUS
  <2>2. thread[t].h \in Handles
    BY <2>1 DEF Copies, TypeInv, ThreadStates, StageOK, WithHandle
  <2> QED
    BY <2>1, <2>2 DEF FileInv
<1>2. \A h \in DOMAIN issued' : open_file_table'[h].of_inumber # ROOT_DIR_INUM
  BY DEF FileInv, TypeInv
<1> QED
  BY <1>1, <1>2, FilesNext

\* The same when the thread keeps its file, or leaves it.
LEMMA FilesPass ==
    ASSUME TypeInv, FileInv, NEW t \in Threads,
           \A u \in Threads \ {t} : thread'[u] = thread[u],
           thread'[t].stage \in FileStages =>
             thread[t].stage \in FileStages /\ thread'[t].inum = thread[t].inum,
           Copies(thread'[t]) => Copies(thread[t]) /\ thread'[t].h = thread[t].h,
           \A h \in Handles : open_file_table'[h].of_inumber = open_file_table[h].of_inumber,
           UNCHANGED <<issued, directory>>
    PROVE  FileInv'
<1>1. FileInodes' = FileInodes
  BY DEF FileInodes, directory
<1> QED
  BY <1>1, FilesKept DEF FileInv

\* Every entry of the directory names a file.
LEMMA LookupsFile ==
    ASSUME TypeInv, NamesInv, NEW n, find_in_dir(n) >= 0
    PROVE  find_in_dir(n) \in FileInodes
<1>1. PICK e \in DOMAIN dir_entry : dir_entry[e].d_inumber = find_in_dir(n)
  BY Lookups
<1> QED
  BY <1>1 DEF NamesInv, NamesUnique

\* What a thread goes on with when its file is found.
LEMMA FoundFields ==
    ASSUME NEW me \in ThreadStates, NEW i \in Inumbers
    PROVE  /\ Found(me, i).inum = i /\ Found(me, i).stage \in {"truncate", "append", "add"}
           /\ Found(me, i).freed = me.freed
<1> DEFINE found == [me EXCEPT !.inum = i]
<1>1. found \in ThreadType /\ found.inum = i /\ found.flags = me.flags /\ found.freed = me.freed
  BY DEF ThreadStates, ThreadType
<1>2. Found(me, i) = IF "TFS_O_TRUNC" \in me.flags THEN [found EXCEPT !.stage = "truncate"]
                     ELSE [found EXCEPT !.stage = IF "TFS_O_APPEND" \in found.flags THEN "append"
                                                  ELSE "add"]
  BY DEF Found, Emptied
<1> HIDE DEF found
<1> QED
  BY <1>1, <1>2 DEF ThreadType

\* A call of tfs_open.
LEMMA FilesOpened ==
    ASSUME Inv, FileInv, NEW t \in Threads, NEW n \in Names,
           NEW flags \in SUBSET {"TFS_O_CREAT", "TFS_O_TRUNC", "TFS_O_APPEND"},
           NEW op \in {"open", "copy"}, CallOpen(t, n, flags, op)
    PROVE  FileInv'
<1> DEFINE i == find_in_dir(n)
           me == [Idle EXCEPT !.op = op, !.name = n, !.flags = flags]
<1>0. /\ TypeInv /\ NamesInv
      /\ UNCHANGED <<store, locks, issued>>
  BY DEF Inv, CallOpen
<1>1. me \in ThreadStates /\ me.stage = "idle"
  BY Zeros DEF ThreadStates, ThreadType, Idle, StageOK, Opening, WithHandle, Writing
<1>2. /\ dir_entry' = dir_entry /\ open_file_table' = open_file_table /\ issued' = issued
      /\ FileInodes' = FileInodes
  BY <1>0 DEF store, directory, table, FileInodes
<1> HIDE DEF me
<1>3. CASE i >= 0 /\ thread' = [thread EXCEPT ![t] = Found(me, i)]
  <2>1. i \in FileInodes
    BY <1>0, <1>3, LookupsFile
  <2>2. i \in Inumbers
    BY <1>0, <2>1 DEF FileInodes, TypeInv
  <2> HIDE DEF i
  <2>3. thread'[t] = Found(me, i) /\ \A u \in Threads \ {t} : thread'[u] = thread[u]
    BY <1>0, <1>3 DEF TypeInv
  <2>4. thread'[t].inum = i /\ thread'[t].stage \in {"truncate", "append", "add"}
    BY <1>1, <2>2, <2>3, FoundFields
  <2> QED
    BY <1>0, <1>2, <2>1, <2>3, <2>4, FilesKept DEF Copies
<1>4. CASE thread' = [thread EXCEPT ![t] = [me EXCEPT !.stage = "create"]]
  <2>1. thread'[t].stage = "create" /\ \A u \in Threads \ {t} : thread'[u] = thread[u]
    BY <1>0, <1>1, <1>4 DEF TypeInv, ThreadStates, ThreadType
  <2> QED
    BY <1>0, <1>2, <2>1, FilesKept DEF Copies, FileStages, Writing
<1>5. CASE thread' = thread
  BY <1>2, <1>5 DEF FileInv, Copies
<1> QED
  BY <1>3, <1>4, <1>5 DEF CallOpen, me

\* A file is created.
LEMMA FilesCreated ==
    ASSUME Inv, FileInv, NEW t \in Threads, Creates(t)
    PROVE  FileInv'
<1> DEFINE me == thread[t]
           i == find_in_dir(me.name)
           free == Inumbers \ takenInodes
           new == Lowest(free)
<1>0. /\ TypeInv /\ NamesInv /\ me \in ThreadStates /\ me.stage = "create"
      /\ UNCHANGED <<disk, table, locks, issued>>
  BY DEF Inv, Creates, TypeInv
<1>1. /\ \A h \in Handles : open_file_table'[h].of_inumber = open_file_table[h].of_inumber
      /\ DOMAIN issued' \subseteq DOMAIN issued
  BY <1>0 DEF table
<1>2. CASE /\ i >= 0 /\ thread' = [thread EXCEPT ![t] = Found(@, i)] /\ UNCHANGED directory
  <2>1. i \in FileInodes
    BY <1>0, <1>2, LookupsFile
  <2>2. i \in Inumbers
    BY <1>0, <2>1 DEF FileInodes, TypeInv
  <2>3. thread' = [thread EXCEPT ![t] = Found(me, i)]
    BY <1>2
  <2> HIDE DEF i
  <2>4. thread'[t] = Found(me, i) /\ \A u \in Threads \ {t} : thread'[u] = thread[u]
    BY <1>0, <2>3 DEF TypeInv
  <2>5. thread'[t].inum = i /\ thread'[t].stage \in {"truncate", "append", "add"}
    BY <1>0, <2>2, <2>4, FoundFields
  <2>6. FileInodes' = FileInodes
    BY <1>2 DEF directory, FileInodes
  <2> QED
    BY <1>0, <1>1, <2>1, <2>4, <2>5, <2>6, FilesKept DEF Copies
<1>3. CASE Ends(t) /\ UNCHANGED directory
  <2>1. thread'[t].stage = "idle" /\ \A u \in Threads \ {t} : thread'[u] = thread[u]
    BY <1>0, <1>3 DEF Ends, Idle, TypeInv
  <2>2. FileInodes' = FileInodes
    BY <1>3 DEF directory, FileInodes
  <2> QED
    BY <1>0, <1>1, <2>1, <2>2, FilesKept DEF Copies, FileStages, Writing
<1>4. CASE /\ free # {}
           /\ takenInodes' = takenInodes \cup {new}
           /\ thread' = [thread EXCEPT ![t].stage = "add", ![t].inum = new]
  <2>1. new \notin takenInodes
    <3>1. free \in SUBSET Inumbers
      OBVIOUS
    <3> HIDE DEF free
    <3>2. Lowest(free) \in free
      BY <1>4, <3>1, FreeOnes
    <3> QED
      BY <3>1, <3>2 DEF free
  <2> HIDE DEF new
  <2>2. thread'[t].stage = "add" /\ thread'[t].inum = new
        /\ \A u \in Threads \ {t} : thread'[u] = thread[u]
    BY <1>0, <1>4 DEF TypeInv, ThreadStates, ThreadType
  <2>3. new \in FileInodes' /\ FileInodes \subseteq FileInodes'
    BY <1>0, <1>4, <2>1 DEF FileInodes, TypeInv
  <2> QED
    BY <1>0, <1>1, <2>2, <2>3, FilesKept DEF Copies
<1> QED
  BY <1>2, <1>3, <1>4 DEF Creates

\* The entry of a handle is filled with the i-number of its file.
LEMMA FilesFilled ==
    ASSUME Inv, FileInv, NEW t \in Threads, FillsEntry(t)
    PROVE  FileInv'
<1> DEFINE me == thread[t]
           entry == [of_inumber |-> me.inum, of_offset |-> me.offset,
                     isAppending |-> me.isAppending]
<1>0. /\ TypeInv /\ UNCHANGED directory
      /\ me.stage = "fill" /\ me.h \in Handles /\ me.inum # ROOT_DIR_INUM
      /\ open_file_table' = [open_file_table EXCEPT ![me.h] = entry]
  BY DEF Inv, FillsEntry, TypeInv, ThreadStates, StageOK, WithHandle, FileInv, FileStages, FileInodes
<1>1. entry.of_inumber = me.inum
  OBVIOUS
<1> HIDE DEF entry
<1>2. /\ open_file_table'[me.h].of_inumber # ROOT_DIR_INUM
      /\ \A g \in Handles \ {me.h} : open_file_table'[g] = open_file_table[g]
  BY <1>0, <1>1 DEF TypeInv
<1>3. FileInodes' = FileInodes
  BY <1>0 DEF directory, FileInodes
<1>4. CASE /\ Ends(t)
           /\ issued' = [g \in DOMAIN issued \cup {me.h} |->
                IF g = me.h THEN "TFS_O_APPEND" \in me.flags ELSE issued[g]]
  <2>1. thread'[t].stage = "idle" /\ \A u \in Threads \ {t} : thread'[u] = thread[u]
    BY <1>0, <1>4 DEF Ends, Idle, TypeInv
  <2>2. \A h \in DOMAIN issued' : open_file_table'[h].of_inumber # ROOT_DIR_INUM
    BY <1>0, <1>2, <1>4 DEF FileInv, TypeInv
  <2> QED
    BY <1>0, <1>2, <1>3, <2>1, <2>2, FilesNext DEF Copies, FileStages, Writing
<1>5. CASE /\ \E stage \in {"find", "close"} : thread' = [thread EXCEPT ![t] =
                 [Idle EXCEPT !.stage = stage, !.op = "copy", !.h = me.h,
                              !.len = IF stage = "find" THEN BUFFER_SIZE ELSE 0]]
           /\ UNCHANGED issued
  <2>1. PICK stage \in {"find", "close"} : thread' = [thread EXCEPT ![t] =
                 [Idle EXCEPT !.stage = stage, !.op = "copy", !.h = me.h,
                              !.len = IF stage = "find" THEN BUFFER_SIZE ELSE 0]]
    BY <1>5
  <2>2. thread'[t].stage \in {"find", "close"} /\ thread'[t].h = me.h
        /\ \A u \in Threads \ {t} : thread'[u] = thread[u]
    BY <1>0, <2>1 DEF Idle, TypeInv
  <2>3. \A h \in DOMAIN issued' : open_file_table'[h].of_inumber # ROOT_DIR_INUM
    BY <1>0, <1>2, <1>5 DEF FileInv, TypeInv
  <2> QED
    BY <1>0, <1>2, <1>3, <2>2, <2>3, FilesNext DEF FileStages, Writing
<1> QED
  BY <1>4, <1>5 DEF FillsEntry

\* A call or a copy looks its handle up.
LEMMA FilesLookedUp ==
    ASSUME Inv, FileInv, NEW t \in Threads, NEW me \in ThreadStates,
           me.h \in Handles, open_file_table[me.h].of_inumber # ROOT_DIR_INUM,
           me.op = "copy" => me = thread[t] /\ Copies(me),
           Finds(t, me)
    PROVE  FileInv'
<1> DEFINE i == open_file_table[me.h].of_inumber
<1>0. TypeInv /\ NamesInv /\ UNCHANGED <<store, locks, issued>>
  BY DEF Inv, Finds
<1>1. i \in FileInodes
  BY <1>0 DEF NamesInv, FileInodes
<1>2. /\ dir_entry' = dir_entry /\ open_file_table' = open_file_table /\ issued' = issued
      /\ FileInodes' = FileInodes
  BY <1>0 DEF store, directory, table, FileInodes
<1>3. CASE thread' = [thread EXCEPT ![t] = [me EXCEPT !.inum = i,
                        !.stage = IF me.op = "write" THEN "lock" ELSE "check"]]
  <2>1. thread'[t].inum = i /\ thread'[t].op = me.op /\ thread'[t].h = me.h
        /\ \A u \in Threads \ {t} : thread'[u] = thread[u]
    BY <1>0, <1>3 DEF TypeInv, ThreadStates, ThreadType
  <2> QED
    BY <1>0, <1>1, <1>2, <2>1, FilesKept DEF Copies
<1>4. CASE Ends(t)
  <2>1. thread'[t].stage = "idle" /\ \A u \in Threads \ {t} : thread'[u] = thread[u]
    BY <1>0, <1>4 DEF Ends, Idle, TypeInv
  <2> QED
    BY <1>0, <1>2, <2>1, FilesKept DEF Copies, FileStages, Writing
<1> QED
  BY <1>3, <1>4 DEF Finds

\* FileInv holds initially.
LEMMA FilesInit == Init => FileInv
<1> SUFFICES ASSUME Init PROVE FileInv
  OBVIOUS
<1>1. \A u \in Threads : thread[u].stage = "idle"
  BY DEF Init, Idle
<1>2. DOMAIN issued = {}
  BY DEF Init
<1> QED
  BY <1>1, <1>2 DEF FileInv, FileStages, Copies, Writing

\* A call begins.
LEMMA FilesCalls ==
    ASSUME Inv, FileInv, NEW t \in Threads, Calls(t)
    PROVE  FileInv'
<1>0. TypeInv
  BY DEF Inv
<1>1. ASSUME NEW n \in Names, NEW flags \in FlagSets, CallOpen(t, n, flags, "open") PROVE FileInv'
  <2>1. flags \in SUBSET {"TFS_O_CREAT", "TFS_O_TRUNC", "TFS_O_APPEND"}
    BY BlocksAssumption
  <2> QED
    BY <1>1, <2>1, FilesOpened
<1>2. ASSUME NEW n \in Sources, CallOpen(t, n, {"TFS_O_CREAT"}, "copy") PROVE FileInv'
  <2>1. n \in Names
    BY BlocksAssumption
  <2> QED
    BY <1>2, <2>1, FilesOpened
<1>3. ASSUME NEW h \in Handles, CallClose(t, h) PROVE FileInv'
  <2>1. /\ thread' = thread /\ open_file_table' = open_file_table /\ UNCHANGED directory
        /\ DOMAIN issued' = DOMAIN issued \ {h}
    BY <1>3 DEF CallClose, Close
  <2>2. FileInodes' = FileInodes
    BY <2>1 DEF FileInodes, directory
  <2> QED
    BY <2>1, <2>2 DEF FileInv, Copies
<1>4. ASSUME NEW h \in Handles, MayUse(h) PROVE open_file_table[h].of_inumber # ROOT_DIR_INUM
  BY <1>4 DEF MayUse, FileInv
<1>5. ASSUME NEW h \in Handles, NEW buf \in Contents, CallWrite(t, h, buf) PROVE FileInv'
  <2> DEFINE me == [Idle EXCEPT !.op = "write", !.h = h, !.buf = buf]
  <2>1. buf \in Seq(Nat)
    BY BlocksAssumption
  <2>2. me \in ThreadType /\ me.op = "write" /\ me.h = h /\ me.stage = "idle" /\ me.freed = 0
        /\ me.inum = ROOT_DIR_INUM
    BY <2>1, Zeros DEF ThreadStates, ThreadType, Idle
  <2>3. Finds(t, me) /\ MayUse(h)
    BY <1>5 DEF CallWrite
  <2> HIDE DEF me
  <2>4. me \in ThreadStates
    BY <2>2 DEF ThreadStates, StageOK, Opening, WithHandle, Writing
  <2> QED
    BY <1>4, <2>2, <2>3, <2>4, FilesLookedUp
<1>6. ASSUME NEW h \in Handles, NEW len \in Lengths, CallRead(t, h, len) PROVE FileInv'
  <2> DEFINE me == [Idle EXCEPT !.op = "read", !.h = h, !.len = len]
  <2>1. len \in Nat
    BY BlocksAssumption
  <2>2. me \in ThreadType /\ me.op = "read" /\ me.h = h /\ me.stage = "idle" /\ me.freed = 0
        /\ me.inum = ROOT_DIR_INUM
    BY <2>1, Zeros DEF ThreadStates, ThreadType, Idle
  <2>3. Finds(t, me) /\ MayUse(h)
    BY <1>6 DEF CallRead
  <2> HIDE DEF me
  <2>4. me \in ThreadStates
    BY <2>2 DEF ThreadStates, StageOK, Opening, WithHandle, Writing
  <2> QED
    BY <1>4, <2>2, <2>3, <2>4, FilesLookedUp
<1> QED
  BY <1>1, <1>2, <1>3, <1>5, <1>6 DEF Calls

\* How each step of a call changes the thread's stage, file and handle.
LEMMA StepFields ==
    ASSUME TypeInv, NEW t \in Threads
    PROVE  /\ \A s : Stays(t, s) => /\ thread'[t].stage = s /\ thread'[t].inum = thread[t].inum
                                    /\ thread'[t].h = thread[t].h /\ thread'[t].op = thread[t].op
                                    /\ thread'[t].freed = thread[t].freed
                                    /\ thread'[t].buf = thread[t].buf
                                    /\ \A u \in Threads \ {t} : thread'[u] = thread[u]
           /\ Ends(t) => thread'[t] = Idle /\ \A u \in Threads \ {t} : thread'[u] = thread[u]
           /\ \A v : AfterRead(t, v) =>
                /\ thread'[t].stage \in {"idle", "find", "close"}
                /\ thread'[t].freed = 0
                /\ Copies(thread'[t]) => thread[t].op # "read" /\ thread'[t].h = thread[t].h
                /\ \A u \in Threads \ {t} : thread'[u] = thread[u]
<1>1. thread \in [Threads -> ThreadType] /\ thread[t] \in ThreadType
  BY DEF TypeInv, ThreadStates
<1>2. ASSUME NEW s, Stays(t, s)
      PROVE  /\ thread'[t].stage = s /\ thread'[t].inum = thread[t].inum
             /\ thread'[t].h = thread[t].h /\ thread'[t].op = thread[t].op
             /\ thread'[t].freed = thread[t].freed
             /\ thread'[t].buf = thread[t].buf
             /\ \A u \in Threads \ {t} : thread'[u] = thread[u]
  BY <1>1, <1>2 DEF Stays, ThreadType
<1>3. ASSUME Ends(t)
      PROVE  thread'[t] = Idle /\ \A u \in Threads \ {t} : thread'[u] = thread[u]
  BY <1>1, <1>3 DEF Ends
<1>4. ASSUME NEW v, AfterRead(t, v)
      PROVE  /\ thread'[t].stage \in {"idle", "find", "close"}
             /\ thread'[t].freed = 0
             /\ Copies(thread'[t]) => thread[t].op # "read" /\ thread'[t].h = thread[t].h
             /\ \A u \in Threads \ {t} : thread'[u] = thread[u]
  <2>1. CASE thread[t].op = "read" \/ v < 0
    BY <1>3, <1>4, <2>1 DEF AfterRead, Idle, Copies
  <2>2. CASE ~(thread[t].op = "read" \/ v < 0)
    <3> DEFINE stage == IF v > 0 THEN "find" ELSE "close"
               len == IF v > 0 THEN BUFFER_SIZE ELSE 0
    <3>1. stage \in {"find", "close"}
      OBVIOUS
    <3>2. thread' = [thread EXCEPT ![t] = CopyAt(thread[t].h, stage, len)]
      BY <1>4, <2>2 DEF AfterRead, CopyAt
    <3> HIDE DEF stage, len
    <3>3. thread'[t] = CopyAt(thread[t].h, stage, len)
          /\ \A u \in Threads \ {t} : thread'[u] = thread[u]
      BY <1>1, <3>2
    <3>4. /\ CopyAt(thread[t].h, stage, len).stage = stage
          /\ CopyAt(thread[t].h, stage, len).freed = 0
          /\ CopyAt(thread[t].h, stage, len).h = thread[t].h
      BY DEF CopyAt, Idle
    <3> QED
      BY <2>2, <3>1, <3>3, <3>4
  <2> QED
    BY <2>1, <2>2
<1> QED
  BY <1>2, <1>3, <1>4

\* A step of a call.
LEMMA FilesStep ==
    ASSUME Inv, FileInv, NEW t \in Threads, Step(t)
    PROVE  FileInv'
<1>0. TypeInv /\ LockInv /\ thread[t] \in ThreadStates
  BY DEF Inv, TypeInv
<1> DEFINE Same == /\ \A h \in Handles : open_file_table'[h].of_inumber = open_file_table[h].of_inumber
                   /\ UNCHANGED <<issued, directory>>
<1>1. CASE Creates(t)
  BY <1>1, FilesCreated
<1>2. CASE FillsEntry(t)
  BY <1>2, FilesFilled
<1>3. CASE CopyReads(t)
  <2>1. thread[t].stage = "find" /\ thread[t].op = "copy" /\ thread[t].h \in Handles
        /\ Finds(t, thread[t]) /\ Copies(thread[t])
    BY <1>0, <1>3 DEF CopyReads, ThreadStates, StageOK, WithHandle, Copies
  <2>2. open_file_table[thread[t].h].of_inumber # ROOT_DIR_INUM
    BY <2>1 DEF FileInv
  <2> QED
    BY <1>0, <2>1, <2>2, FilesLookedUp
<1>4. CASE LocksToTruncate(t) \/ FreesBlock(t) \/ Truncates(t) \/ Positions(t) \/ TakesEntry(t)
  <2>1. Same
    BY <1>4 DEF LocksToTruncate, FreesBlock, Truncates, Positions, TakesEntry, store, table
  <2>2. /\ thread[t].stage \in {"truncate", "delete", "append", "add"}
        /\ thread[t].op \in {"open", "copy"} /\ thread[t].name \in Names /\ thread[t].freed \in Nat
    BY <1>0, <1>4 DEF LocksToTruncate, FreesBlock, Truncates, Positions, TakesEntry,
                      ThreadStates, ThreadType, StageOK, Opening
  <2>3. /\ \A u \in Threads \ {t} : thread'[u] = thread[u]
        /\ \/ thread'[t].stage = "idle"
           \/ /\ thread'[t].stage \in {"delete", "append", "add", "fill"}
              /\ thread'[t].inum = thread[t].inum
    <3>1. CASE LocksToTruncate(t) /\ Stays(t, "delete")
      BY <1>0, <3>1, StepFields
    <3>2. CASE LocksToTruncate(t) /\ thread' = [thread EXCEPT ![t] = Emptied(@)]
      BY <1>0, <3>2 DEF Emptied, TypeInv, ThreadStates, ThreadType
    <3>3. CASE FreesBlock(t)
      BY <1>0, <3>3 DEF FreesBlock, TypeInv, ThreadStates, ThreadType
    <3>4. CASE Truncates(t)
      BY <1>0, <3>4 DEF Truncates, Emptied, TypeInv, ThreadStates, ThreadType
    <3>5. CASE Positions(t)
      BY <1>0, <3>5 DEF Positions, TypeInv, ThreadStates, ThreadType
    <3>6. CASE TakesEntry(t) /\ Ends(t)
      BY <1>0, <3>6, StepFields DEF Idle
    <3>7. CASE /\ TakesEntry(t)
               /\ thread' = [thread EXCEPT ![t].stage = "fill", ![t].h = Lowest(FreeEntries)]
      BY <1>0, <3>7 DEF TypeInv, ThreadStates, ThreadType
    <3> QED
      BY <1>4, <3>1, <3>2, <3>3, <3>4, <3>5, <3>6, <3>7 DEF LocksToTruncate, TakesEntry
  <2> HIDE DEF Same
  <2> QED
    BY <1>0, <2>1, <2>2, <2>3, FilesPass DEF Same, Copies, FileStages, Writing
<1>5. CASE CopyCloses(t)
  <2>1. Same /\ Ends(t)
    BY <1>5 DEF CopyCloses, Close
  <2> HIDE DEF Same
  <2> QED
    BY <1>0, <2>1, StepFields, FilesPass DEF Same, Idle, Copies, FileStages, Writing
<1>6. CASE LocksToWrite(t) \/ LocksToRead(t)
  <2>1. Same /\ Stays(t, "entry") /\ thread[t].stage = "lock"
    BY <1>6 DEF LocksToWrite, LocksToRead, store, table
  <2> HIDE DEF Same
  <2> QED
    BY <1>0, <2>1, StepFields, FilesPass DEF Same, Copies, FileStages
<1>7. CASE LocksEntryToWrite(t)
  <2>1. Same /\ thread[t].stage = "entry" /\ thread[t].op = "write"
    BY <1>0, <1>7, LocksEntryToWriteNext DEF LocksEntryToWrite
  <2> HIDE DEF Same
  <2>2. CASE Stays(t, "alloc")
    BY <1>0, <2>1, <2>2, StepFields, FilesPass DEF Same, Copies, FileStages
  <2>3. CASE Ends(t)
    BY <1>0, <2>1, <2>3, StepFields, FilesPass DEF Same, Idle, Copies, FileStages, Writing
  <2> QED
    BY <1>7, <2>2, <2>3 DEF LocksEntryToWrite
<1>8. CASE AllocsBlock(t) \/ AllocsIndirect(t) \/ ReleasesIndirect(t)
  <2>1. Same /\ thread[t].stage \in Writing
    BY <1>8 DEF AllocsBlock, AllocsIndirect, ReleasesIndirect, table, Writing
  <2>2. /\ thread'[t].stage \in Writing /\ thread'[t].inum = thread[t].inum
        /\ \A u \in Threads \ {t} : thread'[u] = thread[u]
    <3>1. CASE UNCHANGED thread
      BY <2>1, <3>1
    <3>2. CASE \E s \in Writing : Stays(t, s)
      BY <1>0, <3>2, StepFields
    <3> QED
      BY <1>8, <3>1, <3>2 DEF AllocsBlock, AllocsIndirect, ReleasesIndirect, Writing
  <2>3. thread'[t].stage \notin {"find", "check", "lock", "entry"}
    BY <2>2 DEF Writing
  <2> HIDE DEF Same
  <2> QED
    BY <1>0, <2>1, <2>2, <2>3, FilesPass DEF Same, Copies, FileStages
<1>9. CASE Writes(t)
  <2>1. Same /\ Ends(t)
    BY <1>0, <1>9, WritesNext DEF Writes
  <2> HIDE DEF Same
  <2> QED
    BY <1>0, <2>1, StepFields, FilesPass DEF Same, Idle, Copies, FileStages, Writing
<1>10. CASE ChecksAppend(t) \/ Reads(t)
  <2>1. Same /\ thread[t].stage \in {"check", "entry"} /\ thread[t].op # "write"
    BY <1>0, <1>10, ReadsNext DEF ChecksAppend, Reads, store, table, ThreadStates, StageOK
  <2>2. thread[t].op \in {"read", "copy"}
    BY <1>0, <2>1 DEF ThreadStates, StageOK
  <2> HIDE DEF Same
  <2>3. CASE Stays(t, "lock")
    BY <1>0, <2>1, <2>3, StepFields, FilesPass DEF Same, Copies, FileStages
  <2>4. CASE \E v : AfterRead(t, v)
    <3>1. /\ thread'[t].stage \in {"idle", "find", "close"}
          /\ Copies(thread'[t]) => thread[t].op # "read" /\ thread'[t].h = thread[t].h
          /\ \A u \in Threads \ {t} : thread'[u] = thread[u]
      BY <1>0, <2>4, StepFields
    <3>2. Copies(thread'[t]) => Copies(thread[t]) /\ thread'[t].h = thread[t].h
      BY <2>1, <2>2, <3>1 DEF Copies
    <3>3. thread'[t].stage \notin FileStages
      BY <3>1 DEF FileStages, Writing
    <3> QED
      BY <1>0, <2>1, <3>1, <3>2, <3>3, FilesPass DEF Same
  <2> QED
    BY <1>10, <2>3, <2>4 DEF ChecksAppend, Reads
<1> QED
  BY <1>1, <1>2, <1>3, <1>4, <1>5, <1>6, <1>7, <1>8, <1>9, <1>10 DEF Step

-----------------------------------------------------------------------------
(* The places of a file's blocks *)

\* The places for blocks: 0 for the indirect block, k for the kth data block.
Keys == 0 .. MAX_INODE_BLOCKS

\* The blocks an i-node has, and their order in deleteInodeDataBlocks.
HasKey(node, k) == k \in 0 .. node.blocksAlloc /\ (k = 0 => node.blocksAlloc > DIRECT_BLOCK_COUNT)
FreeLen(node) ==
    IF node.blocksAlloc > DIRECT_BLOCK_COUNT THEN node.blocksAlloc + 1 ELSE node.blocksAlloc
FreePos(node, k) ==
    LET indirect == node.blocksAlloc - DIRECT_BLOCK_COUNT
    IN  IF k = 0 THEN indirect + 1
        ELSE IF k > DIRECT_BLOCK_COUNT THEN k - DIRECT_BLOCK_COUNT
        ELSE IF indirect > 0 THEN indirect + 1 + k ELSE k

\* The block at a place.
BlockAt(node, data, k) ==
    IF k = 0 THEN node.indirect_data_block
    ELSE IF k <= DIRECT_BLOCK_COUNT THEN node.i_data_block[k]
    ELSE data[node.indirect_data_block][k - DIRECT_BLOCK_COUNT]

\* An i-node names its direct blocks, up to as many as it has blocks.
Shaped(node) == Len(node.i_data_block) = Least(node.blocksAlloc, DIRECT_BLOCK_COUNT)

\* The places of an i-node and the positions at which they are freed are in
\* one-to-one correspondence.
LEMMA FreePositions ==
    ASSUME NEW node \in InodeType
    PROVE  /\ node.blocksAlloc \in Nat /\ DIRECT_BLOCK_COUNT \in Nat /\ FreeLen(node) \in Nat
           /\ \A k : HasKey(node, k) => k \in Keys /\ FreePos(node, k) \in 1 .. FreeLen(node)
           /\ \A k, l : (/\ HasKey(node, k) /\ HasKey(node, l)
                         /\ FreePos(node, k) = FreePos(node, l)) => k = l
           /\ \A p \in 1 .. FreeLen(node) : \E k : HasKey(node, k) /\ FreePos(node, k) = p
<1> DEFINE n == node.blocksAlloc
           d == DIRECT_BLOCK_COUNT
<1>1. n \in Nat /\ d \in Nat /\ MAX_INODE_BLOCKS \in Nat /\ n <= MAX_INODE_BLOCKS
  BY BlocksAssumption DEF InodeType
<1>2. \A k : HasKey(node, k) <=> (k \in 0 .. n /\ (k = 0 => n > d))
  BY DEF HasKey
<1>3. FreeLen(node) = IF n > d THEN n + 1 ELSE n
  BY DEF FreeLen
<1>4. \A k : FreePos(node, k) = IF k = 0 THEN n - d + 1 ELSE IF k > d THEN k - d
                                ELSE IF n - d > 0 THEN n - d + 1 + k ELSE k
  BY DEF FreePos
<1> HIDE DEF n, d
<1>5. ASSUME NEW k, HasKey(node, k)
      PROVE  k \in Keys /\ FreePos(node, k) \in 1 .. FreeLen(node)
  <2>1. k \in 0 .. n /\ (k = 0 => n > d)
    BY <1>2, <1>5
  <2> QED
    BY <1>1, <1>3, <1>4, <2>1 DEF Keys
<1>6. ASSUME NEW k, NEW l, HasKey(node, k), HasKey(node, l), FreePos(node, k) = FreePos(node, l)
      PROVE  k = l
  <2>1. k \in 0 .. n /\ (k = 0 => n > d) /\ l \in 0 .. n /\ (l = 0 => n > d)
    BY <1>2, <1>6
  <2> QED
    BY <1>1, <1>4, <1>6, <2>1
<1>7. ASSUME NEW p \in 1 .. FreeLen(node)
      PROVE  \E k : HasKey(node, k) /\ FreePos(node, k) = p
  <2>1. CASE n <= d
    <3>1. p \in 0 .. n /\ p # 0 /\ ~(p > d) /\ ~(n - d > 0)
      BY <1>1, <1>3, <2>1
    <3> QED
      BY <1>2, <1>4, <3>1
  <2>2. CASE n > d /\ p <= n - d
    <3>1. p + d \in 0 .. n /\ p + d # 0 /\ p + d > d /\ (p + d) - d = p
      BY <1>1, <1>3, <2>2
    <3> QED
      BY <1>2, <1>4, <3>1
  <2>3. CASE n > d /\ p = n - d + 1
    <3>1. 0 \in 0 .. n
      BY <1>1
    <3> QED
      BY <1>2, <1>4, <2>3, <3>1
  <2>4. CASE n > d /\ p > n - d + 1
    <3> DEFINE k == p - (n - d + 1)
    <3>1. k \in 0 .. n /\ k # 0 /\ ~(k > d) /\ n - d > 0 /\ n - d + 1 + k = p
      BY <1>1, <1>3, <2>4
    <3> QED
      BY <1>2, <1>4, <3>1
  <2> QED
    BY <1>1, <1>3, <2>1, <2>2, <2>3, <2>4
<1>8. FreeLen(node) \in Nat
  BY <1>1, <1>3
<1>9. node.blocksAlloc \in Nat /\ DIRECT_BLOCK_COUNT \in Nat
  BY <1>1 DEF n, d
<1> QED
  BY <1>5, <1>6, <1>7, <1>8, <1>9

\* deleteInodeDataBlocks frees the blocks in that order.
LEMMA FreeOrderIs ==
    ASSUME TypeInv, NEW node \in InodeType, Shaped(node)
    PROVE  /\ FreeOrder(node) \in Seq(Nat)
           /\ Len(FreeOrder(node)) = FreeLen(node)
           /\ \A k : HasKey(node, k) =>
                FreeOrder(node)[FreePos(node, k)] = BlockAt(node, fs_data, k)
<1> DEFINE n == node.blocksAlloc
           d == DIRECT_BLOCK_COUNT
           s == node.i_data_block
           ind == node.indirect_data_block
           f == fs_data[ind]
<1>1. n \in Nat /\ d \in Nat /\ n <= MAX_INODE_BLOCKS /\ MAX_INODE_BLOCKS <= d + BLOCK_SIZE
      /\ BLOCK_SIZE \in Nat /\ MAX_INODE_BLOCKS \in Nat
  BY BlocksAssumption DEF InodeType
<1>2. s \in Seq(Nat) /\ ind \in Nat /\ ind \in Blocks
  <2>1. s \in Seq(Blocks) /\ ind \in Blocks /\ Blocks \subseteq Nat
    BY BlocksAssumption DEF InodeType, Blocks
  <2>2. s \in Seq(Nat)
    BY <2>1, SeqMonotonic
  <2> QED
    BY <2>1, <2>2
<1>3. f \in [1 .. BLOCK_SIZE -> Nat]
  BY <1>2 DEF TypeInv
<1>4. Len(s) = IF n <= d THEN n ELSE d
  BY <1>1 DEF Shaped, Least
<1>5. FreeOrder(node) = (IF n - d <= 0 THEN <<>> ELSE SubSeq(f, 1, n - d) \o <<ind>>) \o s
  BY DEF FreeOrder
<1>6. \A k : HasKey(node, k) <=> (k \in 0 .. n /\ (k = 0 => n > d))
  BY DEF HasKey
<1>7. FreeLen(node) = IF n > d THEN n + 1 ELSE n
  BY DEF FreeLen
<1>8. \A k : FreePos(node, k) = IF k = 0 THEN n - d + 1 ELSE IF k > d THEN k - d
                                ELSE IF n - d > 0 THEN n - d + 1 + k ELSE k
  BY DEF FreePos
<1>9. \A k : BlockAt(node, fs_data, k) = IF k = 0 THEN ind ELSE IF k <= d THEN s[k] ELSE f[k - d]
  BY DEF BlockAt
<1> HIDE DEF n, d, s, ind, f
<1>10. CASE n <= d
  <2>1. FreeOrder(node) = <<>> \o s
    BY <1>1, <1>5, <1>10
  <2>2. <<>> \o s = s
    BY <1>2
  <2>3. ASSUME NEW k, HasKey(node, k)
        PROVE  FreeOrder(node)[FreePos(node, k)] = BlockAt(node, fs_data, k)
    <3>1. k \in 1 .. n /\ k <= d /\ ~(k > d) /\ ~(n - d > 0)
      BY <1>1, <1>6, <1>10, <2>3
    <3> QED
      BY <1>8, <1>9, <2>1, <2>2, <3>1
  <2> QED
    BY <1>1, <1>2, <1>4, <1>7, <1>10, <2>1, <2>2, <2>3
<1>11. CASE n > d
  <2> DEFINE m == n - d
             a == SubSeq(f, 1, m)
             b == a \o <<ind>>
  <2>1. m \in Nat /\ m <= BLOCK_SIZE /\ m > 0
    BY <1>1, <1>11
  <2>2. f \in Seq(Nat) /\ Len(f) = BLOCK_SIZE
    BY <1>1, <1>3
  <2> HIDE DEF m
  <2>3. a \in Seq(Nat) /\ Len(a) = m /\ \A k \in 1 .. m : a[k] = f[k]
    BY <2>1, <2>2
  <2> HIDE DEF a
  <2>4. b \in Seq(Nat) /\ Len(b) = m + 1 /\ b[m + 1] = ind /\ \A k \in 1 .. m : b[k] = f[k]
    BY <1>2, <2>1, <2>3
  <2> HIDE DEF b
  <2>5. FreeOrder(node) = b \o s
    BY <1>1, <1>5, <1>11 DEF m, a, b
  <2>6. /\ b \o s \in Seq(Nat) /\ Len(b \o s) = m + 1 + Len(s)
        /\ \A k \in 1 .. m + 1 : (b \o s)[k] = b[k]
        /\ \A k \in 1 .. Len(s) : (b \o s)[m + 1 + k] = s[k]
    <3>1. \A k \in 1 .. (m + 1) + Len(s) :
            (b \o s)[k] = IF k <= m + 1 THEN b[k] ELSE s[k - (m + 1)]
      <4>1. \A g \in Seq(Nat), l \in Nat : Len(g) = l =>
              \A k \in 1 .. l + Len(s) : (g \o s)[k] = IF k <= l THEN g[k] ELSE s[k - l]
        BY <1>2, ConcatProperties
      <4>2. m + 1 \in Nat
        BY <2>1
      <4> QED
        BY <2>4, <4>1, <4>2
    <3>2. b \o s \in Seq(Nat) /\ Len(b \o s) = m + 1 + Len(s)
      <4>1. b \o s \in Seq(Nat) /\ Len(b \o s) = Len(b) + Len(s)
        BY <1>2, <2>4, ConcatProperties
      <4> QED
        BY <2>4, <4>1
    <3>3. Len(s) \in Nat
      BY <1>2
    <3>4. ASSUME NEW k \in 1 .. m + 1 PROVE (b \o s)[k] = b[k]
      <4>1. k \in 1 .. (m + 1) + Len(s) /\ k <= m + 1
        BY <2>1, <3>3
      <4> QED
        BY <3>1, <4>1
    <3>5. ASSUME NEW k \in 1 .. Len(s) PROVE (b \o s)[m + 1 + k] = s[k]
      <4>1. /\ m + 1 + k \in 1 .. (m + 1) + Len(s) /\ ~(m + 1 + k <= m + 1)
            /\ (m + 1 + k) - (m + 1) = k
        BY <2>1, <3>3
      <4> QED
        BY <3>1, <4>1
    <3> QED
      BY <3>2, <3>4, <3>5
  <2>7. Len(s) = d
    BY <1>1, <1>4, <1>11
  <2>8. ASSUME NEW k, HasKey(node, k)
        PROVE  FreeOrder(node)[FreePos(node, k)] = BlockAt(node, fs_data, k)
    <3>0. k \in 0 .. n
      BY <1>6, <2>8
    <3>1. CASE k = 0
      <4>1. FreePos(node, k) = m + 1 /\ BlockAt(node, fs_data, k) = ind
        BY <1>8, <1>9, <3>1 DEF m
      <4> QED
        BY <2>1, <2>4, <2>5, <2>6, <4>1
    <3>2. CASE k > d
      <4>1. FreePos(node, k) = k - d /\ BlockAt(node, fs_data, k) = f[k - d] /\ k - d \in 1 .. m
        BY <1>1, <1>8, <1>9, <3>0, <3>2 DEF m
      <4>2. k - d \in 1 .. m + 1
        BY <2>1, <4>1
      <4> QED
        BY <2>4, <2>5, <2>6, <4>1, <4>2
    <3>3. CASE k # 0 /\ k <= d
      <4>1. FreePos(node, k) = m + 1 + k /\ BlockAt(node, fs_data, k) = s[k] /\ k \in 1 .. d
        BY <1>1, <1>8, <1>9, <1>11, <3>0, <3>3 DEF m
      <4> QED
        BY <2>5, <2>6, <2>7, <4>1
    <3> QED
      BY <1>1, <3>0, <3>1, <3>2, <3>3
  <2>9. m + 1 + d = n + 1
    BY <1>1 DEF m
  <2> QED
    BY <1>7, <1>11, <2>5, <2>6, <2>7, <2>8, <2>9
<1> QED
  BY <1>1, <1>10, <1>11

-----------------------------------------------------------------------------
(* The blocks in use *)

Deletes(me, i) == me.stage = "delete" /\ me.inum = i
Waiting(me, i) == me.stage \in Between /\ me.inum = i

\* How many blocks of a file a truncation has freed.
Freed(i) ==
    LET deleting == At({"delete"}, i)
    IN  IF deleting = {} THEN 0 ELSE thread[CHOOSE t \in deleting : TRUE].freed

\* The places a file has a block at: those that are not freed yet, and that of
\* an indirect block without a block behind it.
InUse(i, k) ==
    \/ HasKey(inode_table[i], k) /\ Freed(i) < FreePos(inode_table[i], k)
    \/ k = 0 /\ At(Between, i) # {}
BlockOf(i, k) == BlockAt(inode_table[i], fs_data, k)

\* A block is taken exactly while one place of one file has it.
BlockInv ==
    /\ 0 \in takenBlocks
    /\ \A i \in FileInodes : Shaped(inode_table[i])
    /\ \A i \in FileInodes, k \in Keys :
         InUse(i, k) => BlockOf(i, k) \in takenBlocks /\ BlockOf(i, k) # 0
    /\ \A b \in takenBlocks : b # 0 =>
         \E i \in FileInodes, k \in Keys : InUse(i, k) /\ BlockOf(i, k) = b
    /\ \A i, j \in FileInodes, k, l \in Keys :
         InUse(i, k) /\ InUse(j, l) /\ BlockOf(i, k) = BlockOf(j, l) => i = j /\ k = l
    /\ \A u \in Threads : thread[u].stage = "delete" =>
         thread[u].freed <= FreeLen(inode_table[thread[u].inum])

\* The truncation of a file is that of the thread that has its lock.
LEMMA FreedIs ==
    ASSUME LockInv, NEW i \in Inumbers
    PROVE  /\ \A u \in Threads : Deletes(thread[u], i) => Freed(i) = thread[u].freed
           /\ (\A u \in Threads : ~Deletes(thread[u], i)) => Freed(i) = 0
<1>1. ASSUME NEW u \in Threads, Deletes(thread[u], i)
      PROVE  Freed(i) = thread[u].freed
  <2>1. At({"delete"}, i) = {u}
    <3>1. u \in At({"delete"}, i)
      BY <1>1 DEF At, Deletes
    <3>2. ASSUME NEW w \in At({"delete"}, i) PROVE w = u
      <4>1. w \in Threads /\ HoldsWrite(thread[w], i) /\ HoldsWrite(thread[u], i)
        BY <1>1 DEF At, Deletes, HoldsWrite
      <4> QED
        BY <4>1, OneWriter
    <3> QED
      BY <3>1, <3>2
  <2> QED
    BY <2>1 DEF Freed
<1>2. ASSUME \A u \in Threads : ~Deletes(thread[u], i)
      PROVE  Freed(i) = 0
  <2>1. At({"delete"}, i) = {}
    BY <1>2 DEF At, Deletes
  <2> QED
    BY <2>1 DEF Freed
<1> QED
  BY <1>1, <1>2

\* What other threads do to a file is what they did before.
LEMMA RolesKept ==
    ASSUME NEW t \in Threads, \A u \in Threads \ {t} : thread'[u] = thread[u], NEW i,
           Deletes(thread'[t], i) <=> Deletes(thread[t], i),
           Deletes(thread[t], i) => thread'[t].freed = thread[t].freed,
           Waiting(thread'[t], i) <=> Waiting(thread[t], i)
    PROVE  Freed(i)' = Freed(i) /\ At(Between, i)' = At(Between, i)
<1>1. At({"delete"}, i)' = At({"delete"}, i)
  <2>1. \A u \in Threads : Deletes(thread'[u], i) <=> Deletes(thread[u], i)
    OBVIOUS
  <2> QED
    BY <2>1 DEF At, Deletes
<1>2. \A u \in At({"delete"}, i) : thread'[u].freed = thread[u].freed
  BY DEF At, Deletes
<1>3. Freed(i)' = Freed(i)
  <2>1. CASE At({"delete"}, i) = {}
    BY <1>1, <2>1 DEF Freed
  <2>2. CASE At({"delete"}, i) # {}
    <3>1. (CHOOSE u \in At({"delete"}, i) : TRUE) \in At({"delete"}, i)
      BY <2>2
    <3> QED
      BY <1>1, <1>2, <2>2, <3>1 DEF Freed
  <2> QED
    BY <2>1, <2>2
<1>4. At(Between, i)' = At(Between, i)
  <2>1. \A u \in Threads : Waiting(thread'[u], i) <=> Waiting(thread[u], i)
    OBVIOUS
  <2> QED
    BY <2>1 DEF At, Waiting, Between
<1> QED
  BY <1>3, <1>4

\* No block changes its place; a new file has none.
LEMMA BlocksSame ==
    ASSUME BlockInv, FileInodes \subseteq FileInodes', takenBlocks' = takenBlocks,
           \A i \in FileInodes' : Shaped(inode_table'[i]),
           \A i \in FileInodes, k \in Keys :
             /\ InUse(i, k)' <=> InUse(i, k)
             /\ InUse(i, k) => BlockOf(i, k)' = BlockOf(i, k),
           \A i \in FileInodes' \ FileInodes, k \in Keys : ~InUse(i, k)',
           \A u \in Threads : thread'[u].stage = "delete" =>
             thread'[u].freed <= FreeLen(inode_table'[thread'[u].inum])
    PROVE  BlockInv'
<1>1. \A i \in FileInodes', k \in Keys :
        InUse(i, k)' => BlockOf(i, k)' \in takenBlocks' /\ BlockOf(i, k)' # 0
  BY DEF BlockInv
<1>2. \A b \in takenBlocks' : b # 0 =>
        \E i \in FileInodes', k \in Keys : InUse(i, k)' /\ BlockOf(i, k)' = b
  BY DEF BlockInv
<1>3. \A i, j \in FileInodes', k, l \in Keys :
        InUse(i, k)' /\ InUse(j, l)' /\ BlockOf(i, k)' = BlockOf(j, l)' => i = j /\ k = l
  BY DEF BlockInv
<1>4. 0 \in takenBlocks'
  BY DEF BlockInv
<1> QED
  BY <1>1, <1>2, <1>3, <1>4 DEF BlockInv, Shaped, FreeLen, Keys

\* A free block goes to a place that had none.
LEMMA BlocksPlus ==
    ASSUME BlockInv, FileInodes' = FileInodes, NEW x \in FileInodes, NEW y \in Keys, NEW b,
           b \notin takenBlocks, takenBlocks' = takenBlocks \cup {b}, ~InUse(x, y),
           \A i \in FileInodes : Shaped(inode_table'[i]),
           \A i \in FileInodes, k \in Keys :
             /\ InUse(i, k)' <=> (InUse(i, k) \/ (i = x /\ k = y))
             /\ InUse(i, k) => BlockOf(i, k)' = BlockOf(i, k),
           BlockOf(x, y)' = b,
           \A u \in Threads : thread'[u].stage = "delete" =>
             thread'[u].freed <= FreeLen(inode_table'[thread'[u].inum])
    PROVE  BlockInv'
<1>0. 0 \in takenBlocks /\ b # 0
  BY DEF BlockInv
<1>1. \A i \in FileInodes', k \in Keys :
        InUse(i, k)' => BlockOf(i, k)' \in takenBlocks' /\ BlockOf(i, k)' # 0
  BY <1>0 DEF BlockInv
<1>2. \A c \in takenBlocks' : c # 0 =>
        \E i \in FileInodes', k \in Keys : InUse(i, k)' /\ BlockOf(i, k)' = c
  BY DEF BlockInv
<1>3. \A i, j \in FileInodes', k, l \in Keys :
        InUse(i, k)' /\ InUse(j, l)' /\ BlockOf(i, k)' = BlockOf(j, l)' => i = j /\ k = l
  BY DEF BlockInv
<1>4. 0 \in takenBlocks'
  BY <1>0
<1> QED
  BY <1>1, <1>2, <1>3, <1>4 DEF BlockInv, Shaped, FreeLen, Keys

\* A place loses its block, which is free then.
LEMMA BlocksMinus ==
    ASSUME BlockInv, FileInodes' = FileInodes, NEW x \in FileInodes, NEW y \in Keys,
           InUse(x, y), takenBlocks' = takenBlocks \ {BlockOf(x, y)},
           \A i \in FileInodes : Shaped(inode_table'[i]),
           \A i \in FileInodes, k \in Keys :
             /\ InUse(i, k)' <=> (InUse(i, k) /\ ~(i = x /\ k = y))
             /\ InUse(i, k) /\ ~(i = x /\ k = y) => BlockOf(i, k)' = BlockOf(i, k),
           \A u \in Threads : thread'[u].stage = "delete" =>
             thread'[u].freed <= FreeLen(inode_table'[thread'[u].inum])
    PROVE  BlockInv'
<1>0. 0 \in takenBlocks /\ BlockOf(x, y) # 0
  BY DEF BlockInv
<1>1. \A i \in FileInodes', k \in Keys :
        InUse(i, k)' => BlockOf(i, k)' \in takenBlocks' /\ BlockOf(i, k)' # 0
  BY DEF BlockInv
<1>2. \A c \in takenBlocks' : c # 0 =>
        \E i \in FileInodes', k \in Keys : InUse(i, k)' /\ BlockOf(i, k)' = c
  BY DEF BlockInv
<1>3. \A i, j \in FileInodes', k, l \in Keys :
        InUse(i, k)' /\ InUse(j, l)' /\ BlockOf(i, k)' = BlockOf(j, l)' => i = j /\ k = l
  BY DEF BlockInv
<1>4. 0 \in takenBlocks'
  BY <1>0
<1> QED
  BY <1>1, <1>2, <1>3, <1>4 DEF BlockInv, Shaped, FreeLen, Keys

\* The numbers of a file's indirect blocks lie in a block that is in use as long
\* as one of them is.
LEMMA IndirectInUse ==
    ASSUME TypeInv, NEW i \in Inumbers, NEW k \in Keys, InUse(i, k), k > DIRECT_BLOCK_COUNT
    PROVE  InUse(i, 0) /\ BlockOf(i, 0) = inode_table[i].indirect_data_block /\ 0 \in Keys
             /\ k # 0 /\ HasKey(inode_table[i], k)
             /\ BlockOf(i, k) = fs_data[inode_table[i].indirect_data_block][k - DIRECT_BLOCK_COUNT]
<1> DEFINE n == inode_table[i].blocksAlloc
           d == DIRECT_BLOCK_COUNT
<1>1. n \in Nat /\ d \in Nat /\ MAX_INODE_BLOCKS \in Nat /\ k \in Nat
  BY BlocksAssumption DEF TypeInv, InodeType, Keys
<1>2. k # 0 /\ 0 \in Keys
  BY <1>1 DEF Keys
<1>3. HasKey(inode_table[i], k) /\ Freed(i) < FreePos(inode_table[i], k)
  BY <1>2 DEF InUse
<1>4. k <= n /\ FreePos(inode_table[i], k) = k - d
  BY <1>1, <1>2, <1>3 DEF HasKey, FreePos
<1>5. HasKey(inode_table[i], 0) /\ FreePos(inode_table[i], 0) = n - d + 1
  BY <1>1, <1>4 DEF HasKey, FreePos
<1>6. ASSUME Freed(i) \in Int PROVE Freed(i) < FreePos(inode_table[i], 0)
  BY <1>1, <1>3, <1>4, <1>5, <1>6
<1>7. Freed(i) \in Int
  <2>1. CASE At({"delete"}, i) = {}
    BY <2>1 DEF Freed
  <2>2. CASE At({"delete"}, i) # {}
    <3>1. (CHOOSE u \in At({"delete"}, i) : TRUE) \in Threads
      BY <2>2 DEF At
    <3> QED
      BY <2>2, <3>1 DEF Freed, TypeInv, ThreadStates, ThreadType
  <2> QED
    BY <2>1, <2>2
<1>8. InUse(i, 0)
  BY <1>5, <1>6, <1>7 DEF InUse
<1>9. BlockOf(i, 0) = inode_table[i].indirect_data_block
      /\ BlockOf(i, k) = fs_data[inode_table[i].indirect_data_block][k - DIRECT_BLOCK_COUNT]
  BY <1>1, <1>2 DEF BlockOf, BlockAt
<1> QED
  BY <1>2, <1>3, <1>8, <1>9

\* The i-node of a file is as it was, its size apart, and so are the numbers in
\* its indirect block.
SameNode(i) ==
    /\ inode_table'[i].blocksAlloc = inode_table[i].blocksAlloc
    /\ inode_table'[i].i_data_block = inode_table[i].i_data_block
    /\ inode_table'[i].indirect_data_block = inode_table[i].indirect_data_block
    /\ \A k \in Keys : (/\ InUse(i, k) /\ k > DIRECT_BLOCK_COUNT)
         => fs_data'[inode_table[i].indirect_data_block][k - DIRECT_BLOCK_COUNT]
              = fs_data[inode_table[i].indirect_data_block][k - DIRECT_BLOCK_COUNT]

\* Such a file has the blocks it had.
LEMMA SameFile ==
    ASSUME NEW i, SameNode(i), Freed(i)' = Freed(i), At(Between, i)' = At(Between, i)
    PROVE  /\ \A k \in Keys : /\ InUse(i, k)' <=> InUse(i, k)
                              /\ InUse(i, k) => BlockOf(i, k)' = BlockOf(i, k)
           /\ FreeLen(inode_table'[i]) = FreeLen(inode_table[i])
           /\ Shaped(inode_table[i]) => Shaped(inode_table'[i])
<1>1. \A k : HasKey(inode_table[i], k)' <=> HasKey(inode_table[i], k)
  BY DEF HasKey, SameNode
<1>2. \A k : FreePos(inode_table[i], k)' = FreePos(inode_table[i], k)
  BY DEF FreePos, SameNode
<1>3. \A k : InUse(i, k)' <=> InUse(i, k)
  BY <1>1, <1>2 DEF InUse
<1>4. ASSUME NEW k \in Keys, InUse(i, k) PROVE BlockOf(i, k)' = BlockOf(i, k)
  <2>1. CASE k = 0
    BY <2>1 DEF BlockOf, BlockAt, SameNode
  <2>2. CASE k # 0 /\ k <= DIRECT_BLOCK_COUNT
    BY <2>2 DEF BlockOf, BlockAt, SameNode
  <2>3. CASE k # 0 /\ ~(k <= DIRECT_BLOCK_COUNT)
    <3>1. k > DIRECT_BLOCK_COUNT
      BY <2>3, BlocksAssumption DEF Keys
    <3>2. /\ BlockOf(i, k) = fs_data[inode_table[i].indirect_data_block][k - DIRECT_BLOCK_COUNT]
          /\ BlockOf(i, k)' = fs_data'[inode_table'[i].indirect_data_block][k - DIRECT_BLOCK_COUNT]
      BY <2>3 DEF BlockOf, BlockAt
    <3> QED
      BY <1>4, <3>1, <3>2 DEF SameNode
  <2> QED
    BY <2>1, <2>2, <2>3
<1> QED
  BY <1>3, <1>4 DEF FreeLen, Shaped, SameNode

\* No other thread writes to or truncates the file.
NoOther(t, x) == \A u \in Threads \ {t} : ~HoldsWrite(thread[u], x)

\* Then what happens to the file is up to one thread.
LEMMA OwnRolesNow ==
    ASSUME NEW t \in Threads, NEW x, NoOther(t, x)
    PROVE  /\ Freed(x) = IF Deletes(thread[t], x) THEN thread[t].freed ELSE 0
           /\ At(Between, x) # {} <=> Waiting(thread[t], x)
<1>1. \A u \in Threads \ {t} : ~Deletes(thread[u], x) /\ ~Waiting(thread[u], x)
  BY DEF NoOther, HoldsWrite, Deletes, Waiting, Between, Writing
<1>2. At({"delete"}, x) = IF Deletes(thread[t], x) THEN {t} ELSE {}
  BY <1>1 DEF At, Deletes
<1>3. At(Between, x) = IF Waiting(thread[t], x) THEN {t} ELSE {}
  BY <1>1 DEF At, Waiting
<1> QED
  BY <1>2, <1>3 DEF Freed

\* The same before and after a step of that thread.
LEMMA OwnRoles ==
    ASSUME NEW t \in Threads, \A u \in Threads \ {t} : thread'[u] = thread[u],
           NEW x, NoOther(t, x)
    PROVE  /\ Freed(x) = IF Deletes(thread[t], x) THEN thread[t].freed ELSE 0
           /\ At(Between, x) # {} <=> Waiting(thread[t], x)
           /\ Freed(x)' = IF Deletes(thread'[t], x) THEN thread'[t].freed ELSE 0
           /\ At(Between, x)' # {} <=> Waiting(thread'[t], x)
<1>1. \A u \in Threads \ {t} : ~Deletes(thread[u], x) /\ ~Waiting(thread[u], x)
  BY DEF NoOther, HoldsWrite, Deletes, Waiting, Between, Writing
<1>2. At({"delete"}, x) = IF Deletes(thread[t], x) THEN {t} ELSE {}
  BY <1>1 DEF At, Deletes
<1>3. At({"delete"}, x)' = IF Deletes(thread'[t], x) THEN {t} ELSE {}
  BY <1>1 DEF At, Deletes
<1>4. At(Between, x) = IF Waiting(thread[t], x) THEN {t} ELSE {}
  BY <1>1 DEF At, Waiting
<1>5. At(Between, x)' = IF Waiting(thread'[t], x) THEN {t} ELSE {}
  BY <1>1 DEF At, Waiting, Between
<1>6. Freed(x) = IF Deletes(thread[t], x) THEN thread[t].freed ELSE 0
  BY <1>2 DEF Freed
<1>7. Freed(x)' = IF Deletes(thread'[t], x) THEN thread'[t].freed ELSE 0
  BY <1>3 DEF Freed
<1> QED
  BY <1>4, <1>5, <1>6, <1>7

\* A thread that has the lock of a file is the only one.
LEMMA NoOtherWriter ==
    ASSUME LockInv, NEW t \in Threads, NEW x \in Inumbers, HoldsWrite(thread[t], x)
    PROVE  NoOther(t, x)
BY OneWriter DEF NoOther

\* A step of a thread on its file leaves the blocks of other files alone.
LEMMA OwnFile ==
    ASSUME TypeInv, FileInv, BlockInv, NEW t \in Threads,
           \A u \in Threads \ {t} : thread'[u] = thread[u],
           NEW x, NoOther(t, x),
           \A i \in FileInodes \ {x} :
             /\ Deletes(thread'[t], i) <=> Deletes(thread[t], i)
             /\ Deletes(thread[t], i) => thread'[t].freed = thread[t].freed
             /\ Waiting(thread'[t], i) <=> Waiting(thread[t], i)
             /\ SameNode(i)
    PROVE  /\ \A i \in FileInodes \ {x}, k \in Keys :
                /\ InUse(i, k)' <=> InUse(i, k)
                /\ InUse(i, k) => BlockOf(i, k)' = BlockOf(i, k)
           /\ \A i \in FileInodes \ {x} : Shaped(inode_table'[i])
           /\ \A u \in Threads \ {t} : thread'[u].stage = "delete" =>
                thread'[u].freed <= FreeLen(inode_table'[thread'[u].inum])
<1>1. ASSUME NEW i \in FileInodes \ {x}
      PROVE  /\ \A k \in Keys : /\ InUse(i, k)' <=> InUse(i, k)
                                /\ InUse(i, k) => BlockOf(i, k)' = BlockOf(i, k)
             /\ FreeLen(inode_table'[i]) = FreeLen(inode_table[i])
             /\ Shaped(inode_table'[i])
  <2>1. Freed(i)' = Freed(i) /\ At(Between, i)' = At(Between, i)
    BY RolesKept
  <2>2. SameNode(i) /\ Shaped(inode_table[i])
    BY DEF BlockInv
  <2> QED
    BY <2>1, <2>2, SameFile
<1>2. ASSUME NEW u \in Threads \ {t}, thread'[u].stage = "delete"
      PROVE  thread'[u].freed <= FreeLen(inode_table'[thread'[u].inum])
  <2>1. thread'[u] = thread[u] /\ thread[u].inum \in FileInodes
    BY <1>2 DEF FileInv, FileStages
  <2>2. thread[u].inum # x
    BY <1>2, <2>1 DEF NoOther, HoldsWrite
  <2>3. thread[u].freed <= FreeLen(inode_table[thread[u].inum])
    BY <1>2, <2>1 DEF BlockInv
  <2>4. FreeLen(inode_table'[thread[u].inum]) = FreeLen(inode_table[thread[u].inum])
    BY <1>1, <2>1, <2>2
  <2> QED
    BY <2>1, <2>3, <2>4
<1> QED
  BY <1>1, <1>2

\* A step that neither frees nor takes blocks, of a thread that does not start
\* or stop doing so.
LEMMA BlocksRest ==
    ASSUME TypeInv, FileInv, BlockInv, NEW t \in Threads,
           \A u \in Threads \ {t} : thread'[u] = thread[u],
           \A i \in FileInodes :
             /\ Deletes(thread'[t], i) <=> Deletes(thread[t], i)
             /\ Deletes(thread[t], i) => thread'[t].freed = thread[t].freed
             /\ Waiting(thread'[t], i) <=> Waiting(thread[t], i)
             /\ SameNode(i),
           thread'[t].stage = "delete" =>
             thread[t].stage = "delete" /\ thread'[t].inum = thread[t].inum,
           takenBlocks' = takenBlocks, UNCHANGED directory
    PROVE  BlockInv'
<1>1. FileInodes' = FileInodes
  BY DEF FileInodes, directory
<1>2. ASSUME NEW i \in FileInodes
      PROVE  /\ \A k \in Keys : /\ InUse(i, k)' <=> InUse(i, k)
                                /\ InUse(i, k) => BlockOf(i, k)' = BlockOf(i, k)
             /\ FreeLen(inode_table'[i]) = FreeLen(inode_table[i])
             /\ Shaped(inode_table'[i])
  <2>1. Freed(i)' = Freed(i) /\ At(Between, i)' = At(Between, i)
    BY RolesKept
  <2>2. SameNode(i) /\ Shaped(inode_table[i])
    BY DEF BlockInv
  <2> QED
    BY <2>1, <2>2, SameFile
<1>3. ASSUME NEW u \in Threads, thread'[u].stage = "delete"
      PROVE  thread'[u].freed <= FreeLen(inode_table'[thread'[u].inum])
  <2>1. thread[u].stage = "delete" /\ thread'[u].inum = thread[u].inum
    BY <1>3
  <2>2. thread[u].inum \in FileInodes
    BY <2>1 DEF FileInv, FileStages
  <2>3. thread'[u].freed = thread[u].freed
    BY <1>3, <2>1, <2>2 DEF Deletes
  <2>4. thread[u].freed <= FreeLen(inode_table[thread[u].inum])
    BY <2>1 DEF BlockInv
  <2> QED
    BY <1>2, <2>1, <2>2, <2>3, <2>4
<1> QED
  BY <1>1, <1>2, <1>3, BlocksSame

\* The same of a thread that neither frees nor takes blocks before or after.
LEMMA BlocksQuiet ==
    ASSUME TypeInv, FileInv, BlockInv, NEW t \in Threads,
           \A u \in Threads \ {t} : thread'[u] = thread[u],
           thread[t].stage \notin Between \cup {"delete"},
           thread'[t].stage \notin Between \cup {"delete"},
           UNCHANGED <<inode_table, directory, disk>>
    PROVE  BlockInv'
<1>1. takenBlocks' = takenBlocks /\ UNCHANGED directory /\ \A i : SameNode(i)
  BY DEF disk, SameNode
<1>2. \A i : ~Deletes(thread[t], i) /\ ~Deletes(thread'[t], i)
             /\ ~Waiting(thread[t], i) /\ ~Waiting(thread'[t], i)
  BY DEF Deletes, Waiting
<1> QED
  BY <1>1, <1>2, BlocksRest

\* Stages at which a thread neither takes nor frees blocks.
Calm(me) == me.stage \notin Between \cup {"delete"}

\* A call or a copy looks its handle up.
LEMMA FindsCalm ==
    ASSUME TypeInv, NEW t \in Threads, NEW me \in ThreadStates, Finds(t, me)
    PROVE  Calm(thread'[t]) /\ \A u \in Threads \ {t} : thread'[u] = thread[u]
<1>1. CASE thread' = [thread EXCEPT ![t] = [me EXCEPT !.inum = open_file_table[me.h].of_inumber,
                        !.stage = IF me.op = "write" THEN "lock" ELSE "check"]]
  <2>1. thread'[t].stage \in {"lock", "check"} /\ \A u \in Threads \ {t} : thread'[u] = thread[u]
    BY <1>1 DEF TypeInv, ThreadStates, ThreadType
  <2> QED
    BY <2>1 DEF Calm, Between
<1>2. CASE Ends(t)
  BY <1>2, StepFields DEF Calm, Between, Idle
<1> QED
  BY <1>1, <1>2 DEF Finds

\* A call of tfs_open.
LEMMA OpenCalm ==
    ASSUME TypeInv, NamesInv, NEW t \in Threads, NEW n \in Names,
           NEW flags \in SUBSET {"TFS_O_CREAT", "TFS_O_TRUNC", "TFS_O_APPEND"},
           NEW op \in {"open", "copy"}, CallOpen(t, n, flags, op)
    PROVE  Calm(thread'[t]) /\ \A u \in Threads \ {t} : thread'[u] = thread[u]
<1> DEFINE i == find_in_dir(n)
           me == [Idle EXCEPT !.op = op, !.name = n, !.flags = flags]
<1>1. me \in ThreadStates /\ me.stage = "idle"
  BY Zeros DEF ThreadStates, ThreadType, Idle, StageOK, Opening, WithHandle, Writing
<1> HIDE DEF me
<1>2. CASE i >= 0 /\ thread' = [thread EXCEPT ![t] = Found(me, i)]
  <2>1. i \in Inumbers
    BY <1>2, LookupsFile DEF FileInodes, TypeInv
  <2> HIDE DEF i
  <2>2. thread'[t] = Found(me, i) /\ \A u \in Threads \ {t} : thread'[u] = thread[u]
    BY <1>2 DEF TypeInv
  <2>3. thread'[t].stage \in {"truncate", "append", "add"}
    BY <1>1, <2>1, <2>2, FoundFields
  <2> QED
    BY <2>2, <2>3 DEF Calm, Between
<1>3. CASE thread' = [thread EXCEPT ![t] = [me EXCEPT !.stage = "create"]]
  <2>1. thread'[t].stage = "create" /\ \A u \in Threads \ {t} : thread'[u] = thread[u]
    BY <1>1, <1>3 DEF TypeInv, ThreadStates, ThreadType
  <2> QED
    BY <2>1 DEF Calm, Between
<1>4. CASE thread' = thread /\ thread[t] = Idle
  BY <1>4 DEF Calm, Between, Idle
<1> QED
  BY <1>2, <1>3, <1>4 DEF CallOpen, me

\* A call begins.
LEMMA CallsCalm ==
    ASSUME Inv, NEW t \in Threads, Calls(t)
    PROVE  /\ Calm(thread[t]) /\ Calm(thread'[t]) /\ \A u \in Threads \ {t} : thread'[u] = thread[u]
           /\ UNCHANGED <<inode_table, directory, disk>>
<1>0. TypeInv /\ NamesInv
  BY DEF Inv
<1>2. Calm(Idle)
  BY DEF Calm, Idle, Between
<1>3. ASSUME NEW n \in Names, NEW flags \in SUBSET {"TFS_O_CREAT", "TFS_O_TRUNC", "TFS_O_APPEND"},
             NEW op \in {"open", "copy"}, CallOpen(t, n, flags, op)
      PROVE  /\ Calm(thread[t]) /\ Calm(thread'[t]) /\ \A u \in Threads \ {t} : thread'[u] = thread[u]
             /\ UNCHANGED <<inode_table, directory, disk>>
  <2>1. thread[t] = Idle /\ UNCHANGED store
    BY <1>3 DEF CallOpen
  <2> QED
    BY <1>0, <1>2, <1>3, <2>1, OpenCalm DEF store
<1>4. FlagSets \subseteq SUBSET {"TFS_O_CREAT", "TFS_O_TRUNC", "TFS_O_APPEND"} /\ Sources \subseteq Names
  BY BlocksAssumption
<1>5. ASSUME NEW h \in Handles, CallClose(t, h)
      PROVE  /\ Calm(thread[t]) /\ Calm(thread'[t]) /\ \A u \in Threads \ {t} : thread'[u] = thread[u]
             /\ UNCHANGED <<inode_table, directory, disk>>
  BY <1>2, <1>5 DEF CallClose, Close
<1>6. ASSUME NEW h \in Handles, NEW buf \in Contents, CallWrite(t, h, buf)
      PROVE  /\ Calm(thread[t]) /\ Calm(thread'[t]) /\ \A u \in Threads \ {t} : thread'[u] = thread[u]
             /\ UNCHANGED <<inode_table, directory, disk>>
  <2> DEFINE me == [Idle EXCEPT !.op = "write", !.h = h, !.buf = buf]
  <2>1. buf \in Seq(Nat)
    BY BlocksAssumption
  <2>2. me \in ThreadType /\ me.op = "write" /\ me.h = h /\ me.stage = "idle" /\ me.freed = 0
        /\ me.inum = ROOT_DIR_INUM
    BY <2>1, Zeros DEF ThreadStates, ThreadType, Idle
  <2>3. Finds(t, me) /\ thread[t] = Idle
    BY <1>6 DEF CallWrite
  <2> HIDE DEF me
  <2>4. me \in ThreadStates
    BY <2>2 DEF ThreadStates, StageOK, Opening, WithHandle, Writing
  <2>5. UNCHANGED store
    BY <2>3 DEF Finds
  <2> QED
    BY <1>0, <1>2, <2>3, <2>4, <2>5, FindsCalm DEF store
<1>7. ASSUME NEW h \in Handles, NEW len \in Lengths, CallRead(t, h, len)
      PROVE  /\ Calm(thread[t]) /\ Calm(thread'[t]) /\ \A u \in Threads \ {t} : thread'[u] = thread[u]
             /\ UNCHANGED <<inode_table, directory, disk>>
  <2> DEFINE me == [Idle EXCEPT !.op = "read", !.h = h, !.len = len]
  <2>1. len \in Nat
    BY BlocksAssumption
  <2>2. me \in ThreadType /\ me.op = "read" /\ me.h = h /\ me.stage = "idle" /\ me.freed = 0
        /\ me.inum = ROOT_DIR_INUM
    BY <2>1, Zeros DEF ThreadStates, ThreadType, Idle
  <2>3. Finds(t, me) /\ thread[t] = Idle
    BY <1>7 DEF CallRead
  <2> HIDE DEF me
  <2>4. me \in ThreadStates
    BY <2>2 DEF ThreadStates, StageOK, Opening, WithHandle, Writing
  <2>5. UNCHANGED store
    BY <2>3 DEF Finds
  <2> QED
    BY <1>0, <1>2, <2>3, <2>4, <2>5, FindsCalm DEF store
<1> QED
  BY <1>3, <1>4, <1>5, <1>6, <1>7 DEF Calls

\* It leaves the blocks as they are.
LEMMA BlocksCalls ==
    ASSUME Inv, FileInv, BlockInv, NEW t \in Threads, Calls(t)
    PROVE  BlockInv'
BY CallsCalm, BlocksQuiet DEF Inv, Calm

\* A step that changes no file.
LEMMA StepsCalm ==
    ASSUME Inv, NEW t \in Threads,
           \/ Positions(t) \/ TakesEntry(t) \/ FillsEntry(t) \/ CopyCloses(t) \/ CopyReads(t)
           \/ LocksToWrite(t) \/ LocksEntryToWrite(t) \/ ChecksAppend(t) \/ LocksToRead(t)
           \/ Reads(t)
    PROVE  /\ Calm(thread[t]) /\ Calm(thread'[t]) /\ \A u \in Threads \ {t} : thread'[u] = thread[u]
           /\ UNCHANGED <<inode_table, directory, disk>>
<1>0. TypeInv /\ NamesInv /\ thread[t] \in ThreadStates
  BY DEF Inv, TypeInv
<1>1. UNCHANGED <<inode_table, directory, disk>>
  BY DEF Positions, TakesEntry, FillsEntry, CopyCloses, Close, CopyReads, Finds, LocksToWrite,
         LocksEntryToWrite, ChecksAppend, LocksToRead, Reads, store
<1>2. Calm(thread[t])
  BY DEF Calm, Between, Positions, TakesEntry, FillsEntry, CopyCloses, CopyReads, LocksToWrite,
         LocksEntryToWrite, ChecksAppend, LocksToRead, Reads
<1>3. SUFFICES Calm(thread'[t]) /\ \A u \in Threads \ {t} : thread'[u] = thread[u]
  BY <1>1, <1>2
<1>4. CASE Positions(t)
  BY <1>0, <1>4 DEF Positions, TypeInv, ThreadStates, ThreadType, Calm, Between
<1>5. CASE TakesEntry(t) /\ ~Ends(t)
  BY <1>0, <1>5 DEF TakesEntry, TypeInv, ThreadStates, ThreadType, Calm, Between
<1>6. CASE CopyReads(t)
  BY <1>0, <1>6, FindsCalm DEF CopyReads
<1>7. CASE \E s \in {"entry", "alloc", "lock"} : Stays(t, s)
  BY <1>0, <1>7, StepFields DEF Calm, Between
<1>8. CASE Ends(t)
  BY <1>0, <1>8, StepFields DEF Calm, Between, Idle
<1>9. CASE \E v : AfterRead(t, v)
  BY <1>0, <1>9, StepFields DEF Calm, Between
<1>10. CASE FillsEntry(t) /\ ~Ends(t)
  <2>1. PICK stage \in {"find", "close"} : thread' = [thread EXCEPT ![t] =
                 [Idle EXCEPT !.stage = stage, !.op = "copy", !.h = thread[t].h,
                              !.len = IF stage = "find" THEN BUFFER_SIZE ELSE 0]]
    BY <1>10 DEF FillsEntry
  <2>2. thread'[t].stage \in {"find", "close"} /\ \A u \in Threads \ {t} : thread'[u] = thread[u]
    BY <1>0, <2>1 DEF Idle, TypeInv
  <2> QED
    BY <2>2 DEF Calm, Between
<1> QED
  BY <1>4, <1>5, <1>6, <1>7, <1>8, <1>9, <1>10
  DEF CopyCloses, LocksToWrite, LocksEntryToWrite, ChecksAppend, LocksToRead, Reads

\* It leaves the blocks as they are.
LEMMA BlocksIdle ==
    ASSUME Inv, FileInv, BlockInv, NEW t \in Threads,
           \/ Positions(t) \/ TakesEntry(t) \/ FillsEntry(t) \/ CopyCloses(t) \/ CopyReads(t)
           \/ LocksToWrite(t) \/ LocksEntryToWrite(t) \/ ChecksAppend(t) \/ LocksToRead(t)
           \/ Reads(t)
    PROVE  BlockInv'
BY StepsCalm, BlocksQuiet DEF Inv, Calm

\* A file that is to be truncated is locked; none of its blocks is freed yet.
LEMMA BlocksLocked ==
    ASSUME Inv, FileInv, BlockInv, NEW t \in Threads, LocksToTruncate(t)
    PROVE  BlockInv'
<1>a. PICK x : x = thread[t].inum
  OBVIOUS
<1>0. /\ TypeInv /\ LockInv /\ thread[t] \in ThreadStates /\ thread[t].stage = "truncate"
      /\ CanWriteLock(x) /\ UNCHANGED store /\ x \in FileInodes /\ thread[t].freed = 0
  BY <1>a DEF Inv, TypeInv, LocksToTruncate, FileInv, FileStages, ThreadStates, StageOK
<1>1. /\ UNCHANGED <<inode_table, directory, disk>> /\ takenBlocks' = takenBlocks
      /\ FileInodes' = FileInodes /\ inode_table' = inode_table /\ \A i : SameNode(i)
  BY <1>0 DEF store, disk, directory, FileInodes, SameNode
<1>2. CASE thread' = [thread EXCEPT ![t] = Emptied(@)]
  <2>1. thread'[t].stage \in {"append", "add"} /\ \A u \in Threads \ {t} : thread'[u] = thread[u]
    BY <1>0, <1>2 DEF Emptied, TypeInv, ThreadStates, ThreadType
  <2> QED
    BY <1>0, <1>1, <2>1, BlocksQuiet DEF Between
<1>3. CASE Stays(t, "delete")
  <2>1. /\ thread'[t].stage = "delete" /\ thread'[t].inum = x /\ thread'[t].freed = 0
        /\ \A u \in Threads \ {t} : thread'[u] = thread[u]
    BY <1>0, <1>a, <1>3, StepFields
  <2>2. NoOther(t, x)
    <3>1. x \in Inumbers /\ rwlock[x].writer = NoThread /\ NoThread \notin Threads
      BY <1>0, BlocksAssumption DEF CanWriteLock, NewLock, FileInodes, TypeInv
    <3> QED
      BY <1>0, <3>1 DEF LockInv, NoOther
  <2>3. \A i : /\ ~Deletes(thread[t], i) /\ ~Waiting(thread[t], i) /\ ~Waiting(thread'[t], i)
               /\ Deletes(thread'[t], i) => i = x
    BY <1>0, <1>a, <2>1 DEF Deletes, Waiting, Between
  <2>4. ASSUME NEW i \in FileInodes
        PROVE  Freed(i)' = Freed(i) /\ At(Between, i)' = At(Between, i)
    <3>1. CASE i = x
      BY <2>1, <2>2, <2>3, <3>1, OwnRoles
    <3>2. CASE i # x
      BY <2>1, <2>3, <3>2, RolesKept
    <3> QED
      BY <3>1, <3>2
  <2>5. ASSUME NEW i \in FileInodes
        PROVE  /\ \A k \in Keys : /\ InUse(i, k)' <=> InUse(i, k)
                                  /\ InUse(i, k) => BlockOf(i, k)' = BlockOf(i, k)
               /\ Shaped(inode_table'[i])
    <3>1. Shaped(inode_table[i])
      BY DEF BlockInv
    <3> QED
      BY <1>1, <2>4, <3>1, SameFile
  <2>6. ASSUME NEW u \in Threads, thread'[u].stage = "delete"
        PROVE  thread'[u].freed <= FreeLen(inode_table'[thread'[u].inum])
    <3>1. CASE u = t
      <4>1. inode_table[x] \in InodeType
        BY <1>0 DEF TypeInv, FileInodes
      <4>2. FreeLen(inode_table[x]) \in Nat
        BY <4>1, FreePositions
      <4> QED
        BY <1>1, <2>1, <3>1, <4>2
    <3>2. CASE u # t
      BY <1>1, <2>1, <2>6, <3>2 DEF BlockInv
    <3> QED
      BY <3>1, <3>2
  <2> QED
    BY <1>1, <2>5, <2>6, BlocksSame
<1> QED
  BY <1>2, <1>3 DEF LocksToTruncate

\* A new file has no blocks.
LEMMA NewHasNone ==
    /\ \A k : ~HasKey(NewInode, k)
    /\ FreeLen(NewInode) = 0
    /\ Shaped(NewInode)
<1>1. NewInode.blocksAlloc = 0 /\ NewInode.i_data_block = <<>> /\ DIRECT_BLOCK_COUNT \in Nat
  BY BlocksAssumption DEF NewInode
<1> QED
  BY <1>1 DEF HasKey, FreeLen, Shaped, Least

\* When all blocks of a file are freed it has none.
LEMMA BlocksTruncated ==
    ASSUME Inv, FileInv, BlockInv, NEW t \in Threads, Truncates(t)
    PROVE  BlockInv'
<1>a. PICK x : x = thread[t].inum
  OBVIOUS
<1> DEFINE node == inode_table[x]
<1>0. /\ TypeInv /\ LockInv /\ thread[t] \in ThreadStates /\ thread[t].stage = "delete"
      /\ x \in FileInodes /\ x \in Inumbers
      /\ UNCHANGED <<directory, disk>> /\ inode_table' = [inode_table EXCEPT ![x] = NewInode]
      /\ thread[t].freed = Len(FreeOrder(node))
  BY <1>a DEF Inv, TypeInv, Truncates, FileInv, FileStages, FileInodes
<1>1. /\ takenBlocks' = takenBlocks /\ fs_data' = fs_data /\ FileInodes' = FileInodes
      /\ inode_table'[x] = NewInode /\ \A i \in Inumbers \ {x} : inode_table'[i] = inode_table[i]
      /\ node \in InodeType /\ Shaped(node)
  BY <1>0 DEF disk, directory, FileInodes, TypeInv, BlockInv
<1>2. thread'[t].stage \in {"append", "add"} /\ \A u \in Threads \ {t} : thread'[u] = thread[u]
  BY <1>0 DEF Truncates, Emptied, TypeInv, ThreadStates, ThreadType
<1>3. NoOther(t, x)
  <2>1. HoldsWrite(thread[t], x)
    BY <1>0, <1>a DEF HoldsWrite
  <2> QED
    BY <1>0, <2>1, NoOtherWriter
<1>4. \A i : /\ ~Deletes(thread'[t], i) /\ ~Waiting(thread[t], i) /\ ~Waiting(thread'[t], i)
             /\ Deletes(thread[t], i) <=> i = x
  BY <1>0, <1>a, <1>2 DEF Deletes, Waiting, Between
<1>5. \A k \in Keys : ~InUse(x, k)
  <2>1. thread[t].freed = FreeLen(node)
    BY <1>0, <1>1, FreeOrderIs
  <2>2. Freed(x) = FreeLen(node) /\ At(Between, x) = {}
    BY <1>2, <1>3, <1>4, <2>1, OwnRoles
  <2>3. ASSUME NEW k, HasKey(node, k) PROVE ~(Freed(x) < FreePos(node, k))
    <3>1. FreePos(node, k) \in 1 .. FreeLen(node) /\ FreeLen(node) \in Nat
      BY <1>1, <2>3, FreePositions
    <3> QED
      BY <2>2, <3>1
  <2> QED
    BY <2>2, <2>3 DEF InUse
<1>6. \A k \in Keys : ~InUse(x, k)'
  <2>1. At(Between, x)' = {}
    BY <1>2, <1>3, <1>4, OwnRoles
  <2> QED
    BY <1>1, <2>1, NewHasNone DEF InUse
<1>7. \A i \in FileInodes \ {x} : SameNode(i)
  BY <1>0, <1>1 DEF SameNode, FileInodes, TypeInv
<1> HIDE DEF node
<1>8. /\ \A i \in FileInodes \ {x}, k \in Keys :
           /\ InUse(i, k)' <=> InUse(i, k)
           /\ InUse(i, k) => BlockOf(i, k)' = BlockOf(i, k)
      /\ \A i \in FileInodes \ {x} : Shaped(inode_table'[i])
      /\ \A u \in Threads \ {t} : thread'[u].stage = "delete" =>
           thread'[u].freed <= FreeLen(inode_table'[thread'[u].inum])
  BY <1>0, <1>2, <1>3, <1>4, <1>7, OwnFile
<1>9. \A i \in FileInodes : Shaped(inode_table'[i])
  BY <1>1, <1>8, NewHasNone
<1>10. \A i \in FileInodes, k \in Keys :
         /\ InUse(i, k)' <=> InUse(i, k)
         /\ InUse(i, k) => BlockOf(i, k)' = BlockOf(i, k)
  BY <1>5, <1>6, <1>8
<1>11. \A u \in Threads : thread'[u].stage = "delete" =>
         thread'[u].freed <= FreeLen(inode_table'[thread'[u].inum])
  BY <1>2, <1>8
<1> QED
  BY <1>1, <1>9, <1>10, <1>11, BlocksSame

\* A block is freed: that at the place it is the turn of.
LEMMA BlocksFreed ==
    ASSUME Inv, FileInv, BlockInv, NEW t \in Threads, FreesBlock(t)
    PROVE  BlockInv'
<1>a. PICK x : x = thread[t].inum
  OBVIOUS
<1> DEFINE node == inode_table[x]
           f == thread[t].freed
<1>0. /\ TypeInv /\ LockInv /\ thread[t] \in ThreadStates /\ thread[t].stage = "delete"
      /\ x \in FileInodes /\ x \in Inumbers /\ f \in Nat
      /\ UNCHANGED <<inode_table, directory, fs_data>> /\ inode_table' = inode_table
      /\ f + 1 <= Len(FreeOrder(node))
      /\ takenBlocks' = takenBlocks \ {FreeOrder(node)[f + 1]}
  BY <1>a DEF Inv, TypeInv, FreesBlock, FileInv, FileStages, FileInodes, ThreadStates, ThreadType
<1>1. /\ FileInodes' = FileInodes /\ fs_data' = fs_data /\ \A i : SameNode(i)
      /\ node \in InodeType /\ Shaped(node)
  BY <1>0 DEF directory, FileInodes, TypeInv, BlockInv, SameNode
<1>2. /\ thread'[t].stage = "delete" /\ thread'[t].inum = x /\ thread'[t].freed = f + 1
      /\ \A u \in Threads \ {t} : thread'[u] = thread[u]
  BY <1>0, <1>a DEF FreesBlock, TypeInv, ThreadStates, ThreadType
<1>3. NoOther(t, x)
  <2>1. HoldsWrite(thread[t], x)
    BY <1>0, <1>a DEF HoldsWrite
  <2> QED
    BY <1>0, <2>1, NoOtherWriter
<1>4. \A i : /\ ~Waiting(thread[t], i) /\ ~Waiting(thread'[t], i)
             /\ Deletes(thread[t], i) <=> i = x
             /\ Deletes(thread'[t], i) <=> i = x
  BY <1>0, <1>a, <1>2 DEF Deletes, Waiting, Between
<1>5. Freed(x) = f /\ Freed(x)' = f + 1 /\ At(Between, x) = {} /\ At(Between, x)' = {}
  BY <1>2, <1>3, <1>4, OwnRoles
<1>6. FreeLen(node) \in Nat /\ f + 1 \in 1 .. FreeLen(node)
  <2>1. Len(FreeOrder(node)) = FreeLen(node)
    BY <1>0, <1>1, FreeOrderIs
  <2>2. FreeLen(node) \in Nat
    BY <1>1, FreePositions
  <2> QED
    BY <1>0, <2>1, <2>2
<1>7. PICK y : HasKey(node, y) /\ FreePos(node, y) = f + 1
  BY <1>1, <1>6, FreePositions
<1>8. y \in Keys /\ FreeOrder(node)[f + 1] = BlockOf(x, y)
  <2>1. y \in Keys
    BY <1>1, <1>7, FreePositions
  <2>2. FreeOrder(node)[f + 1] = BlockAt(node, fs_data, y)
    BY <1>0, <1>1, <1>7, FreeOrderIs
  <2> QED
    BY <2>1, <2>2 DEF BlockOf
<1>9. InUse(x, y)
  BY <1>0, <1>5, <1>7 DEF InUse
<1>10. \A k \in Keys : InUse(x, k)' <=> (InUse(x, k) /\ k # y)
  <2>1. \A k : InUse(x, k) <=> (HasKey(node, k) /\ f < FreePos(node, k))
    BY <1>5 DEF InUse
  <2>2. \A k : InUse(x, k)' <=> (HasKey(node, k) /\ f + 1 < FreePos(node, k))
    BY <1>0, <1>5 DEF InUse
  <2>3. ASSUME NEW k, HasKey(node, k)
        PROVE  f + 1 < FreePos(node, k) <=> (f < FreePos(node, k) /\ k # y)
    <3>1. FreePos(node, k) \in 1 .. FreeLen(node)
      BY <1>1, <2>3, FreePositions
    <3>2. FreePos(node, k) = f + 1 <=> k = y
      BY <1>1, <1>7, <2>3, FreePositions
    <3> QED
      BY <1>0, <1>6, <3>1, <3>2
  <2> QED
    BY <2>1, <2>2, <2>3
<1>11. \A k \in Keys : BlockOf(x, k)' = BlockOf(x, k)
  BY <1>0, <1>1 DEF BlockOf, BlockAt
<1> HIDE DEF node, f
<1>12. /\ \A i \in FileInodes \ {x}, k \in Keys :
            /\ InUse(i, k)' <=> InUse(i, k)
            /\ InUse(i, k) => BlockOf(i, k)' = BlockOf(i, k)
       /\ \A i \in FileInodes \ {x} : Shaped(inode_table'[i])
       /\ \A u \in Threads \ {t} : thread'[u].stage = "delete" =>
            thread'[u].freed <= FreeLen(inode_table'[thread'[u].inum])
  BY <1>0, <1>1, <1>2, <1>3, <1>4, OwnFile
<1>13. \A i \in FileInodes : Shaped(inode_table'[i])
  BY <1>0 DEF BlockInv
<1>14. \A i \in FileInodes, k \in Keys :
         /\ InUse(i, k)' <=> (InUse(i, k) /\ ~(i = x /\ k = y))
         /\ InUse(i, k) /\ ~(i = x /\ k = y) => BlockOf(i, k)' = BlockOf(i, k)
  BY <1>10, <1>11, <1>12
<1>15. \A u \in Threads : thread'[u].stage = "delete" =>
         thread'[u].freed <= FreeLen(inode_table'[thread'[u].inum])
  <2>1. f + 1 <= FreeLen(node)
    BY <1>0, <1>6
  <2> QED
    BY <1>0, <1>2, <1>12, <2>1 DEF node
<1> QED
  BY <1>0, <1>1, <1>8, <1>9, <1>13, <1>14, <1>15, BlocksMinus

\* A file is created; no thread knows it yet.
LEMMA BlocksCreated ==
    ASSUME Inv, FileInv, BlockInv, NEW t \in Threads, Creates(t)
    PROVE  BlockInv'
<1> DEFINE me == thread[t]
           i == find_in_dir(me.name)
           free == Inumbers \ takenInodes
<1>0. /\ TypeInv /\ LockInv /\ NamesInv /\ me \in ThreadStates /\ me.stage = "create"
      /\ UNCHANGED disk
  BY DEF Inv, Creates, TypeInv
<1>1. Calm(thread[t])
  BY <1>0 DEF Calm, Between
<1>2. CASE i >= 0 /\ thread' = [thread EXCEPT ![t] = Found(@, i)] /\ UNCHANGED <<inode_table, directory>>
  <2>1. i \in Inumbers
    BY <1>0, <1>2, LookupsFile DEF FileInodes, TypeInv
  <2>2. thread' = [thread EXCEPT ![t] = Found(me, i)]
    BY <1>2
  <2> HIDE DEF i
  <2>3. thread'[t] = Found(me, i) /\ \A u \in Threads \ {t} : thread'[u] = thread[u]
    BY <1>0, <2>2 DEF TypeInv
  <2>4. thread'[t].stage \in {"truncate", "append", "add"}
    BY <1>0, <2>1, <2>3, FoundFields
  <2> QED
    BY <1>0, <1>1, <1>2, <2>3, <2>4, BlocksQuiet DEF Calm, Between
<1>3. CASE Ends(t) /\ UNCHANGED <<inode_table, directory>>
  <2>1. thread'[t].stage = "idle" /\ \A u \in Threads \ {t} : thread'[u] = thread[u]
    BY <1>0, <1>3 DEF Ends, Idle, TypeInv
  <2> QED
    BY <1>0, <1>1, <1>3, <2>1, BlocksQuiet DEF Calm, Between
<1>4. CASE /\ free # {}
           /\ takenInodes' = takenInodes \cup {Lowest(free)}
           /\ inode_table' = [inode_table EXCEPT ![Lowest(free)] = NewInode]
           /\ thread' = [thread EXCEPT ![t].stage = "add", ![t].inum = Lowest(free)]
  <2>a. PICK new : new = Lowest(free)
    OBVIOUS
  <2>1. new \notin takenInodes /\ new \in Inumbers
    <3>1. free \in SUBSET Inumbers
      OBVIOUS
    <3> HIDE DEF free
    <3>2. Lowest(free) \in free
      BY <1>4, <3>1, FreeOnes
    <3> QED
      BY <2>a, <3>1, <3>2 DEF free
  <2>b. /\ takenInodes' = takenInodes \cup {new}
        /\ inode_table' = [inode_table EXCEPT ![new] = NewInode]
        /\ thread' = [thread EXCEPT ![t].stage = "add", ![t].inum = new]
    BY <1>4, <2>a
  <2>2. thread'[t].stage = "add" /\ \A u \in Threads \ {t} : thread'[u] = thread[u]
    BY <1>0, <2>b DEF TypeInv, ThreadStates, ThreadType
  <2>3. FileInodes' = FileInodes \cup {new} /\ takenBlocks' = takenBlocks /\ fs_data' = fs_data
    BY <1>0, <2>1, <2>b DEF FileInodes, TypeInv, disk
  <2>4. inode_table'[new] = NewInode /\ \A j \in Inumbers \ {new} : inode_table'[j] = inode_table[j]
    BY <1>0, <2>1, <2>b DEF TypeInv
  <2>5. \A j \in FileInodes : j # new /\ j \in Inumbers
    BY <1>0, <2>1 DEF FileInodes, TypeInv
  <2>6. \A j : ~Deletes(thread[t], j) /\ ~Waiting(thread[t], j)
               /\ ~Deletes(thread'[t], j) /\ ~Waiting(thread'[t], j)
    BY <1>0, <2>2 DEF Deletes, Waiting, Between
  <2>7. \A j \in FileInodes : SameNode(j)
    BY <2>3, <2>4, <2>5 DEF SameNode
  <2>8. NoOther(t, new)
    BY <1>0, <2>1 DEF NoOther, HoldsWrite, NamesInv
  <2>9. /\ \A j \in FileInodes, k \in Keys :
             /\ InUse(j, k)' <=> InUse(j, k)
             /\ InUse(j, k) => BlockOf(j, k)' = BlockOf(j, k)
        /\ \A j \in FileInodes : Shaped(inode_table'[j])
        /\ \A u \in Threads \ {t} : thread'[u].stage = "delete" =>
             thread'[u].freed <= FreeLen(inode_table'[thread'[u].inum])
    <3>1. FileInodes \ {new} = FileInodes
      BY <2>5
    <3> QED
      BY <1>0, <2>2, <2>6, <2>7, <2>8, <3>1, OwnFile
  <2>10. \A k \in Keys : ~InUse(new, k)'
    <3>1. At(Between, new)' = {}
      BY <2>2, <2>6, <2>8, OwnRoles
    <3> QED
      BY <2>4, <3>1, NewHasNone DEF InUse
  <2>11. \A j \in FileInodes' : Shaped(inode_table'[j])
    BY <2>3, <2>4, <2>9, NewHasNone
  <2>12. \A u \in Threads : thread'[u].stage = "delete" =>
           thread'[u].freed <= FreeLen(inode_table'[thread'[u].inum])
    BY <2>2, <2>9
  <2> QED
    BY <2>3, <2>9, <2>10, <2>11, <2>12, BlocksSame
<1> QED
  BY <1>2, <1>3, <1>4 DEF Creates

\* Initially, and after a restart, there are no files.
LEMMA NoFiles ==
    ASSUME FileInodes = {}, takenBlocks = {0}, \A u \in Threads : thread[u].stage = "idle"
    PROVE  BlockInv
BY DEF BlockInv

\* BlockInv holds initially ...
LEMMA BlocksInit == Init => BlockInv
<1> SUFFICES ASSUME Init PROVE BlockInv
  OBVIOUS
<1>1. FileInodes = {} /\ takenBlocks = {0} /\ \A u \in Threads : thread[u].stage = "idle"
  BY DEF Init, FileInodes, Idle
<1> QED
  BY <1>1, NoFiles

\* ... and after a restart, with FileInv.
LEMMA BlocksRestart == Inv /\ Restart => FileInv' /\ BlockInv'
<1> SUFFICES ASSUME Inv, Restart PROVE FileInv' /\ BlockInv'
  OBVIOUS
<1>1. /\ takenInodes' = {ROOT_DIR_INUM} /\ takenBlocks' = {0} /\ issued' = <<>>
      /\ \A u \in Threads : thread'[u].stage = "idle"
  BY DEF Restart
<1>2. FileInodes' = {} /\ DOMAIN issued' = {}
  BY <1>1 DEF FileInodes
<1>3. FileInv'
  BY <1>1, <1>2 DEF FileInv, FileStages, Copies, Writing
<1>4. BlockInv'
  BY <1>1, <1>2 DEF BlockInv
<1> QED
  BY <1>3, <1>4

(* Blocks are taken *)

\* The blocks of a file that a thread writes to.
LEMMA WriterUses ==
    ASSUME TypeInv, LockInv, FileInv, BlockInv, NEW t \in Threads, thread[t].stage \in Writing,
           NEW x, x = thread[t].inum
    PROVE  /\ x \in FileInodes /\ x \in Inumbers /\ NoOther(t, x)
           /\ inode_table[x] \in InodeType /\ Shaped(inode_table[x])
           /\ \A k \in Keys : InUse(x, k) <=>
                (HasKey(inode_table[x], k) \/ (k = 0 /\ thread[t].stage \in Between))
<1>1. x \in FileInodes /\ x \in Inumbers
  BY DEF FileInv, FileStages, FileInodes, TypeInv
<1>2. NoOther(t, x)
  <2>1. HoldsWrite(thread[t], x)
    BY DEF HoldsWrite
  <2> QED
    BY <1>1, <2>1, NoOtherWriter
<1>3. inode_table[x] \in InodeType /\ Shaped(inode_table[x])
  BY <1>1 DEF TypeInv, BlockInv
<1>4. ~Deletes(thread[t], x) /\ (Waiting(thread[t], x) <=> thread[t].stage \in Between)
  BY DEF Deletes, Waiting, Writing
<1>5. Freed(x) = 0 /\ (At(Between, x) # {} <=> thread[t].stage \in Between)
  BY <1>2, <1>4, OwnRolesNow
<1>6. ASSUME NEW k, HasKey(inode_table[x], k)
      PROVE  0 < FreePos(inode_table[x], k)
  <2>1. FreePos(inode_table[x], k) \in 1 .. FreeLen(inode_table[x]) /\ FreeLen(inode_table[x]) \in Nat
    BY <1>3, <1>6, FreePositions
  <2> QED
    BY <2>1
<1>7. \A k \in Keys : InUse(x, k) <=>
        (HasKey(inode_table[x], k) \/ (k = 0 /\ thread[t].stage \in Between))
  BY <1>5, <1>6 DEF InUse
<1> QED
  BY <1>1, <1>2, <1>3, <1>7

\* The same after a step of that thread.
LEMMA WriterUsesNext ==
    ASSUME NEW t \in Threads, \A u \in Threads \ {t} : thread'[u] = thread[u],
           NEW x, NoOther(t, x), ~Deletes(thread'[t], x), inode_table'[x] \in InodeType
    PROVE  \A k \in Keys : InUse(x, k)' <=>
             (HasKey(inode_table'[x], k) \/ (k = 0 /\ Waiting(thread'[t], x)))
<1>1. Freed(x)' = 0 /\ (At(Between, x)' # {} <=> Waiting(thread'[t], x))
  BY OwnRoles
<1>2. ASSUME NEW k, HasKey(inode_table'[x], k)
      PROVE  0 < FreePos(inode_table'[x], k)
  <2> DEFINE node == inode_table'[x]
  <2>1. FreePos(node, k) \in 1 .. FreeLen(node) /\ FreeLen(node) \in Nat
    BY <1>2, FreePositions
  <2> QED
    BY <2>1
<1>3. \A k : HasKey(inode_table[x], k)' <=> HasKey(inode_table'[x], k)
  BY DEF HasKey
<1>4. \A k : FreePos(inode_table[x], k)' = FreePos(inode_table'[x], k)
  BY DEF FreePos
<1> QED
  BY <1>1, <1>2, <1>3, <1>4 DEF InUse

\* The first block that is free.
LEMMA FreeBlock ==
    ASSUME TypeInv, takenBlocks # Blocks, NEW b, b = Lowest(Blocks \ takenBlocks)
    PROVE  b \in Blocks /\ b \notin takenBlocks
<1> DEFINE free == Blocks \ takenBlocks
<1>1. free \in SUBSET Blocks /\ free # {}
  BY DEF TypeInv
<1> HIDE DEF free
<1>2. Lowest(free) \in free
  BY <1>1, FreeOnes
<1> QED
  BY <1>2 DEF free

\* Block b is taken, and its number written to an indirect block.
Numbered(b, ind, c) == [Zeroed(b) EXCEPT ![ind][c] = b]

\* What a block that is taken and a number written to another change.
LEMMA CellsNext ==
    ASSUME TypeInv, NEW b \in Blocks
    PROVE  /\ \A d \in Blocks \ {b} : Zeroed(b)[d] = fs_data[d]
           /\ \A ind \in Blocks \ {b}, c \in 1 .. BLOCK_SIZE :
                fs_data' = Numbered(b, ind, c) =>
                  /\ fs_data'[ind][c] = b
                  /\ \A e \in 1 .. BLOCK_SIZE : e # c => fs_data'[ind][e] = fs_data[ind][e]
                  /\ \A d \in Blocks \ {b, ind} : fs_data'[d] = fs_data[d]
<1>1. fs_data \in [Blocks -> [1 .. BLOCK_SIZE -> Nat]]
  BY DEF TypeInv
<1>2. \A d \in Blocks \ {b} : Zeroed(b)[d] = fs_data[d]
  BY <1>1 DEF Zeroed
<1>3. ASSUME NEW ind \in Blocks \ {b}, NEW c \in 1 .. BLOCK_SIZE,
             fs_data' = Numbered(b, ind, c)
      PROVE  /\ fs_data'[ind][c] = b
             /\ \A e \in 1 .. BLOCK_SIZE : e # c => fs_data'[ind][e] = fs_data[ind][e]
             /\ \A d \in Blocks \ {b, ind} : fs_data'[d] = fs_data[d]
  <2> DEFINE data == Zeroed(b)
  <2>1. DOMAIN data = Blocks /\ data[ind] \in [1 .. BLOCK_SIZE -> Nat] /\ data[ind] = fs_data[ind]
    BY <1>1, <1>2 DEF Zeroed
  <2>2. fs_data' = [data EXCEPT ![ind] = [data[ind] EXCEPT ![c] = b]]
    BY <1>3 DEF Numbered
  <2>3. \A d \in Blocks \ {b} : data[d] = fs_data[d]
    BY <1>2
  <2> HIDE DEF data
  <2>4. fs_data'[ind] = [data[ind] EXCEPT ![c] = b] /\ \A d \in Blocks \ {ind} : fs_data'[d] = data[d]
    BY <2>1, <2>2
  <2> QED
    BY <2>1, <2>3, <2>4
<1> QED
  BY <1>2, <1>3

\* A step that changes no i-node but one, and no indirect block of another file.
LEMMA OthersKept ==
    ASSUME TypeInv, FileInv, BlockInv, NEW t \in Threads,
           \A u \in Threads \ {t} : thread'[u] = thread[u],
           NEW x \in FileInodes, NoOther(t, x), thread[t].inum = x,
           thread'[t].inum = x \/ thread'[t].stage \notin Between \cup {"delete"},
           \A i \in Inumbers \ {x} : inode_table'[i] = inode_table[i],
           \A d \in takenBlocks : (d = BlockOf(x, 0) /\ InUse(x, 0)) \/ fs_data'[d] = fs_data[d]
    PROVE  /\ \A i \in FileInodes \ {x}, k \in Keys :
                /\ InUse(i, k)' <=> InUse(i, k)
                /\ InUse(i, k) => BlockOf(i, k)' = BlockOf(i, k)
           /\ \A i \in FileInodes \ {x} : Shaped(inode_table'[i])
           /\ \A u \in Threads \ {t} : thread'[u].stage = "delete" =>
                thread'[u].freed <= FreeLen(inode_table'[thread'[u].inum])
<1>1. \A i \in FileInodes \ {x} :
        /\ ~Deletes(thread[t], i) /\ ~Deletes(thread'[t], i)
        /\ ~Waiting(thread[t], i) /\ ~Waiting(thread'[t], i)
  BY DEF Deletes, Waiting
<1>2. ASSUME NEW i \in FileInodes \ {x}, NEW k \in Keys, InUse(i, k), k > DIRECT_BLOCK_COUNT
      PROVE  fs_data'[inode_table[i].indirect_data_block] = fs_data[inode_table[i].indirect_data_block]
  <2> DEFINE d == inode_table[i].indirect_data_block
  <2>1. i \in Inumbers
    BY DEF FileInodes, TypeInv
  <2>2. InUse(i, 0) /\ BlockOf(i, 0) = d /\ 0 \in Keys
    BY <1>2, <2>1, IndirectInUse
  <2>3. d \in takenBlocks
    BY <2>2 DEF BlockInv
  <2>4. ~(d = BlockOf(x, 0) /\ InUse(x, 0))
    BY <2>2 DEF BlockInv
  <2> QED
    BY <2>3, <2>4
<1>3. ASSUME NEW i \in FileInodes \ {x}
      PROVE  SameNode(i)
  <2>1. i \in Inumbers \ {x}
    BY DEF FileInodes, TypeInv
  <2>2. inode_table'[i] = inode_table[i]
    BY <2>1
  <2> QED
    BY <1>2, <2>2 DEF SameNode
<1> QED
  BY <1>1, <1>3, OwnFile

\* A file has got one more block, and its blocks are what they were, but for its
\* indirect block.
Grown(x) ==
    /\ inode_table'[x].i_size = inode_table[x].i_size
    /\ inode_table'[x].blocksAlloc = inode_table[x].blocksAlloc + 1
    /\ \A k \in Keys : InUse(x, k) => BlockOf(x, k)' = BlockOf(x, k)
    /\ \A c \in takenBlocks : (c = BlockOf(x, 0) /\ InUse(x, 0)) \/ fs_data'[c] = fs_data[c]

\* A sequence with one more element.
LEMMA Appended ==
    ASSUME NEW S, NEW s \in Seq(S), NEW e \in S, NEW n \in Nat, Len(s) = n - 1
    PROVE  /\ Len(Append(s, e)) = n /\ Append(s, e)[n] = e
           /\ \A k \in 1 .. n - 1 : Append(s, e)[k] = s[k]
BY AppendProperties

\* What a block taken for data that an i-node names itself changes.
TakesDirect(x, b, n) ==
    /\ inode_table' = [inode_table EXCEPT ![x].i_data_block = Append(@, b),
                                          ![x].blocksAlloc = n]
    /\ fs_data' = Zeroed(b)

\* A block is taken for data that an i-node names itself.
LEMMA BlocksDirect ==
    ASSUME Inv, FileInv, BlockInv, TypeInv', NEW t \in Threads, NEW x, x = thread[t].inum,
           NEW b \in Blocks, b \notin takenBlocks, takenBlocks' = takenBlocks \cup {b},
           thread[t].stage = "alloc", UNCHANGED <<directory, thread>>,
           NEW n, n = inode_table[x].blocksAlloc + 1, n \in 0 .. MAX_INODE_BLOCKS,
           n <= DIRECT_BLOCK_COUNT,
           TakesDirect(x, b, n)
    PROVE  BlockInv' /\ Grown(x)
<1> DEFINE node == inode_table[x]
           new == inode_table'[x]
           d == DIRECT_BLOCK_COUNT
<1>0. /\ TypeInv /\ LockInv /\ thread[t].stage \in Writing /\ thread[t].stage \notin Between
      /\ FileInodes' = FileInodes /\ \A u \in Threads \ {t} : thread'[u] = thread[u]
  BY DEF Inv, Writing, Between, directory, FileInodes
<1>1. /\ x \in FileInodes /\ x \in Inumbers /\ NoOther(t, x)
      /\ node \in InodeType /\ Shaped(node)
      /\ \A k \in Keys : InUse(x, k) <=> HasKey(node, k)
  BY <1>0, WriterUses
<1>2. d \in Nat /\ MAX_INODE_BLOCKS \in Nat /\ n \in Nat /\ n - 1 \in Nat /\ node.blocksAlloc = n - 1
  <2>1. d \in Nat /\ MAX_INODE_BLOCKS \in Nat
    BY BlocksAssumption
  <2>2. node.blocksAlloc \in 0 .. MAX_INODE_BLOCKS
    BY <1>1 DEF InodeType
  <2> HIDE DEF d
  <2> QED
    BY <2>1, <2>2
<1>3. /\ new.i_data_block = Append(node.i_data_block, b) /\ new.blocksAlloc = n
      /\ new.indirect_data_block = node.indirect_data_block /\ new.i_size = node.i_size
      /\ \A j \in Inumbers \ {x} : inode_table'[j] = inode_table[j]
  <2>1. inode_table \in [Inumbers -> InodeType]
    BY <1>0 DEF TypeInv
  <2> QED
    BY <1>1, <2>1 DEF InodeType, TakesDirect
<1>4. new \in InodeType
  BY <1>1 DEF TypeInv
<1>5. node.i_data_block \in Seq(Blocks) /\ Len(node.i_data_block) = n - 1
  BY <1>1, <1>2 DEF InodeType, Shaped, Least
<1>6. /\ Len(new.i_data_block) = n /\ new.i_data_block[n] = b
      /\ \A k \in 1 .. n - 1 : new.i_data_block[k] = node.i_data_block[k]
  <2> DEFINE s == node.i_data_block
  <2>1. s \in Seq(Blocks) /\ Len(s) = n - 1 /\ new.i_data_block = Append(s, b)
    BY <1>3, <1>5
  <2> HIDE DEF s, new
  <2>2. /\ Len(Append(s, b)) = n /\ Append(s, b)[n] = b
        /\ \A k \in 1 .. n - 1 : Append(s, b)[k] = s[k]
    <3>1. \A q \in Seq(Blocks), k \in Nat : Len(q) = k - 1 =>
            /\ Len(Append(q, b)) = k /\ Append(q, b)[k] = b
            /\ \A j \in 1 .. k - 1 : Append(q, b)[j] = q[j]
      BY Appended
    <3> QED
      BY <1>2, <2>1, <3>1
  <2> QED
    BY <2>1, <2>2 DEF s
<1>7. Shaped(new)
  <2>1. Least(n, d) = n
    BY <1>2 DEF Least
  <2> QED
    BY <1>3, <1>6, <2>1 DEF Shaped
<1>8. /\ \A k : HasKey(node, k) <=> k \in 1 .. n - 1
      /\ \A k : HasKey(new, k) <=> k \in 1 .. n
  <2>1. /\ \A k : HasKey(node, k) <=> k \in 0 .. n - 1 /\ (k = 0 => n - 1 > d)
        /\ \A k : HasKey(new, k) <=> k \in 0 .. n /\ (k = 0 => n > d)
    BY <1>2, <1>3 DEF HasKey
  <2>2. n <= d
    OBVIOUS
  <2> HIDE DEF d, new, node
  <2> QED
    BY <1>2, <2>1, <2>2
<1>9. \A k \in Keys : InUse(x, k)' <=> k \in 1 .. n
  <2>1. ~Deletes(thread'[t], x) /\ ~Waiting(thread'[t], x)
    BY <1>0 DEF Deletes, Waiting, Writing
  <2> QED
    BY <1>0, <1>1, <1>4, <1>8, <2>1, WriterUsesNext
<1>10. /\ \A k \in 1 .. n - 1 : BlockOf(x, k)' = BlockOf(x, k)
       /\ BlockOf(x, n)' = b /\ n # 0
  <2>1. n <= d /\ n # 0 /\ \A k \in 1 .. n - 1 : k # 0 /\ k <= d
    <3>1. n <= d
      OBVIOUS
    <3> HIDE DEF d
    <3> QED
      BY <1>2, <3>1
  <2> QED
    BY <1>6, <2>1 DEF BlockOf, BlockAt
<1>11. \A c \in takenBlocks : fs_data'[c] = fs_data[c]
  <2>1. fs_data' = Zeroed(b)
    BY DEF TakesDirect
  <2> QED
    BY <1>0, <2>1, CellsNext DEF TypeInv
<1>12. n \in Keys /\ ~InUse(x, n) /\ \A k \in Keys : InUse(x, k)' <=> (InUse(x, k) \/ k = n)
  <2>1. n \in Keys
    BY DEF Keys
  <2>2. \A k \in Keys : k \in 1 .. n <=> k \in 1 .. n - 1 \/ k = n
    <3>1. n \in 1 .. n /\ n \notin 1 .. n - 1
      <4>1. new.blocksAlloc = n /\ n - 1 \in Nat
        BY <1>2, <1>3
      <4> HIDE DEF d, new, node
      <4> QED
        BY <4>1
    <3>2. \A k \in Nat : k \in 1 .. n <=> k \in 1 .. n - 1 \/ k = n
      BY <3>1
    <3> QED
      BY <1>2, <3>2 DEF Keys
  <2>3. n \notin 1 .. n - 1
    BY <1>2
  <2> QED
    BY <1>1, <1>8, <1>9, <2>1, <2>2, <2>3
<1>13. \A k \in Keys : InUse(x, k) => BlockOf(x, k)' = BlockOf(x, k)
  BY <1>1, <1>8, <1>10
<1>18. Grown(x)
  <2>1. n - 1 + 1 = n
    BY <1>2
  <2> QED
    BY <1>2, <1>3, <1>11, <1>13, <2>1 DEF Grown
<1> HIDE DEF node, new, d
<1>14. /\ \A i \in FileInodes \ {x}, k \in Keys :
            /\ InUse(i, k)' <=> InUse(i, k)
            /\ InUse(i, k) => BlockOf(i, k)' = BlockOf(i, k)
       /\ \A i \in FileInodes \ {x} : Shaped(inode_table'[i])
       /\ \A u \in Threads \ {t} : thread'[u].stage = "delete" =>
            thread'[u].freed <= FreeLen(inode_table'[thread'[u].inum])
  BY <1>0, <1>1, <1>3, <1>11, OthersKept
<1>15. \A i \in FileInodes : Shaped(inode_table'[i])
  BY <1>7, <1>14 DEF new
<1>16. \A i \in FileInodes, k \in Keys :
         /\ InUse(i, k)' <=> (InUse(i, k) \/ (i = x /\ k = n))
         /\ InUse(i, k) => BlockOf(i, k)' = BlockOf(i, k)
  BY <1>12, <1>13, <1>14
<1>17. \A u \in Threads : thread'[u].stage = "delete" =>
         thread'[u].freed <= FreeLen(inode_table'[thread'[u].inum])
  BY <1>0, <1>14 DEF Writing
<1> QED
  BY <1>0, <1>1, <1>10, <1>12, <1>15, <1>16, <1>17, <1>18, BlocksPlus

\* A block is taken for the numbers of others.
LEMMA BlocksAhead ==
    ASSUME Inv, FileInv, BlockInv, TypeInv', NEW t \in Threads, NEW x, x = thread[t].inum,
           NEW b \in Blocks, b \notin takenBlocks, takenBlocks' = takenBlocks \cup {b},
           thread[t].stage = "alloc", UNCHANGED directory, Stays(t, "indirect"),
           inode_table[x].blocksAlloc = DIRECT_BLOCK_COUNT,
           inode_table' = [inode_table EXCEPT ![x].indirect_data_block = b],
           fs_data' = Zeroed(b)
    PROVE  BlockInv'
<1> DEFINE node == inode_table[x]
           new == inode_table'[x]
           d == DIRECT_BLOCK_COUNT
<1>0. /\ TypeInv /\ LockInv /\ thread[t].stage \in Writing /\ thread[t].stage \notin Between
      /\ FileInodes' = FileInodes /\ \A u \in Threads \ {t} : thread'[u] = thread[u]
      /\ thread'[t].stage = "indirect" /\ thread'[t].inum = x
  BY StepFields DEF Inv, Writing, Between, directory, FileInodes
<1>1. /\ x \in FileInodes /\ x \in Inumbers /\ NoOther(t, x)
      /\ node \in InodeType /\ Shaped(node)
      /\ \A k \in Keys : InUse(x, k) <=> HasKey(node, k)
  BY <1>0, WriterUses
<1>2. d \in Nat /\ MAX_INODE_BLOCKS \in Nat /\ node.blocksAlloc = d
  BY BlocksAssumption
<1>3. /\ new.i_data_block = node.i_data_block /\ new.blocksAlloc = node.blocksAlloc
      /\ new.indirect_data_block = b
      /\ \A j \in Inumbers \ {x} : inode_table'[j] = inode_table[j]
  <2>1. inode_table \in [Inumbers -> InodeType]
    BY <1>0 DEF TypeInv
  <2> QED
    BY <1>1, <2>1 DEF InodeType
<1>4. new \in InodeType
  BY <1>1 DEF TypeInv
<1>7. Shaped(new)
  BY <1>1, <1>3 DEF Shaped
<1>8. /\ \A k : HasKey(node, k) <=> k \in 1 .. d
      /\ \A k : HasKey(new, k) <=> k \in 1 .. d
  BY <1>2, <1>3 DEF HasKey
<1>9. \A k \in Keys : InUse(x, k)' <=> (k \in 1 .. d \/ k = 0)
  <2>1. ~Deletes(thread'[t], x) /\ Waiting(thread'[t], x)
    BY <1>0 DEF Deletes, Waiting, Between
  <2> QED
    BY <1>0, <1>1, <1>4, <1>8, <2>1, WriterUsesNext
<1>10. /\ \A k \in 1 .. d : BlockOf(x, k)' = BlockOf(x, k)
       /\ BlockOf(x, 0)' = b
  BY <1>2, <1>3 DEF BlockOf, BlockAt
<1>11. \A c \in takenBlocks : fs_data'[c] = fs_data[c]
  BY <1>0, CellsNext DEF TypeInv
<1>12. 0 \in Keys /\ ~InUse(x, 0) /\ \A k \in Keys : InUse(x, k)' <=> (InUse(x, k) \/ k = 0)
  BY <1>1, <1>2, <1>8, <1>9 DEF Keys
<1>13. \A k \in Keys : InUse(x, k) => BlockOf(x, k)' = BlockOf(x, k)
  BY <1>1, <1>8, <1>10
<1> HIDE DEF node, new, d
<1>14. /\ \A i \in FileInodes \ {x}, k \in Keys :
            /\ InUse(i, k)' <=> InUse(i, k)
            /\ InUse(i, k) => BlockOf(i, k)' = BlockOf(i, k)
       /\ \A i \in FileInodes \ {x} : Shaped(inode_table'[i])
       /\ \A u \in Threads \ {t} : thread'[u].stage = "delete" =>
            thread'[u].freed <= FreeLen(inode_table'[thread'[u].inum])
  BY <1>0, <1>1, <1>3, <1>11, OthersKept
<1>15. \A i \in FileInodes : Shaped(inode_table'[i])
  BY <1>7, <1>14 DEF new
<1>16. \A i \in FileInodes, k \in Keys :
         /\ InUse(i, k)' <=> (InUse(i, k) \/ (i = x /\ k = 0))
         /\ InUse(i, k) => BlockOf(i, k)' = BlockOf(i, k)
  BY <1>12, <1>13, <1>14
<1>17. \A u \in Threads : thread'[u].stage = "delete" =>
         thread'[u].freed <= FreeLen(inode_table'[thread'[u].inum])
  BY <1>0, <1>14
<1> QED
  BY <1>0, <1>1, <1>10, <1>12, <1>15, <1>16, <1>17, BlocksPlus

\* What a block taken for data behind an indirect block changes.
TakesBehind(x, b, n) ==
    /\ inode_table' = [inode_table EXCEPT ![x].blocksAlloc = n]
    /\ fs_data' = [Zeroed(b) EXCEPT
         ![inode_table[x].indirect_data_block][n - DIRECT_BLOCK_COUNT] = b]

\* A block is taken for data behind an indirect block: the next one, or the
\* first, for which the write has just taken the indirect block.
LEMMA BlocksBehind ==
    ASSUME Inv, FileInv, BlockInv, TypeInv', NEW t \in Threads, NEW x, x = thread[t].inum,
           NEW b \in Blocks, b \notin takenBlocks, takenBlocks' = takenBlocks \cup {b},
           thread[t].stage \in Writing, UNCHANGED directory,
           thread'[t].stage = "alloc", \A u \in Threads \ {t} : thread'[u] = thread[u],
           NEW n, n = inode_table[x].blocksAlloc + 1, n \in 0 .. MAX_INODE_BLOCKS,
           n > DIRECT_BLOCK_COUNT, n = DIRECT_BLOCK_COUNT + 1 <=> thread[t].stage \in Between,
           TakesBehind(x, b, n)
    PROVE  BlockInv' /\ Grown(x)
<1> DEFINE node == inode_table[x]
           new == inode_table'[x]
           d == DIRECT_BLOCK_COUNT
           ind == node.indirect_data_block
<1>0. /\ TypeInv /\ LockInv /\ FileInodes' = FileInodes
  BY DEF Inv, directory, FileInodes
<1>1. /\ x \in FileInodes /\ x \in Inumbers /\ NoOther(t, x)
      /\ node \in InodeType /\ Shaped(node)
      /\ \A k \in Keys : InUse(x, k) <=> (HasKey(node, k) \/ (k = 0 /\ thread[t].stage \in Between))
  BY <1>0, WriterUses
<1>2. /\ d \in Nat /\ MAX_INODE_BLOCKS \in Nat /\ n \in Nat /\ n - 1 \in Nat /\ node.blocksAlloc = n - 1
      /\ BLOCK_SIZE \in Nat /\ MAX_INODE_BLOCKS <= d + BLOCK_SIZE
  <2>1. d \in Nat /\ BLOCK_SIZE \in Nat /\ MAX_INODE_BLOCKS \in d .. d + BLOCK_SIZE
    BY BlocksAssumption
  <2>2. node.blocksAlloc \in 0 .. MAX_INODE_BLOCKS
    BY <1>1 DEF InodeType
  <2> HIDE DEF d
  <2> QED
    BY <2>1, <2>2
<1>3. /\ new.i_data_block = node.i_data_block /\ new.blocksAlloc = n
      /\ new.indirect_data_block = ind /\ new.i_size = node.i_size
      /\ \A j \in Inumbers \ {x} : inode_table'[j] = inode_table[j]
  <2>1. inode_table \in [Inumbers -> InodeType]
    BY <1>0 DEF TypeInv
  <2> QED
    BY <1>1, <2>1 DEF InodeType, TakesBehind
<1>4. new \in InodeType
  BY <1>1 DEF TypeInv
<1>7. Shaped(new)
  <2>1. Least(n - 1, d) = d /\ Least(n, d) = d
    <3>1. n > d
      OBVIOUS
    <3> HIDE DEF d
    <3> QED
      BY <1>2, <3>1 DEF Least
  <2>2. Len(node.i_data_block) = d
    BY <1>1, <1>2, <2>1 DEF Shaped
  <2> QED
    BY <1>3, <2>1, <2>2 DEF Shaped
<1>8. /\ \A k : HasKey(node, k) <=> (k \in 1 .. n - 1 \/ (k = 0 /\ n # d + 1))
      /\ \A k : HasKey(new, k) <=> k \in 0 .. n
  <2>1. /\ \A k : HasKey(node, k) <=> k \in 0 .. n - 1 /\ (k = 0 => n - 1 > d)
        /\ \A k : HasKey(new, k) <=> k \in 0 .. n /\ (k = 0 => n > d)
    BY <1>2, <1>3 DEF HasKey
  <2>2. n > d
    OBVIOUS
  <2> HIDE DEF d, new, node, ind
  <2> QED
    BY <1>2, <2>1, <2>2
<1>9. \A k \in Keys : InUse(x, k)' <=> k \in 0 .. n
  <2>1. ~Deletes(thread'[t], x) /\ ~Waiting(thread'[t], x)
    BY DEF Deletes, Waiting, Between
  <2> QED
    BY <1>0, <1>1, <1>4, <1>8, <2>1, WriterUsesNext
<1>10. \A k \in Keys : InUse(x, k) <=> k \in 0 .. n - 1
  BY <1>1, <1>2, <1>8 DEF Keys
<1>11. 0 \in Keys /\ InUse(x, 0) /\ BlockOf(x, 0) = ind /\ ind \in takenBlocks /\ ind \in Blocks /\ ind # b
  <2>1. 0 \in Keys /\ InUse(x, 0) /\ BlockOf(x, 0) = ind
    BY <1>2, <1>10 DEF Keys, BlockOf, BlockAt
  <2> QED
    BY <1>0, <1>1, <2>1 DEF BlockInv, TypeInv
<1>12. /\ fs_data'[ind][n - d] = b
       /\ \A e \in 1 .. BLOCK_SIZE : e # n - d => fs_data'[ind][e] = fs_data[ind][e]
       /\ \A c \in takenBlocks : c # ind => fs_data'[c] = fs_data[c]
  <2>1. n - d \in 1 .. BLOCK_SIZE
    BY <1>2
  <2>2. fs_data' = [Zeroed(b) EXCEPT ![ind][n - d] = b] /\ ind \in Blocks \ {b}
    BY <1>11 DEF TakesBehind
  <2>3. \A c \in takenBlocks : c \in Blocks \ {b}
    BY <1>0 DEF TypeInv
  <2> HIDE DEF ind, d
  <2>4. /\ fs_data'[ind][n - d] = b
        /\ \A e \in 1 .. BLOCK_SIZE : e # n - d => fs_data'[ind][e] = fs_data[ind][e]
        /\ \A c \in Blocks \ {b, ind} : fs_data'[c] = fs_data[c]
    <3>1. PICK c : c = n - d
      OBVIOUS
    <3>2. PICK j : j = ind
      OBVIOUS
    <3>3. c \in 1 .. BLOCK_SIZE /\ j \in Blocks \ {b} /\ fs_data' = Numbered(b, j, c)
      BY <2>1, <2>2, <3>1, <3>2 DEF Numbered
    <3>4. /\ fs_data'[j][c] = b
          /\ \A e \in 1 .. BLOCK_SIZE : e # c => fs_data'[j][e] = fs_data[j][e]
          /\ \A k \in Blocks \ {b, j} : fs_data'[k] = fs_data[k]
      <4>1. \A g \in Blocks \ {b}, a \in 1 .. BLOCK_SIZE :
              fs_data' = Numbered(b, g, a) =>
                /\ fs_data'[g][a] = b
                /\ \A e \in 1 .. BLOCK_SIZE : e # a => fs_data'[g][e] = fs_data[g][e]
                /\ \A k \in Blocks \ {b, g} : fs_data'[k] = fs_data[k]
        BY <1>0, CellsNext
      <4> QED
        BY <3>3, <4>1
    <3> QED
      BY <3>1, <3>2, <3>4
  <2> QED
    BY <2>3, <2>4
<1>13. BlockOf(x, n)' = b /\ n # 0
  <2>1. n # 0 /\ ~(n <= d)
    <3>1. n > d
      OBVIOUS
    <3> HIDE DEF d
    <3> QED
      BY <1>2, <3>1
  <2> QED
    BY <1>3, <1>12, <2>1 DEF BlockOf, BlockAt
<1>14. ASSUME NEW k \in 0 .. n - 1 PROVE BlockOf(x, k)' = BlockOf(x, k)
  <2>1. CASE k = 0
    BY <1>3, <2>1 DEF BlockOf, BlockAt
  <2>2. CASE k # 0 /\ k <= d
    BY <1>3, <2>2 DEF BlockOf, BlockAt
  <2>3. CASE k # 0 /\ ~(k <= d)
    <3>1. k - d \in 1 .. BLOCK_SIZE /\ k - d # n - d
      BY <1>2, <2>3
    <3>2. BlockOf(x, k) = fs_data[ind][k - d] /\ BlockOf(x, k)' = fs_data'[ind][k - d]
      BY <1>3, <2>3 DEF BlockOf, BlockAt
    <3> QED
      BY <1>12, <3>1, <3>2
  <2> QED
    BY <2>1, <2>2, <2>3
<1>15. n \in Keys /\ ~InUse(x, n) /\ \A k \in Keys : InUse(x, k)' <=> (InUse(x, k) \/ k = n)
  BY <1>2, <1>9, <1>10 DEF Keys
<1>16. \A k \in Keys : InUse(x, k) => BlockOf(x, k)' = BlockOf(x, k)
  BY <1>10, <1>14
<1>17. \A c \in takenBlocks : (c = BlockOf(x, 0) /\ InUse(x, 0)) \/ fs_data'[c] = fs_data[c]
  BY <1>11, <1>12
<1>18. thread[t].inum = x /\ thread'[t].stage \notin Between \cup {"delete"}
  BY DEF Between
<1>23. Grown(x)
  <2>1. n - 1 + 1 = n
    BY <1>2
  <2> QED
    BY <1>2, <1>3, <1>16, <1>17, <2>1 DEF Grown
<1> HIDE DEF node, new, d, ind
<1>19. /\ \A i \in FileInodes \ {x}, k \in Keys :
            /\ InUse(i, k)' <=> InUse(i, k)
            /\ InUse(i, k) => BlockOf(i, k)' = BlockOf(i, k)
       /\ \A i \in FileInodes \ {x} : Shaped(inode_table'[i])
       /\ \A u \in Threads \ {t} : thread'[u].stage = "delete" =>
            thread'[u].freed <= FreeLen(inode_table'[thread'[u].inum])
  BY <1>0, <1>1, <1>3, <1>17, <1>18, OthersKept
<1>20. \A i \in FileInodes : Shaped(inode_table'[i])
  BY <1>7, <1>19 DEF new
<1>21. \A i \in FileInodes, k \in Keys :
         /\ InUse(i, k)' <=> (InUse(i, k) \/ (i = x /\ k = n))
         /\ InUse(i, k) => BlockOf(i, k)' = BlockOf(i, k)
  BY <1>15, <1>16, <1>19
<1>22. \A u \in Threads : thread'[u].stage = "delete" =>
         thread'[u].freed <= FreeLen(inode_table'[thread'[u].inum])
  BY <1>19
<1> QED
  BY <1>0, <1>1, <1>13, <1>15, <1>20, <1>21, <1>22, <1>23, BlocksPlus

\* The indirect block is given back.
LEMMA BlocksReleased ==
    ASSUME Inv, FileInv, BlockInv, TypeInv', NEW t \in Threads, ReleasesIndirect(t)
    PROVE  BlockInv'
<1>a. PICK x : x = thread[t].inum
  OBVIOUS
<1> DEFINE node == inode_table[x]
           new == inode_table'[x]
           d == DIRECT_BLOCK_COUNT
           ind == node.indirect_data_block
<1>0. /\ TypeInv /\ LockInv /\ RoomInv /\ UNCHANGED directory /\ FileInodes' = FileInodes
      /\ thread[t].stage \in Writing /\ thread[t].stage \in Between /\ fs_data' = fs_data
      /\ takenBlocks' = takenBlocks \ {ind} /\ Stays(t, "store")
      /\ inode_table' = [inode_table EXCEPT ![x].indirect_data_block = 0]
  BY <1>a DEF Inv, ReleasesIndirect, Writing, Between, directory, FileInodes
<1>1. /\ x \in FileInodes /\ x \in Inumbers /\ NoOther(t, x)
      /\ node \in InodeType /\ Shaped(node)
      /\ \A k \in Keys : InUse(x, k) <=> (HasKey(node, k) \/ k = 0)
  BY <1>0, <1>a, WriterUses
<1>2. d \in Nat /\ MAX_INODE_BLOCKS \in Nat /\ node.blocksAlloc = d
  BY <1>0, <1>a, BlocksAssumption DEF RoomInv
<1>3. /\ new.i_data_block = node.i_data_block /\ new.blocksAlloc = node.blocksAlloc
      /\ \A j \in Inumbers \ {x} : inode_table'[j] = inode_table[j]
  <2>1. inode_table \in [Inumbers -> InodeType]
    BY <1>0 DEF TypeInv
  <2> QED
    BY <1>0, <1>1, <2>1 DEF InodeType
<1>4. new \in InodeType
  BY <1>1 DEF TypeInv
<1>5. thread'[t].stage = "store" /\ \A u \in Threads \ {t} : thread'[u] = thread[u]
  BY <1>0, StepFields
<1>6. Shaped(new)
  BY <1>1, <1>3 DEF Shaped
<1>7. /\ \A k : HasKey(node, k) <=> k \in 1 .. d
      /\ \A k : HasKey(new, k) <=> k \in 1 .. d
  BY <1>2, <1>3 DEF HasKey
<1>8. \A k \in Keys : InUse(x, k)' <=> k \in 1 .. d
  <2>1. ~Deletes(thread'[t], x) /\ ~Waiting(thread'[t], x)
    BY <1>5 DEF Deletes, Waiting, Between
  <2> QED
    BY <1>1, <1>4, <1>5, <1>7, <2>1, WriterUsesNext
<1>9. 0 \in Keys /\ InUse(x, 0) /\ BlockOf(x, 0) = ind
      /\ \A k \in Keys : InUse(x, k)' <=> (InUse(x, k) /\ k # 0)
  BY <1>1, <1>2, <1>7, <1>8 DEF Keys, BlockOf, BlockAt
<1>10. \A k \in 1 .. d : BlockOf(x, k)' = BlockOf(x, k)
  BY <1>2, <1>3 DEF BlockOf, BlockAt
<1>11. \A k \in Keys : InUse(x, k) /\ k # 0 => BlockOf(x, k)' = BlockOf(x, k)
  BY <1>1, <1>7, <1>10
<1>12. \A c \in takenBlocks : fs_data'[c] = fs_data[c]
  BY <1>0
<1>13. thread[t].inum = x /\ thread'[t].stage \notin Between \cup {"delete"}
  BY <1>a, <1>5 DEF Between
<1>c. takenBlocks' = takenBlocks \ {BlockOf(x, 0)}
  BY <1>0, <1>9
<1> HIDE DEF node, new, d, ind
<1>14. /\ \A i \in FileInodes \ {x}, k \in Keys :
            /\ InUse(i, k)' <=> InUse(i, k)
            /\ InUse(i, k) => BlockOf(i, k)' = BlockOf(i, k)
       /\ \A i \in FileInodes \ {x} : Shaped(inode_table'[i])
       /\ \A u \in Threads \ {t} : thread'[u].stage = "delete" =>
            thread'[u].freed <= FreeLen(inode_table'[thread'[u].inum])
  BY <1>0, <1>1, <1>3, <1>5, <1>12, <1>13, OthersKept
<1>15. \A i \in FileInodes : Shaped(inode_table'[i])
  BY <1>6, <1>14 DEF new
<1>16. \A i \in FileInodes, k \in Keys :
         /\ InUse(i, k)' <=> (InUse(i, k) /\ ~(i = x /\ k = 0))
         /\ InUse(i, k) /\ ~(i = x /\ k = 0) => BlockOf(i, k)' = BlockOf(i, k)
  BY <1>9, <1>11, <1>14
<1>17. \A u \in Threads : thread'[u].stage = "delete" =>
         thread'[u].freed <= FreeLen(inode_table'[thread'[u].inum])
  BY <1>5, <1>14
<1> QED
  BY <1>0, <1>1, <1>9, <1>c, <1>15, <1>16, <1>17, BlocksMinus

\* No block is left for the data behind an indirect block.
LEMMA BlocksUnlucky ==
    ASSUME Inv, FileInv, BlockInv, NEW t \in Threads, thread[t].stage = "indirect",
           Stays(t, "release"), UNCHANGED <<inode_table, directory, disk>>
    PROVE  BlockInv'
<1>0. TypeInv
  BY DEF Inv
<1>1. /\ thread'[t].stage = "release" /\ thread'[t].inum = thread[t].inum
      /\ \A u \in Threads \ {t} : thread'[u] = thread[u]
  BY <1>0, StepFields
<1>2. \A i : /\ ~Deletes(thread[t], i) /\ ~Deletes(thread'[t], i)
             /\ Waiting(thread'[t], i) <=> Waiting(thread[t], i)
             /\ SameNode(i)
  BY <1>1 DEF Deletes, Waiting, Between, disk, SameNode
<1>3. takenBlocks' = takenBlocks
  BY DEF disk
<1> QED
  BY <1>0, <1>1, <1>2, <1>3, BlocksRest

\* The block of a byte within n blocks of s bytes.
LEMMA BlockOfByte ==
    ASSUME NEW s \in Nat \ {0}, NEW n \in Nat, NEW p \in Nat, p < n * s
    PROVE  p \div s \in 0 .. n - 1 /\ p % s \in 0 .. s - 1 /\ p = s * (p \div s) + (p % s)
<1> DEFINE q == p \div s
           r == p % s
<1>1. p = s * q + r /\ q \in Nat /\ r \in 0 .. s - 1
  OBVIOUS
<1> HIDE DEF q, r
<1>2. q < n
  <2>1. SUFFICES ASSUME q >= n PROVE FALSE
    BY <1>1
  <2>2. s * q >= s * n
    BY <1>1, <2>1
  <2> QED
    BY <1>1, <2>2
<1>3. q \in 0 .. n - 1
  BY <1>1, <1>2
<1> QED
  BY <1>1, <1>3 DEF q, r

\* What a write copies goes to blocks of its file.
LEMMA WrittenBlock ==
    ASSUME TypeInv, NEW t \in Threads, thread[t].h \in Handles, NEW p \in Nat,
           p < open_file_table[thread[t].h].of_offset + WriteLength(t),
           open_file_table[thread[t].h].of_offset <= p
    PROVE  /\ divCeilRW(p, BLOCK_SIZE) \in 1 .. inode_table[thread[t].inum].blocksAlloc
           /\ (p % BLOCK_SIZE) + 1 \in 1 .. BLOCK_SIZE
<1> DEFINE me == thread[t]
           off == open_file_table[me.h].of_offset
           s == SizeNeeded(off, me.buf)
           n == inode_table[me.inum].blocksAlloc
           k == n * BLOCK_SIZE
<1>0. BLOCK_SIZE \in Nat \ {0}
  BY BlocksAssumption
<1>1. me.inum \in Inumbers /\ me.buf \in Seq(Nat)
  BY DEF TypeInv, ThreadStates, ThreadType
<1>2. off \in 0 .. MAX_FILE_SIZE /\ n \in 0 .. MAX_INODE_BLOCKS /\ MAX_INODE_BLOCKS \in Nat
      /\ MAX_FILE_SIZE \in Nat
  <2>1. MAX_INODE_BLOCKS \in Nat /\ MAX_FILE_SIZE \in Nat
    BY Sizes, BlocksAssumption
  <2>2. off \in 0 .. MAX_FILE_SIZE /\ n \in 0 .. MAX_INODE_BLOCKS
    BY <1>1 DEF TypeInv, EntryType, InodeType
  <2> QED
    BY <2>1, <2>2
<1>3. k \in Nat /\ n \in Nat
  BY <1>0, <1>2
<1>4. s \in Nat
  <2> HIDE DEF off
  <2>1. s \in off .. MAX_FILE_SIZE
    BY <1>1, <1>2, SizeNeededBound
  <2> QED
    BY <1>2, <2>1
<1>5. WriteLength(t) = Greatest(0, Least(s, k) - off)
  BY DEF WriteLength
<1>6. p < off + WriteLength(t) /\ off <= p
  OBVIOUS
<1> HIDE DEF off, s, k
<1>7. p < k
  BY <1>2, <1>3, <1>4, <1>5, <1>6 DEF Greatest, Least
<1>8. p < n * BLOCK_SIZE
  BY <1>7 DEF k
<1> HIDE DEF n
<1>9. p \div BLOCK_SIZE \in 0 .. n - 1 /\ p % BLOCK_SIZE \in 0 .. BLOCK_SIZE - 1
  BY <1>0, <1>3, <1>8, BlockOfByte
<1>10. (p \div BLOCK_SIZE) + 1 \in 1 .. n /\ (p % BLOCK_SIZE) + 1 \in 1 .. BLOCK_SIZE
  <2> DEFINE q == p \div BLOCK_SIZE
             r == p % BLOCK_SIZE
  <2>1. q \in 0 .. n - 1 /\ r \in 0 .. BLOCK_SIZE - 1
    BY <1>9
  <2> HIDE DEF q, r
  <2>2. q + 1 \in 1 .. n /\ r + 1 \in 1 .. BLOCK_SIZE
    BY <1>0, <1>3, <2>1
  <2> QED
    BY <2>2 DEF q, r
<1> QED
  BY <1>10 DEF divCeilRW, n

\* The cell of each byte that a write copies is in a block its file has.
LEMMA WritesWhere ==
    ASSUME TypeInv, NEW t \in Threads, Writes(t), NEW x, x = thread[t].inum,
           NEW b \in Blocks, \A k \in 1 .. inode_table[x].blocksAlloc : BlockOf(x, k) # b
    PROVE  fs_data'[b] = fs_data[b]
<1> DEFINE me == thread[t]
           node == inode_table[me.inum]
           off == open_file_table[me.h].of_offset
           m == WriteLength(t)
           Wrote(c) == {p \in off .. off + m - 1 : CellOf(node, p) = <<b, c>>}
<1>1. thread[t].h \in Handles
  BY DEF Writes, TypeInv, ThreadStates, StageOK, WithHandle, Writing
<1>2. m \in Nat /\ off \in Nat
  <2>1. m \in Nat /\ off \in 0 .. MAX_FILE_SIZE
    BY <1>1, WriteLengthBound
  <2> QED
    BY <2>1, Sizes
<1>3. fs_data'[b] = [c \in 1 .. BLOCK_SIZE |->
                       IF Wrote(c) = {} THEN fs_data[b][c]
                       ELSE me.buf[(CHOOSE p \in Wrote(c) : TRUE) - off + 1]]
  BY DEF Writes, WriteLength
<1>4. ASSUME NEW c, NEW p \in off .. off + m - 1, CellOf(node, p) = <<b, c>> PROVE FALSE
  <2>1. p \in Nat /\ p < off + m /\ off <= p
    <3> HIDE DEF off, m
    <3> QED
      BY <1>2
  <2>2. divCeilRW(p, BLOCK_SIZE) \in 1 .. node.blocksAlloc
    BY <1>1, <2>1, WrittenBlock
  <2> DEFINE k == divCeilRW(p, BLOCK_SIZE)
  <2>3. CellOf(node, p)[1] = getNthDataBlock(node, k)
    BY DEF CellOf
  <2>4. getNthDataBlock(node, k) = b
    BY <1>4, <2>3
  <2>5. node.blocksAlloc \in Nat
    BY BlocksAssumption DEF TypeInv, ThreadStates, ThreadType, InodeType
  <2>6. k # 0
    BY <2>2, <2>5
  <2>7. getNthDataBlock(node, k) = BlockOf(x, k)
    BY <2>6 DEF getNthDataBlock, BlockOf, BlockAt
  <2> QED
    BY <2>2, <2>4, <2>7
<1>5. \A c \in 1 .. BLOCK_SIZE : Wrote(c) = {}
  BY <1>4
<1>6. fs_data[b] \in [1 .. BLOCK_SIZE -> Nat]
  BY DEF TypeInv
<1> HIDE DEF Wrote, me, off
<1> QED
  BY <1>3, <1>5, <1>6

\* A write changes bytes only.
LEMMA BlocksWritten ==
    ASSUME Inv, FileInv, BlockInv, NEW t \in Threads, Writes(t)
    PROVE  BlockInv'
<1>a. PICK x : x = thread[t].inum
  OBVIOUS
<1>0. /\ TypeInv /\ LockInv /\ UNCHANGED <<directory, takenBlocks>>
      /\ thread[t].stage \in {"alloc", "store"} /\ thread[t].stage \in Writing /\ Ends(t)
      /\ inode_table' = [inode_table EXCEPT ![x].i_size =
           Greatest(@, open_file_table[thread[t].h].of_offset + WriteLength(t))]
  BY <1>a DEF Inv, Writes, Writing, WriteLength
<1>1. thread'[t].stage = "idle" /\ \A u \in Threads \ {t} : thread'[u] = thread[u]
  BY <1>0, StepFields DEF Idle
<1>2. /\ x \in FileInodes /\ x \in Inumbers /\ inode_table[x] \in InodeType
      /\ \A k \in Keys : InUse(x, k) <=> HasKey(inode_table[x], k)
  BY <1>0, <1>a, WriterUses DEF Between
<1>3. \A k \in 1 .. inode_table[x].blocksAlloc : k \in Keys /\ k # 0 /\ InUse(x, k)
  <2>1. inode_table[x].blocksAlloc \in 0 .. MAX_INODE_BLOCKS /\ MAX_INODE_BLOCKS \in Nat
    BY <1>2, BlocksAssumption DEF InodeType
  <2>2. \A k \in 1 .. inode_table[x].blocksAlloc : HasKey(inode_table[x], k) /\ k \in Keys /\ k # 0
    BY <2>1 DEF HasKey, Keys
  <2> QED
    BY <1>2, <2>2
<1>4. ASSUME NEW i \in FileInodes, NEW k \in Keys, InUse(i, k), k > DIRECT_BLOCK_COUNT
      PROVE  fs_data'[inode_table[i].indirect_data_block] = fs_data[inode_table[i].indirect_data_block]
  <2>1. i \in Inumbers
    BY <1>0 DEF FileInodes, TypeInv
  <2>2. InUse(i, 0) /\ BlockOf(i, 0) = inode_table[i].indirect_data_block /\ 0 \in Keys
    BY <1>0, <1>4, <2>1, IndirectInUse
  <2>3. \A l \in 1 .. inode_table[x].blocksAlloc : BlockOf(x, l) # BlockOf(i, 0)
    BY <1>2, <1>3, <2>2 DEF BlockInv
  <2>4. BlockOf(i, 0) \in Blocks
    BY <1>0, <2>2 DEF BlockInv, TypeInv
  <2>5. PICK b : b = BlockOf(i, 0)
    OBVIOUS
  <2>6. fs_data'[b] = fs_data[b]
    BY <1>0, <1>a, <2>3, <2>4, <2>5, WritesWhere
  <2> QED
    BY <2>2, <2>5, <2>6
<1>5. ASSUME NEW i \in FileInodes
      PROVE  SameNode(i)
  <2>1. i \in Inumbers
    BY <1>0 DEF FileInodes, TypeInv
  <2>2. /\ inode_table'[i].blocksAlloc = inode_table[i].blocksAlloc
        /\ inode_table'[i].i_data_block = inode_table[i].i_data_block
        /\ inode_table'[i].indirect_data_block = inode_table[i].indirect_data_block
    <3>1. inode_table \in [Inumbers -> InodeType]
      BY <1>0 DEF TypeInv
    <3> QED
      BY <1>0, <2>1, <3>1 DEF InodeType
  <2> QED
    BY <1>4, <2>2 DEF SameNode
<1>6. \A i : ~Deletes(thread[t], i) /\ ~Deletes(thread'[t], i)
             /\ ~Waiting(thread[t], i) /\ ~Waiting(thread'[t], i)
  BY <1>0, <1>1 DEF Deletes, Waiting, Between
<1> QED
  BY <1>0, <1>1, <1>5, <1>6, BlocksRest

\* A block is taken for a write: the three ways.  The thread goes on as it was
\* where that is all that is done for its file.
LEMMA BlocksAllocated ==
    ASSUME Inv, FileInv, BlockInv, TypeInv', NEW t \in Threads, AllocsBlock(t)
    PROVE  BlockInv' /\ (thread'[t] = thread[t] => Grown(thread[t].inum))
<1>a. PICK x : x = thread[t].inum
  OBVIOUS
<1>b. PICK b : b = Lowest(Blocks \ takenBlocks)
  OBVIOUS
<1>c. PICK n : n = inode_table[x].blocksAlloc + 1
  OBVIOUS
<1>0. /\ TypeInv /\ thread[t].stage = "alloc" /\ thread[t].stage \in Writing
      /\ NeedsBlock(thread[t]) /\ takenBlocks # Blocks
      /\ takenBlocks' = takenBlocks \cup {b} /\ UNCHANGED directory
  BY <1>b DEF Inv, AllocsBlock, Writing, Alloc
<1>1. b \in Blocks /\ b \notin takenBlocks
  BY <1>0, <1>b, FreeBlock
<1>2. n \in 0 .. MAX_INODE_BLOCKS /\ n \in Int /\ DIRECT_BLOCK_COUNT \in Nat
  BY <1>0, <1>a, <1>c, RoomForBlock, BlocksAssumption
<1> SUFFICES BlockInv' /\ (thread'[t] = thread[t] => Grown(x))
  BY <1>a
<1>3. CASE /\ n <= DIRECT_BLOCK_COUNT
           /\ inode_table' = [inode_table EXCEPT ![x].i_data_block = Append(@, b),
                                                 ![x].blocksAlloc = n]
           /\ fs_data' = Zeroed(b) /\ UNCHANGED thread
  BY <1>0, <1>1, <1>2, <1>3, <1>a, <1>c, BlocksDirect DEF TakesDirect
<1>4. CASE /\ n = DIRECT_BLOCK_COUNT + 1
           /\ inode_table' = [inode_table EXCEPT ![x].indirect_data_block = b]
           /\ fs_data' = Zeroed(b) /\ Stays(t, "indirect")
  <2>1. inode_table[x].blocksAlloc = DIRECT_BLOCK_COUNT
    <3>1. inode_table[x].blocksAlloc \in Int
      <4>1. x \in Inumbers
        BY <1>0, <1>a DEF TypeInv, ThreadStates, ThreadType
      <4> QED
        BY <1>0, <4>1 DEF TypeInv, InodeType
    <3> QED
      BY <1>2, <1>4, <1>c, <3>1
  <2>2. thread'[t] # thread[t]
    <3>1. thread'[t].stage = "indirect"
      BY <1>0, <1>4, StepFields
    <3> QED
      BY <1>0, <3>1
  <2> QED
    BY <1>0, <1>1, <1>4, <1>a, <2>1, <2>2, BlocksAhead
<1>5. CASE /\ n > DIRECT_BLOCK_COUNT + 1
           /\ inode_table' = [inode_table EXCEPT ![x].blocksAlloc = n]
           /\ fs_data' = [Zeroed(b) EXCEPT
                ![inode_table[x].indirect_data_block][n - DIRECT_BLOCK_COUNT] = b]
           /\ UNCHANGED thread
  <2>1. n > DIRECT_BLOCK_COUNT /\ n # DIRECT_BLOCK_COUNT + 1
    BY <1>2, <1>5
  <2>2. thread[t].stage \notin Between /\ thread'[t].stage = "alloc"
        /\ \A u \in Threads \ {t} : thread'[u] = thread[u]
    BY <1>0, <1>5 DEF Between
  <2>3. /\ inode_table' = [inode_table EXCEPT ![x].blocksAlloc = n]
        /\ fs_data' = [Zeroed(b) EXCEPT
             ![inode_table[x].indirect_data_block][n - DIRECT_BLOCK_COUNT] = b]
    BY <1>5
  <2> QED
    BY <1>0, <1>1, <1>2, <1>a, <1>c, <2>1, <2>2, <2>3, BlocksBehind DEF TakesBehind
<1> QED
  BY <1>3, <1>4, <1>5, <1>a, <1>b, <1>c DEF AllocsBlock

\* The block behind a new indirect block.
LEMMA BlocksAllocatedNext ==
    ASSUME Inv, FileInv, BlockInv, TypeInv', NEW t \in Threads, AllocsIndirect(t)
    PROVE  BlockInv'
<1>a. PICK x : x = thread[t].inum
  OBVIOUS
<1>b. PICK b : b = Lowest(Blocks \ takenBlocks)
  OBVIOUS
<1>c. PICK n : n = inode_table[x].blocksAlloc + 1
  OBVIOUS
<1>0. /\ TypeInv /\ RoomInv /\ thread[t].stage = "indirect" /\ thread[t].stage \in Writing
      /\ thread[t].stage \in Between /\ UNCHANGED directory
  BY DEF Inv, AllocsIndirect, Writing, Between
<1>1. CASE Stays(t, "release") /\ UNCHANGED <<inode_table, disk>>
  BY <1>0, <1>1, BlocksUnlucky
<1>2. CASE /\ Blocks \ takenBlocks # {} /\ Alloc(b)
           /\ fs_data' = [Zeroed(b) EXCEPT ![inode_table[x].indirect_data_block][1] = b]
           /\ inode_table' = [inode_table EXCEPT ![x].blocksAlloc = @ + 1]
           /\ Stays(t, "alloc")
  <2>1. b \in Blocks /\ b \notin takenBlocks /\ takenBlocks' = takenBlocks \cup {b}
    BY <1>0, <1>2, <1>b, FreeBlock DEF Alloc
  <2>2. DIRECT_BLOCK_COUNT \in Nat /\ n = DIRECT_BLOCK_COUNT + 1 /\ n \in 0 .. MAX_INODE_BLOCKS
    BY <1>0, <1>a, <1>c, BlocksAssumption DEF RoomInv
  <2>3. n > DIRECT_BLOCK_COUNT /\ n - DIRECT_BLOCK_COUNT = 1
    BY <2>2
  <2>4. inode_table' = [inode_table EXCEPT ![x].blocksAlloc = n]
    BY <1>2, <1>c
  <2>5. fs_data' = [Zeroed(b) EXCEPT
          ![inode_table[x].indirect_data_block][n - DIRECT_BLOCK_COUNT] = b]
    BY <1>2, <2>3
  <2>6. thread'[t].stage = "alloc" /\ \A u \in Threads \ {t} : thread'[u] = thread[u]
    BY <1>0, <1>2, StepFields
  <2> QED
    BY <1>0, <1>a, <1>c, <2>1, <2>2, <2>3, <2>4, <2>5, <2>6, BlocksBehind DEF TakesBehind
<1> QED
  BY <1>1, <1>2, <1>a, <1>b DEF AllocsIndirect

\* Every step of a call.
LEMMA BlocksStep ==
    ASSUME Inv, FileInv, BlockInv, TypeInv', NEW t \in Threads, Step(t)
    PROVE  BlockInv'
BY BlocksCreated, BlocksLocked, BlocksFreed, BlocksTruncated, BlocksIdle, BlocksAllocated,
   BlocksAllocatedNext, BlocksReleased, BlocksWritten DEF Step

\* The invariants together: what the locks, names and types say, which files are
\* referred to, and where the blocks are.
AllInv == Inv /\ FileInv /\ BlockInv

\* Every step preserves them.
LEMMA AllNext == AllInv /\ [Next]_vars => AllInv'
<1> SUFFICES ASSUME AllInv, [Next]_vars PROVE AllInv'
  OBVIOUS
<1>0. Inv /\ FileInv /\ BlockInv
  BY DEF AllInv
<1>1. Inv' /\ TypeInv'
  BY <1>0, InvNext DEF Inv
<1>2. CASE Restart
  BY <1>0, <1>1, <1>2, BlocksRestart DEF AllInv
<1>3. ASSUME NEW t \in Threads, Calls(t) PROVE AllInv'
  BY <1>0, <1>1, <1>3, FilesCalls, BlocksCalls DEF AllInv
<1>4. ASSUME NEW t \in Threads, Step(t) PROVE AllInv'
  BY <1>0, <1>1, <1>4, FilesStep, BlocksStep DEF AllInv
<1>5. CASE UNCHANGED vars
  <2>1. UNCHANGED <<inode_table, takenInodes, fs_data, takenBlocks, open_file_table, thread, issued>>
    BY <1>5 DEF vars, store, directory, disk, table
  <2>2. FileInodes' = FileInodes
    BY <2>1 DEF FileInodes
  <2>3. FileInv'
    BY <1>0, <2>1, <2>2 DEF FileInv, Copies
  <2>4. ASSUME NEW i
        PROVE  /\ \A k \in Keys : /\ InUse(i, k)' <=> InUse(i, k)
                                  /\ InUse(i, k) => BlockOf(i, k)' = BlockOf(i, k)
               /\ Shaped(inode_table[i]) => Shaped(inode_table'[i])
    <3>1. At({"delete"}, i)' = At({"delete"}, i) /\ At(Between, i)' = At(Between, i)
      BY <2>1 DEF At, Between
    <3>2. Freed(i)' = Freed(i)
      <4> DEFINE S == At({"delete"}, i)
      <4>1. S' = S /\ thread' = thread
        BY <2>1, <3>1
      <4>2. /\ Freed(i) = IF S = {} THEN 0 ELSE thread[CHOOSE t \in S : TRUE].freed
            /\ Freed(i)' = IF S' = {} THEN 0 ELSE thread'[CHOOSE t \in S' : TRUE].freed
        BY DEF Freed
      <4> HIDE DEF S
      <4> QED
        BY <4>1, <4>2
    <3>3. SameNode(i)
      BY <2>1 DEF SameNode
    <3> QED
      BY <3>1, <3>2, <3>3, SameFile
  <2>5. \A u \in Threads : thread'[u].stage = "delete" =>
          thread'[u].freed <= FreeLen(inode_table'[thread'[u].inum])
    BY <1>0, <2>1 DEF BlockInv
  <2>6. BlockInv'
    BY <1>0, <2>1, <2>2, <2>4, <2>5, BlocksSame DEF BlockInv
  <2> QED
    BY <1>1, <2>3, <2>6 DEF AllInv
<1> QED
  BY <1>2, <1>3, <1>4, <1>5 DEF Next

\* They hold in every state.
LEMMA AllInvariant == Spec => []AllInv
<1>1. Init => AllInv
  BY InvInit, FilesInit, BlocksInit DEF AllInv
<1> QED
  BY <1>1, AllNext, PTL DEF Spec

(* What follows *)

\* Where BlocksOf lists the block at a place.
Listed(i, k) ==
    IF k = 0 /\ At(Between, i) # {} THEN FreeLen(inode_table[i]) - Freed(i) + 1
    ELSE FreePos(inode_table[i], k) - Freed(i)

\* BlocksOf lists the blocks of the places in use, each once.
LEMMA BlocksListed ==
    ASSUME AllInv, NEW i \in FileInodes
    PROVE  /\ \A p \in DOMAIN BlocksOf(i) :
                p \in 1 .. MAX_INODE_BLOCKS + 2 /\ \E k \in Keys : InUse(i, k) /\ Listed(i, k) = p
           /\ \A k \in Keys : InUse(i, k) =>
                Listed(i, k) \in DOMAIN BlocksOf(i) /\ BlocksOf(i)[Listed(i, k)] = BlockOf(i, k)
<1> DEFINE node == inode_table[i]
           order == FreeOrder(node)
           len == FreeLen(node)
           f == Freed(i)
           tail == IF At(Between, i) = {} THEN <<>> ELSE <<node.indirect_data_block>>
           rest == SubSeq(order, f + 1, len)
           m == len - f
<1>0. TypeInv /\ LockInv /\ RoomInv /\ FileInv /\ BlockInv /\ i \in Inumbers
  BY DEF AllInv, Inv, TypeInv, FileInodes
<1>1. node \in InodeType /\ Shaped(node)
  BY <1>0 DEF TypeInv, BlockInv
<1>2. order \in Seq(Nat) /\ Len(order) = len
      /\ \A k : HasKey(node, k) => order[FreePos(node, k)] = BlockAt(node, fs_data, k)
  BY <1>0, <1>1, FreeOrderIs
<1>3. len \in 0 .. MAX_INODE_BLOCKS + 1 /\ MAX_INODE_BLOCKS \in Nat
  <2>1. node.blocksAlloc \in 0 .. MAX_INODE_BLOCKS
    BY <1>1 DEF InodeType
  <2>2. MAX_INODE_BLOCKS \in Nat /\ (len = node.blocksAlloc + 1 \/ len = node.blocksAlloc)
    BY BlocksAssumption DEF FreeLen
  <2> HIDE DEF len, node
  <2> QED
    BY <2>1, <2>2
<1>4. f \in 0 .. len
  <2>1. CASE \A u \in Threads : ~Deletes(thread[u], i)
    <3>1. f = 0
      BY <1>0, <2>1, FreedIs
    <3> QED
      BY <1>3, <3>1
  <2>2. ASSUME NEW u \in Threads, Deletes(thread[u], i) PROVE f \in 0 .. len
    <3>1. f = thread[u].freed /\ thread[u].freed <= len /\ thread[u].freed \in Nat
      BY <1>0, <2>2, FreedIs DEF Deletes, BlockInv, TypeInv, ThreadStates, ThreadType
    <3> HIDE DEF f, len
    <3> QED
      BY <1>3, <3>1
  <2> QED
    BY <2>1, <2>2
<1>5. BlocksOf(i) = rest \o tail
  <2>1. BlocksOf(i) = SubSeq(order, f + 1, Len(order)) \o tail
    BY DEF BlocksOf, Freed, Between
  <2> QED
    BY <1>2, <2>1
<1>6. At(Between, i) # {} => \A k : HasKey(node, k) => k # 0
  <2> SUFFICES ASSUME At(Between, i) # {} PROVE \A k : HasKey(node, k) => k # 0
    OBVIOUS
  <2>1. PICK u \in Threads : thread[u].stage \in Between /\ thread[u].inum = i
    BY DEF At
  <2>2. node.blocksAlloc = DIRECT_BLOCK_COUNT /\ DIRECT_BLOCK_COUNT \in Nat
    BY <1>0, <2>1, BlocksAssumption DEF RoomInv
  <2> QED
    BY <2>2 DEF HasKey
<1>7. node.indirect_data_block \in Nat
  BY <1>1, BlocksAssumption DEF InodeType, Blocks
<1> HIDE DEF order, len, f
<1>8. m \in Nat /\ f \in Nat /\ len \in Nat /\ m <= MAX_INODE_BLOCKS + 1
  BY <1>3, <1>4
<1>9. rest \in Seq(Nat) /\ Len(rest) = m /\ \A j \in 1 .. m : rest[j] = order[f + j]
  <2>1. /\ f + 1 \in 1 .. Len(order) + 1 /\ len \in f .. Len(order) /\ f + 1 \in Nat
        /\ f + 1 <= len + 1
    BY <1>2, <1>3, <1>4
  <2>2. CASE f = len
    <3>1. rest = <<>>
      BY <1>2, <1>8, <2>2
    <3> QED
      BY <1>8, <2>2, <3>1
  <2>3. CASE f < len
    <3>1. f + 1 \in 1 .. Len(order) + 1 /\ len \in f + 1 - 1 .. Len(order)
      BY <1>2, <1>8, <2>3
    <3>2. rest \in Seq(Nat) /\ Len(rest) = len - (f + 1) + 1
          /\ \A j \in 1 .. (len - (f + 1) + 1) : rest[j] = order[(f + 1) + j - 1]
      BY <1>2, <1>8, <2>3, SubSeqProperties
    <3>3. len - (f + 1) + 1 = m /\ \A j \in 1 .. m : (f + 1) + j - 1 = f + j
      BY <1>8
    <3> QED
      BY <3>2, <3>3
  <2> QED
    BY <1>4, <1>8, <2>2, <2>3
<1>10. tail \in Seq(Nat) /\ Len(tail) \in {0, 1}
       /\ (At(Between, i) = {} => Len(tail) = 0)
       /\ (At(Between, i) # {} => Len(tail) = 1 /\ tail[1] = node.indirect_data_block)
  BY <1>7
<1> HIDE DEF rest, tail, m
<1>11. /\ BlocksOf(i) \in Seq(Nat) /\ DOMAIN BlocksOf(i) = 1 .. m + Len(tail)
       /\ \A j \in 1 .. m + Len(tail) :
            BlocksOf(i)[j] = IF j <= m THEN rest[j] ELSE tail[j - m]
  BY <1>5, <1>9, <1>10, ConcatProperties
<1>a. PICK n : n = Len(tail)
  OBVIOUS
<1>b. n \in {0, 1} /\ (At(Between, i) = {} => n = 0)
  BY <1>10, <1>a
<1>12. ASSUME NEW p \in DOMAIN BlocksOf(i)
       PROVE  p \in 1 .. MAX_INODE_BLOCKS + 2 /\ \E k \in Keys : InUse(i, k) /\ Listed(i, k) = p
  <2>1. p \in 1 .. m + n
    BY <1>11, <1>a
  <2>2. p \in 1 .. MAX_INODE_BLOCKS + 2
    BY <1>3, <1>8, <1>b, <2>1
  <2>3. CASE p <= m
    <3>1. f + p \in 1 .. len /\ f < f + p /\ (f + p) - f = p
      BY <1>8, <2>1, <2>3 DEF m
    <3>2. PICK k : HasKey(node, k) /\ FreePos(node, k) = f + p
      BY <1>1, <3>1, FreePositions DEF len
    <3>3. k \in Keys /\ InUse(i, k)
      BY <1>1, <3>1, <3>2, FreePositions DEF InUse, f
    <3>4. Listed(i, k) = p
      BY <1>6, <3>1, <3>2 DEF Listed, f
    <3> QED
      BY <2>2, <3>3, <3>4
  <2>4. CASE p > m
    <3>1. At(Between, i) # {} /\ p = m + 1
      BY <1>8, <1>b, <2>1, <2>4
    <3>2. 0 \in Keys
      BY <1>3 DEF Keys
    <3>3. InUse(i, 0) /\ Listed(i, 0) = p
      BY <3>1 DEF InUse, Listed, m, f, len
    <3> QED
      BY <2>2, <3>2, <3>3
  <2> QED
    BY <1>8, <2>1, <2>3, <2>4
<1>13. ASSUME NEW k \in Keys, InUse(i, k)
       PROVE  Listed(i, k) \in DOMAIN BlocksOf(i) /\ BlocksOf(i)[Listed(i, k)] = BlockOf(i, k)
  <2>1. CASE k = 0 /\ At(Between, i) # {}
    <3>1. Listed(i, k) = m + 1
      BY <2>1 DEF Listed, m, f, len
    <3>2. m + 1 \in 1 .. m + Len(tail) /\ ~(m + 1 <= m) /\ (m + 1) - m = 1
      BY <1>8, <1>10, <2>1
    <3>3. BlocksOf(i)[m + 1] = tail[1]
      BY <1>11, <3>2
    <3>4. BlockOf(i, k) = node.indirect_data_block
      BY <2>1 DEF BlockOf, BlockAt
    <3> QED
      BY <1>10, <1>11, <2>1, <3>1, <3>2, <3>3, <3>4
  <2>2. CASE ~(k = 0 /\ At(Between, i) # {})
    <3>1. HasKey(node, k) /\ f < FreePos(node, k)
      BY <1>13, <2>2 DEF InUse, f
    <3>2. FreePos(node, k) \in 1 .. len
      BY <1>1, <3>1, FreePositions DEF len
    <3>3. Listed(i, k) = FreePos(node, k) - f
      BY <2>2 DEF Listed, f
    <3> DEFINE q == FreePos(node, k)
    <3>4. q \in 1 .. len /\ f < q /\ Listed(i, k) = q - f
      BY <3>1, <3>2, <3>3
    <3> HIDE DEF q
    <3>5. /\ q - f \in 1 .. m /\ q - f \in 1 .. m + Len(tail) /\ q - f <= m /\ f + (q - f) = q
      BY <1>8, <1>10, <3>4 DEF m
    <3>6. BlocksOf(i)[q - f] = order[q]
      BY <1>9, <1>11, <3>5
    <3>7. order[q] = BlockOf(i, k)
      BY <1>2, <3>1 DEF BlockOf, q
    <3> QED
      BY <1>11, <3>4, <3>5, <3>6, <3>7
  <2> QED
    BY <2>1, <2>2
<1> QED
  BY <1>12, <1>13

\* Taken blocks are those that files list, none twice.
LEMMA BlocksImplied == AllInv => BlocksAccounted
<1> SUFFICES ASSUME AllInv PROVE BlocksAccounted
  OBVIOUS
<1> DEFINE Places == {p \in FileInodes \X (1 .. MAX_INODE_BLOCKS + 2) :
                        p[2] \in DOMAIN BlocksOf(p[1])}
           Block(p) == BlocksOf(p[1])[p[2]]
<1>0. BlockInv
  BY DEF AllInv
<1>1. ASSUME NEW p \in Places
      PROVE  p[1] \in FileInodes /\ p[2] \in DOMAIN BlocksOf(p[1])
             /\ \E k \in Keys : /\ InUse(p[1], k) /\ Listed(p[1], k) = p[2]
                                /\ BlockOf(p[1], k) = Block(p)
  <2>1. p[1] \in FileInodes /\ p[2] \in DOMAIN BlocksOf(p[1])
    OBVIOUS
  <2> DEFINE i == p[1]
  <2>2. PICK k \in Keys : InUse(i, k) /\ Listed(i, k) = p[2]
    BY <2>1, BlocksListed
  <2>3. BlockOf(i, k) = Block(p)
    BY <2>1, <2>2, BlocksListed
  <2> QED
    BY <2>1, <2>2, <2>3
<1>2. ASSUME NEW i \in FileInodes, NEW k \in Keys, InUse(i, k)
      PROVE  \E p \in Places : Block(p) = BlockOf(i, k)
  <2>1. Listed(i, k) \in DOMAIN BlocksOf(i) /\ BlocksOf(i)[Listed(i, k)] = BlockOf(i, k)
    BY <1>2, BlocksListed
  <2>2. Listed(i, k) \in 1 .. MAX_INODE_BLOCKS + 2
    BY <2>1, BlocksListed
  <2> DEFINE p == <<i, Listed(i, k)>>
  <2>3. p \in Places /\ Block(p) = BlockOf(i, k)
    BY <2>1, <2>2
  <2> QED
    BY <2>3
<1>3. ASSUME NEW p \in Places PROVE Block(p) \in takenBlocks /\ Block(p) # 0
  BY <1>0, <1>1 DEF BlockInv
<1>4. ASSUME NEW b \in takenBlocks, b # 0 PROVE \E p \in Places : Block(p) = b
  <2>1. PICK i \in FileInodes, k \in Keys : InUse(i, k) /\ BlockOf(i, k) = b
    BY <1>0, <1>4 DEF BlockInv
  <2> QED
    BY <1>2, <2>1
<1>5. ASSUME NEW p \in Places, NEW q \in Places, Block(p) = Block(q) PROVE p = q
  <2>1. PICK k \in Keys : InUse(p[1], k) /\ Listed(p[1], k) = p[2] /\ BlockOf(p[1], k) = Block(p)
    BY <1>1
  <2>2. PICK l \in Keys : InUse(q[1], l) /\ Listed(q[1], l) = q[2] /\ BlockOf(q[1], l) = Block(q)
    BY <1>1
  <2>3. p[1] = q[1] /\ k = l
    BY <1>0, <1>1, <1>5, <2>1, <2>2 DEF BlockInv
  <2>4. p[2] = q[2]
    BY <2>1, <2>2, <2>3
  <2> QED
    BY <2>3, <2>4
<1>6. takenBlocks = {0} \cup {Block(p) : p \in Places}
  BY <1>0, <1>3, <1>4 DEF BlockInv
<1> HIDE DEF Places, Block
<1> QED
  BY <1>3, <1>5, <1>6 DEF BlocksAccounted, Places, Block

\* Every taken block belongs to one place of one file and no block of a file is
\* free: state.c's allocation of blocks one at a time, and its deletion of them,
\* with the indirect block taken first and freed after those it names, lose and
\* share none, whatever other threads take and free in between.
THEOREM BlocksCorrect == Spec => []BlocksAccounted
BY AllInvariant, BlocksImplied, PTL

=============================================================================
