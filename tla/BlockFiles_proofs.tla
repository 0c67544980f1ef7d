------------------------- MODULE BlockFiles_proofs -------------------------
(***************************************************************************)
(* Proofs about BlockFiles, for any number of threads and any sizes of the *)
(* tables, with handles that are closed and opened again while they are in *)
(* use: types, locks, the absence of deadlock, and the directory.          *)
(***************************************************************************)
EXTENDS BlockFiles, WellFoundedInduction, SequenceTheorems, TLAPS

\* A non-empty set of natural numbers has a smallest one.
LEMMA LowestWorks ==
    ASSUME NEW D, D \subseteq Nat, D # {}
    PROVE  Lowest(D) \in D
<1> DEFINE R == OpToRel(<, Nat)
<1>1. R = {ss \in Nat \X Nat : ss[1] < ss[2]}
  BY DEF OpToRel
<1>2. \E x \in D : \A y \in D : ~(<<y, x>> \in R)
  <2>1. IsWellFoundedOn(R, Nat)
    BY NatLessThanWellFounded
  <2> HIDE DEF R
  <2> QED
    BY <2>1, WFMin
<1> HIDE DEF R
<1>3. PICK x \in D : \A y \in D : ~(y < x)
  BY <1>1, <1>2
<1>4. \A y \in D : x <= y
  BY <1>3
<1> QED
  BY <1>4 DEF Lowest

\* Whatever block, i-node or handle is free, the search finds one.
LEMMA FreeOnes ==
    /\ \A D \in SUBSET Inumbers : D # {} => Lowest(D) \in D
    /\ \A D \in SUBSET Handles : D # {} => Lowest(D) \in D
    /\ \A D \in SUBSET Blocks : D # {} => Lowest(D) \in D
<1>1. Inumbers \subseteq Nat /\ Handles \subseteq Nat /\ Blocks \subseteq Nat
  BY BlocksAssumption DEF Inumbers, Handles, Blocks
<1> QED
  BY <1>1, LowestWorks

\* The sizes of a file and of its blocks.
LEMMA Sizes ==
    /\ MAX_FILE_SIZE \in Nat
    /\ \A k \in 0 .. MAX_INODE_BLOCKS : k * BLOCK_SIZE \in 0 .. MAX_FILE_SIZE
    /\ \A n \in 0 .. MAX_FILE_SIZE : divCeil(n, BLOCK_SIZE) <= MAX_INODE_BLOCKS
<1>0. /\ BLOCK_SIZE \in Nat \ {0} /\ MAX_INODE_BLOCKS \in Nat
  BY BlocksAssumption
<1>1. MAX_FILE_SIZE \in Nat
  BY <1>0 DEF MAX_FILE_SIZE
<1>2. ASSUME NEW k \in 0 .. MAX_INODE_BLOCKS PROVE k * BLOCK_SIZE \in 0 .. MAX_FILE_SIZE
  BY <1>0 DEF MAX_FILE_SIZE
<1>3. ASSUME NEW n \in 0 .. MAX_FILE_SIZE PROVE divCeil(n, BLOCK_SIZE) <= MAX_INODE_BLOCKS
  BY <1>0 DEF MAX_FILE_SIZE, divCeil
<1> QED
  BY <1>1, <1>2, <1>3

-----------------------------------------------------------------------------
(* Types *)

InodeType == [i_size : 0 .. MAX_FILE_SIZE, blocksAlloc : 0 .. MAX_INODE_BLOCKS,
              i_data_block : Seq(Blocks), indirect_data_block : Blocks]
EntryType == [of_inumber : Inumbers, of_offset : 0 .. MAX_FILE_SIZE, isAppending : BOOLEAN]
LockType  == [writer : Threads \cup {NoThread}, readers : SUBSET Threads]
NameType  == [d_name : Names, d_inumber : Inumbers]
ThreadType ==
    [stage : Stages, op : {"none", "open", "copy", "write", "read"},
     name : Names \cup {NoName}, flags : SUBSET {"TFS_O_CREAT", "TFS_O_TRUNC", "TFS_O_APPEND"},
     h : Handles \cup {NoHandle}, inum : Inumbers, offset : 0 .. MAX_FILE_SIZE,
     isAppending : BOOLEAN, buf : Seq(Nat), len : Nat, freed : Nat]

\* The call a thread is in and what it knows, at each stage.
Opening == {"create", "truncate", "delete", "append", "add", "fill"}
WithHandle == {"fill", "find", "check", "lock", "entry", "close"} \cup Writing

StageOK(me) ==
    /\ me.stage \in Opening => me.op \in {"open", "copy"} /\ me.name \in Names
    /\ me.stage \in {"find", "close"} => me.op = "copy"
    /\ me.stage = "check" => me.op \in {"read", "copy"}
    /\ me.stage \in {"lock", "entry"} => me.op \in {"read", "write", "copy"}
    /\ me.stage \in Writing => me.op = "write"
    /\ me.stage \in WithHandle => me.h \in Handles
    /\ me.stage # "delete" => me.freed = 0
    /\ me.stage = "idle" => me.inum = ROOT_DIR_INUM

ThreadStates == {me \in ThreadType : StageOK(me)}

TypeInv ==
    /\ inode_table \in [Inumbers -> InodeType]
    /\ takenInodes \subseteq Inumbers /\ ROOT_DIR_INUM \in takenInodes
    /\ dir_entry \in Seq(NameType)
    /\ fs_data \in [Blocks -> [1 .. BLOCK_SIZE -> Nat]]
    /\ takenBlocks \subseteq Blocks
    /\ open_file_table \in [Handles -> EntryType]
    /\ takenHandles \subseteq Handles
    /\ rwlock \in [Inumbers -> LockType]
    /\ file_entry_mutex \in [Handles -> Threads \cup {NoThread}]
    /\ thread \in [Threads -> ThreadStates]
    /\ DOMAIN issued \subseteq Handles
    /\ \A h \in DOMAIN issued : issued[h] \in BOOLEAN

\* The types the proofs use are those of TypeOK, and more of a thread.
LEMMA TypesImplied == TypeInv => TypeOK
<1> SUFFICES ASSUME TypeInv PROVE TypeOK
  OBVIOUS
<1>1. inode_table \in [Inumbers -> [i_size : 0 .. MAX_FILE_SIZE, blocksAlloc : 0 .. MAX_INODE_BLOCKS,
                                    i_data_block : Seq(Blocks), indirect_data_block : Blocks]]
  BY DEF TypeInv, InodeType
<1>2. dir_entry \in Seq([d_name : Names, d_inumber : Inumbers])
  BY DEF TypeInv, NameType
<1>3. open_file_table \in [Handles -> [of_inumber : Inumbers, of_offset : 0 .. MAX_FILE_SIZE,
                                       isAppending : BOOLEAN]]
  BY DEF TypeInv, EntryType
<1>4. rwlock \in [Inumbers -> [writer : Threads \cup {NoThread}, readers : SUBSET Threads]]
  BY DEF TypeInv, LockType
<1>5. DOMAIN thread = Threads /\ \A t \in Threads :
        thread[t].stage \in Stages /\ thread[t].inum \in Inumbers
        /\ thread[t].h \in Handles \cup {NoHandle}
  BY DEF TypeInv, ThreadStates, ThreadType
<1>6. DOMAIN fs_data = Blocks /\ \A b \in Blocks : fs_data[b] \in [1 .. BLOCK_SIZE -> Nat]
  BY DEF TypeInv
<1> QED
  BY <1>1, <1>2, <1>3, <1>4, <1>5, <1>6 DEF TypeInv, TypeOK

\* A step that leaves every variable with its type.
LEMMA TypesNext ==
    ASSUME TypeInv,
           inode_table' = inode_table \/ inode_table' \in [Inumbers -> InodeType],
           takenInodes' = takenInodes
             \/ (takenInodes' \subseteq Inumbers /\ ROOT_DIR_INUM \in takenInodes'),
           dir_entry' = dir_entry \/ dir_entry' \in Seq(NameType),
           fs_data' = fs_data \/ fs_data' \in [Blocks -> [1 .. BLOCK_SIZE -> Nat]],
           takenBlocks' = takenBlocks \/ takenBlocks' \subseteq Blocks,
           open_file_table' = open_file_table \/ open_file_table' \in [Handles -> EntryType],
           takenHandles' = takenHandles \/ takenHandles' \subseteq Handles,
           rwlock' = rwlock \/ rwlock' \in [Inumbers -> LockType],
           file_entry_mutex' = file_entry_mutex
             \/ file_entry_mutex' \in [Handles -> Threads \cup {NoThread}],
           thread' = thread \/ thread' \in [Threads -> ThreadStates],
           issued' = issued \/ (/\ DOMAIN issued' \subseteq Handles
                                /\ \A h \in DOMAIN issued' : issued'[h] \in BOOLEAN)
    PROVE  TypeInv'
BY DEF TypeInv

\* Zero is an i-number, and a size.
LEMMA Zeros ==
    /\ ROOT_DIR_INUM \in Inumbers /\ 0 \in Blocks /\ 0 \in 0 .. MAX_FILE_SIZE
    /\ 0 \in 0 .. MAX_INODE_BLOCKS /\ NewInode \in InodeType /\ NewEntry \in EntryType
    /\ NewLock \in LockType /\ Idle \in ThreadStates
<1>1. /\ ROOT_DIR_INUM \in Inumbers /\ 0 \in Blocks /\ 0 \in 0 .. MAX_FILE_SIZE
      /\ 0 \in 0 .. MAX_INODE_BLOCKS
  BY Sizes, BlocksAssumption DEF ROOT_DIR_INUM, Inumbers, Blocks
<1>2. <<>> \in Seq(Blocks) /\ <<>> \in Seq(Nat)
  OBVIOUS
<1>3. NewInode \in InodeType
  BY <1>1, <1>2 DEF NewInode, InodeType
<1>4. NewEntry \in EntryType
  BY <1>1 DEF NewEntry, EntryType
<1>5. NewLock \in LockType
  BY DEF NewLock, LockType
<1>6. Idle \in ThreadType
  BY <1>1, <1>2 DEF Idle, ThreadType, Stages
<1>7. StageOK(Idle)
  BY DEF StageOK, Idle, Opening, WithHandle, Writing
<1> QED
  BY <1>1, <1>3, <1>4, <1>5, <1>6, <1>7 DEF ThreadStates

\* tfs_init gives every variable its type.
LEMMA TypesInit == Init => TypeInv
<1> SUFFICES ASSUME Init PROVE TypeInv
  OBVIOUS
<1>1. fs_data \in [Blocks -> [1 .. BLOCK_SIZE -> Nat]]
  BY DEF Init
<1> QED
  BY <1>1, Zeros DEF Init, TypeInv

\* A lookup returns an entry of that name, or -1 when there is none.
LEMMA Lookups ==
    ASSUME TypeInv, NEW n
    PROVE  /\ find_in_dir(n) \in Inumbers \cup {-1}
           /\ find_in_dir(n) >= 0 => \E e \in DOMAIN dir_entry :
                 dir_entry[e].d_name = n /\ dir_entry[e].d_inumber = find_in_dir(n)
           /\ find_in_dir(n) < 0 => \A e \in DOMAIN dir_entry : dir_entry[e].d_name # n
<1> DEFINE found == {e \in DOMAIN dir_entry : dir_entry[e].d_name = n}
<1>1. DOMAIN dir_entry \subseteq Nat /\ \A e \in DOMAIN dir_entry : dir_entry[e].d_inumber \in Inumbers
  <2>1. dir_entry \in Seq(NameType)
    BY DEF TypeInv
  <2>2. \A e \in DOMAIN dir_entry : e \in Nat /\ dir_entry[e] \in NameType
    BY <2>1
  <2> QED
    BY <2>2 DEF NameType
<1>2. \A k \in Inumbers : k \in Nat /\ ~(k < 0)
  BY BlocksAssumption DEF Inumbers
<1>3. found # {} => Lowest(found) \in found
  BY <1>1, LowestWorks
<1>4. CASE found = {}
  <2>1. find_in_dir(n) = -1
    BY <1>4 DEF find_in_dir
  <2> QED
    BY <2>1, <1>4
<1>5. CASE found # {}
  <2>1. find_in_dir(n) = dir_entry[Lowest(found)].d_inumber
    BY <1>5 DEF find_in_dir
  <2>2. Lowest(found) \in DOMAIN dir_entry /\ dir_entry[Lowest(found)].d_name = n
    BY <1>3, <1>5
  <2> HIDE DEF found
  <2>3. find_in_dir(n) \in Inumbers
    BY <1>1, <2>1, <2>2
  <2>4. ~(find_in_dir(n) < 0)
    BY <1>2, <2>3
  <2> QED
    BY <2>1, <2>2, <2>3, <2>4
<1> QED
  BY <1>4, <1>5

\* A thread that changes its stage only, or starts again, keeps its type.
LEMMA StageMoves ==
    ASSUME NEW me \in ThreadStates, NEW s \in Stages
    PROVE  /\ [me EXCEPT !.stage = s] \in ThreadType
           /\ [me EXCEPT !.stage = s].stage = s
           /\ [me EXCEPT !.stage = s].op = me.op /\ [me EXCEPT !.stage = s].name = me.name
           /\ [me EXCEPT !.stage = s].h = me.h /\ [me EXCEPT !.stage = s].inum = me.inum
           /\ [me EXCEPT !.stage = s].freed = me.freed
BY DEF ThreadStates, ThreadType

\* The step of one thread, seen from every other.
Moves(t, new) == /\ thread'[t] = new
                 /\ \A u \in Threads \ {t} : thread'[u] = thread[u]

\* A thread whose next state has its type.
LEMMA ThreadNext ==
    ASSUME TypeInv, NEW t \in Threads, NEW new \in ThreadStates,
           thread' = [thread EXCEPT ![t] = new]
    PROVE  thread' \in [Threads -> ThreadStates] /\ Moves(t, new)
BY DEF TypeInv, Moves

\* The stage of one thread changes.
LEMMA StaysNext ==
    ASSUME TypeInv, NEW t \in Threads, NEW s \in Stages, Stays(t, s),
           StageOK([thread[t] EXCEPT !.stage = s])
    PROVE  /\ thread' \in [Threads -> ThreadStates]
           /\ Moves(t, [thread[t] EXCEPT !.stage = s])
<1>1. thread[t] \in ThreadStates
  BY DEF TypeInv
<1>2. [thread[t] EXCEPT !.stage = s] \in ThreadStates
  BY <1>1, StageMoves DEF ThreadStates
<1>3. thread' = [thread EXCEPT ![t] = [thread[t] EXCEPT !.stage = s]]
  BY DEF Stays
<1> QED
  BY <1>2, <1>3, ThreadNext

\* The call of one thread ends.
LEMMA EndsNext ==
    ASSUME TypeInv, NEW t \in Threads, Ends(t)
    PROVE  thread' \in [Threads -> ThreadStates] /\ Moves(t, Idle)
BY Zeros, ThreadNext DEF Ends

\* A thread that holds no lock.
Free(me) == me.stage \notin Writing \cup {"delete", "entry"}

\* Where a thread can have an i-number from.
Learns(t, i) ==
    \/ i \in {ROOT_DIR_INUM, thread[t].inum}
    \/ \E e \in DOMAIN dir_entry' : dir_entry'[e].d_inumber = i
    \/ \E h \in Handles : open_file_table[h].of_inumber = i

\* A step of a thread that neither holds locks nor takes one over the step.
Roams(t) ==
    \E new \in ThreadStates :
      /\ Moves(t, new)
      /\ Free(thread[t]) /\ Free(new)
      /\ Learns(t, new.inum)

\* The file is found: the thread's next state.
LEMMA FoundNext ==
    ASSUME NEW me \in ThreadStates, me.op \in {"open", "copy"}, me.name \in Names,
           me.freed = 0, NEW i \in Inumbers
    PROVE  /\ Found(me, i) \in ThreadStates
           /\ Found(me, i).inum = i
           /\ Free(Found(me, i))
<1> DEFINE found == [me EXCEPT !.inum = i]
<1>1. found \in ThreadType /\ found.inum = i /\ found.op = me.op /\ found.name = me.name
      /\ found.freed = me.freed /\ found.flags = me.flags
  BY DEF ThreadStates, ThreadType
<1> HIDE DEF found
<1> DEFINE stage == IF "TFS_O_TRUNC" \in me.flags THEN "truncate"
                    ELSE IF "TFS_O_APPEND" \in me.flags THEN "append" ELSE "add"
<1>2. Found(me, i) = [found EXCEPT !.stage = stage]
  BY <1>1 DEF Found, Emptied, found
<1>3. stage \in {"truncate", "append", "add"} /\ stage \in Stages
  BY DEF Stages
<1> HIDE DEF stage
<1>4. /\ [found EXCEPT !.stage = stage] \in ThreadType
      /\ [found EXCEPT !.stage = stage].stage = stage
      /\ [found EXCEPT !.stage = stage].op = me.op
      /\ [found EXCEPT !.stage = stage].name = me.name
      /\ [found EXCEPT !.stage = stage].inum = i
      /\ [found EXCEPT !.stage = stage].freed = 0
  BY <1>1, <1>3 DEF ThreadType
<1>5. StageOK(Found(me, i))
  BY <1>2, <1>3, <1>4 DEF StageOK, Opening, WithHandle, Writing
<1> QED
  BY <1>2, <1>3, <1>4, <1>5 DEF ThreadStates, Free, Writing

\* A call of tfs_open or of a copy begins.
LEMMA CallOpenNext ==
    ASSUME TypeInv, NEW t \in Threads, NEW n \in Names,
           NEW flags \in SUBSET {"TFS_O_CREAT", "TFS_O_TRUNC", "TFS_O_APPEND"},
           NEW op \in {"open", "copy"}, CallOpen(t, n, flags, op)
    PROVE  TypeInv' /\ (thread' = thread \/ Roams(t))
<1> DEFINE i == find_in_dir(n)
           me == [Idle EXCEPT !.op = op, !.name = n, !.flags = flags]
<1>0. UNCHANGED <<store, locks, issued>> /\ thread[t] = Idle /\ Free(thread[t])
  BY DEF CallOpen, Free, Idle, Writing
<1>1. me \in ThreadType /\ me.op = op /\ me.name = n /\ me.stage = "idle" /\ me.freed = 0
      /\ me.inum = ROOT_DIR_INUM /\ me.flags = flags
  BY Zeros DEF ThreadStates, ThreadType, Idle
<1>2. me \in ThreadStates
  BY <1>1 DEF ThreadStates, StageOK, Opening, WithHandle, Writing
<1>3. CASE i >= 0 /\ thread' = [thread EXCEPT ![t] = Found(me, i)]
  <2>1. i \in Inumbers /\ \E e \in DOMAIN dir_entry : dir_entry[e].d_inumber = i
    BY <1>3, Lookups
  <2> HIDE DEF i, me
  <2>2. Found(me, i) \in ThreadStates /\ Found(me, i).inum = i /\ Free(Found(me, i))
    BY <1>1, <1>2, <2>1, FoundNext
  <2>3. thread' \in [Threads -> ThreadStates] /\ Moves(t, Found(me, i))
    BY <1>3, <2>2, ThreadNext
  <2>4. dir_entry' = dir_entry
    BY <1>0 DEF store, directory
  <2>5. Roams(t)
    BY <1>0, <2>1, <2>2, <2>3, <2>4 DEF Roams, Learns
  <2>6. TypeInv'
    BY <1>0, <2>3, TypesNext DEF store, directory, disk, table, locks
  <2> QED
    BY <2>5, <2>6
<1>4. CASE thread' = [thread EXCEPT ![t] = [me EXCEPT !.stage = "create"]]
  <2> HIDE DEF me
  <2> DEFINE new == [me EXCEPT !.stage = "create"]
  <2>1. new \in ThreadType /\ new.op = op /\ new.name = n /\ new.stage = "create" /\ new.freed = 0
        /\ new.inum = ROOT_DIR_INUM
    <3>1. "create" \in Stages
      BY DEF Stages
    <3> QED
      BY <1>1, <1>2, <3>1, StageMoves
  <2>2. thread' = [thread EXCEPT ![t] = new]
    BY <1>4
  <2> HIDE DEF new
  <2>3. new \in ThreadStates /\ Free(new)
    BY <2>1 DEF ThreadStates, StageOK, Opening, WithHandle, Writing, Free
  <2>4. thread' \in [Threads -> ThreadStates] /\ Moves(t, new)
    BY <2>2, <2>3, ThreadNext
  <2>5. Roams(t)
    BY <1>0, <2>1, <2>3, <2>4 DEF Roams, Learns
  <2>6. TypeInv'
    BY <1>0, <2>4, TypesNext DEF store, directory, disk, table, locks
  <2> QED
    BY <2>5, <2>6
<1>5. CASE thread' = thread
  BY <1>0, <1>5, TypesNext DEF store, directory, disk, table, locks
<1> QED
  BY <1>3, <1>4, <1>5 DEF CallOpen

\* What the thread that creates a file does under newFileMutex.
LEMMA CreatesNext ==
    ASSUME TypeInv, NEW t \in Threads, Creates(t)
    PROVE  TypeInv' /\ Roams(t)
<1> DEFINE me == thread[t]
           i == find_in_dir(me.name)
           free == Inumbers \ takenInodes
           new == Lowest(free)
<1>0. /\ UNCHANGED <<disk, table, locks, issued>>
      /\ me \in ThreadStates /\ me.stage = "create" /\ me.op \in {"open", "copy"}
      /\ me.name \in Names /\ me.freed = 0 /\ Free(me)
  BY DEF Creates, TypeInv, ThreadStates, StageOK, Opening, Free, Writing
<1>1. CASE /\ i >= 0 /\ thread' = [thread EXCEPT ![t] = Found(@, i)]
           /\ UNCHANGED <<inode_table, directory, ret>>
  <2>1. i \in Inumbers /\ \E e \in DOMAIN dir_entry : dir_entry[e].d_inumber = i
    BY <1>1, Lookups
  <2>2. thread' = [thread EXCEPT ![t] = Found(me, i)]
    BY <1>1
  <2>7. dir_entry' = dir_entry /\ takenInodes' = takenInodes /\ inode_table' = inode_table
    BY <1>1 DEF directory
  <2> HIDE DEF i
  <2>3. Found(me, i) \in ThreadStates /\ Found(me, i).inum = i /\ Free(Found(me, i))
    BY <1>0, <2>1, FoundNext
  <2>4. thread' \in [Threads -> ThreadStates] /\ Moves(t, Found(me, i))
    BY <2>2, <2>3, ThreadNext
  <2>5. Roams(t)
    BY <1>0, <2>1, <2>3, <2>4, <2>7 DEF Roams, Learns
  <2>6. TypeInv'
    BY <1>0, <2>4, <2>7, TypesNext DEF disk, table, locks
  <2> QED
    BY <2>5, <2>6
<1>2. CASE Ends(t) /\ UNCHANGED <<inode_table, directory>>
  <2>1. thread' \in [Threads -> ThreadStates] /\ Moves(t, Idle)
    BY <1>2, EndsNext
  <2>2. Roams(t)
    BY <1>0, <2>1, Zeros DEF Roams, Learns, Free, Idle, Writing
  <2>3. TypeInv'
    BY <1>0, <1>2, <2>1, TypesNext DEF directory, disk, table, locks
  <2> QED
    BY <2>2, <2>3
<1>3. CASE /\ free # {}
           /\ takenInodes' = takenInodes \cup {new}
           /\ inode_table' = [inode_table EXCEPT ![new] = NewInode]
           /\ dir_entry' = Append(dir_entry, [d_name |-> thread[t].name, d_inumber |-> new])
           /\ thread' = [thread EXCEPT ![t].stage = "add", ![t].inum = new]
  <2>1. new \in Inumbers
    <3>1. free \in SUBSET Inumbers
      OBVIOUS
    <3> HIDE DEF free
    <3>2. Lowest(free) \in free
      BY <1>3, <3>1, FreeOnes
    <3> QED
      BY <3>1, <3>2
  <2> HIDE DEF new
  <2> DEFINE next == [me EXCEPT !.stage = "add", !.inum = new]
  <2>2. next \in ThreadType /\ next.op = me.op /\ next.name = me.name /\ next.stage = "add"
        /\ next.freed = 0 /\ next.inum = new
    BY <1>0, <2>1 DEF ThreadStates, ThreadType, Stages
  <2>3. thread' = [thread EXCEPT ![t] = next]
    BY <1>3
  <2> HIDE DEF next
  <2>4. next \in ThreadStates /\ Free(next)
    BY <1>0, <2>2 DEF ThreadStates, StageOK, Opening, WithHandle, Writing, Free
  <2>5. thread' \in [Threads -> ThreadStates] /\ Moves(t, next)
    BY <2>3, <2>4, ThreadNext
  <2>6. /\ dir_entry' \in Seq(NameType)
        /\ \E e \in DOMAIN dir_entry' : dir_entry'[e].d_inumber = new
    <3> DEFINE entry == [d_name |-> thread[t].name, d_inumber |-> new]
    <3>1. entry \in NameType /\ entry.d_inumber = new
      BY <1>0, <2>1 DEF NameType
    <3>2. dir_entry \in Seq(NameType) /\ dir_entry' = Append(dir_entry, entry)
      BY <1>3 DEF TypeInv
    <3> HIDE DEF entry
    <3>3. dir_entry' \in Seq(NameType) /\ dir_entry'[Len(dir_entry) + 1] = entry
          /\ Len(dir_entry) + 1 \in DOMAIN dir_entry'
      BY <3>1, <3>2
    <3> QED
      BY <3>1, <3>3
  <2>7. Roams(t)
    BY <1>0, <2>2, <2>4, <2>5, <2>6 DEF Roams, Learns
  <2>8. inode_table' \in [Inumbers -> InodeType]
    BY <1>3, <2>1, Zeros DEF TypeInv
  <2>9. takenInodes' \subseteq Inumbers /\ ROOT_DIR_INUM \in takenInodes'
    BY <1>3, <2>1 DEF TypeInv
  <2>10. TypeInv'
    BY <1>0, <2>5, <2>6, <2>8, <2>9, TypesNext DEF disk, table, locks
  <2> QED
    BY <2>7, <2>10
<1> QED
  BY <1>1, <1>2, <1>3 DEF Creates

\* The offset that tfs_open gives to a handle that appends.
LEMMA PositionsNext ==
    ASSUME TypeInv, NEW t \in Threads, Positions(t)
    PROVE  TypeInv' /\ Roams(t)
<1> DEFINE me == thread[t]
           size == inode_table[me.inum].i_size
           new == [me EXCEPT !.stage = "add", !.isAppending = TRUE, !.offset = size]
<1>0. /\ UNCHANGED <<store, locks, issued>>
      /\ me \in ThreadStates /\ me.stage = "append" /\ me.op \in {"open", "copy"}
      /\ me.name \in Names /\ me.freed = 0 /\ Free(me) /\ me.inum \in Inumbers
  BY DEF Positions, TypeInv, ThreadStates, ThreadType, StageOK, Opening, Free, Writing
<1>1. size \in 0 .. MAX_FILE_SIZE
  BY <1>0 DEF TypeInv, InodeType
<1>2. thread' = [thread EXCEPT ![t] = new]
  BY DEF Positions
<1> HIDE DEF size
<1>3. new \in ThreadType /\ new.op = me.op /\ new.name = me.name /\ new.stage = "add"
      /\ new.freed = 0 /\ new.inum = me.inum
  BY <1>0, <1>1 DEF ThreadStates, ThreadType, Stages
<1> HIDE DEF new
<1>4. new \in ThreadStates /\ Free(new)
  BY <1>0, <1>3 DEF ThreadStates, StageOK, Opening, WithHandle, Writing, Free
<1>5. thread' \in [Threads -> ThreadStates] /\ Moves(t, new)
  BY <1>2, <1>4, ThreadNext
<1>6. Roams(t)
  BY <1>0, <1>3, <1>4, <1>5 DEF Roams, Learns
<1>7. TypeInv'
  BY <1>0, <1>5, TypesNext DEF store, directory, disk, table, locks
<1> QED
  BY <1>6, <1>7

\* An entry of the open file table is taken.
LEMMA TakesEntryNext ==
    ASSUME TypeInv, NEW t \in Threads, TakesEntry(t)
    PROVE  TypeInv' /\ Roams(t)
<1> DEFINE me == thread[t]
           g == Lowest(FreeEntries)
<1>0. /\ UNCHANGED <<inode_table, directory, disk, open_file_table, locks, issued>>
      /\ me \in ThreadStates /\ me.stage = "add" /\ me.op \in {"open", "copy"}
      /\ me.name \in Names /\ me.freed = 0 /\ Free(me)
  BY DEF TakesEntry, TypeInv, ThreadStates, StageOK, Opening, Free, Writing
<1>1. CASE /\ FreeEntries # {}
           /\ takenHandles' = takenHandles \cup {g}
           /\ thread' = [thread EXCEPT ![t].stage = "fill", ![t].h = g]
  <2> DEFINE new == [me EXCEPT !.stage = "fill", !.h = g]
  <2>1. g \in Handles
    <3>1. FreeEntries \in SUBSET Handles
      BY DEF FreeEntries
    <3> QED
      BY <1>1, <3>1, FreeOnes
  <2>2. thread' = [thread EXCEPT ![t] = new]
    BY <1>1
  <2> HIDE DEF g
  <2>3. new \in ThreadType /\ new.op = me.op /\ new.name = me.name /\ new.stage = "fill"
        /\ new.freed = 0 /\ new.inum = me.inum /\ new.h = g
    BY <1>0, <2>1 DEF ThreadStates, ThreadType, Stages
  <2> HIDE DEF new
  <2>4. new \in ThreadStates /\ Free(new)
    BY <1>0, <2>1, <2>3 DEF ThreadStates, StageOK, Opening, WithHandle, Writing, Free
  <2>5. thread' \in [Threads -> ThreadStates] /\ Moves(t, new)
    BY <2>2, <2>4, ThreadNext
  <2>6. Roams(t)
    BY <1>0, <2>3, <2>4, <2>5 DEF Roams, Learns
  <2>7. takenHandles' \subseteq Handles
    BY <1>1, <2>1 DEF TypeInv
  <2>8. TypeInv'
    BY <1>0, <2>5, <2>7, TypesNext DEF directory, disk, locks
  <2> QED
    BY <2>6, <2>8
<1>2. CASE Ends(t) /\ UNCHANGED takenHandles
  <2>1. thread' \in [Threads -> ThreadStates] /\ Moves(t, Idle)
    BY <1>2, EndsNext
  <2>2. Roams(t)
    BY <1>0, <2>1, Zeros DEF Roams, Learns, Free, Idle, Writing
  <2>3. TypeInv'
    BY <1>0, <1>2, <2>1, TypesNext DEF directory, disk, locks
  <2> QED
    BY <2>2, <2>3
<1> QED
  BY <1>1, <1>2 DEF TakesEntry

\* A thread of a copy between its steps.
CopyAt(h, stage, len) == [Idle EXCEPT !.stage = stage, !.op = "copy", !.h = h, !.len = len]

\* A copy between its steps has its type and holds no lock.
LEMMA CopyStates ==
    ASSUME NEW h \in Handles, NEW stage \in {"find", "close"}, NEW len \in Nat
    PROVE  /\ CopyAt(h, stage, len) \in ThreadStates
           /\ Free(CopyAt(h, stage, len)) /\ CopyAt(h, stage, len).inum = ROOT_DIR_INUM
<1> DEFINE new == CopyAt(h, stage, len)
<1>1. new \in ThreadType /\ new.op = "copy" /\ new.stage = stage /\ new.h = h
      /\ new.freed = 0 /\ new.inum = ROOT_DIR_INUM
  BY Zeros DEF CopyAt, Idle, ThreadStates, ThreadType, Stages
<1> HIDE DEF new
<1> QED
  BY <1>1 DEF ThreadStates, StageOK, Opening, WithHandle, Writing, Free, new

\* The entry is filled.
LEMMA FillsEntryNext ==
    ASSUME TypeInv, NEW t \in Threads, FillsEntry(t)
    PROVE  TypeInv' /\ Roams(t)
<1> DEFINE me == thread[t]
           entry == [of_inumber |-> me.inum, of_offset |-> me.offset,
                     isAppending |-> me.isAppending]
<1>0. /\ UNCHANGED <<inode_table, directory, disk, takenHandles, locks>>
      /\ open_file_table' = [open_file_table EXCEPT ![me.h] = entry]
      /\ me \in ThreadStates /\ me.stage = "fill" /\ Free(me) /\ me.h \in Handles
  BY DEF FillsEntry, TypeInv, ThreadStates, StageOK, WithHandle, Free, Writing
<1>1. entry \in EntryType
  BY <1>0 DEF ThreadStates, ThreadType, EntryType
<1> HIDE DEF entry
<1>2. open_file_table' \in [Handles -> EntryType]
  BY <1>0, <1>1 DEF TypeInv
<1>3. CASE /\ Ends(t)
           /\ issued' = [g \in DOMAIN issued \cup {me.h} |->
                IF g = me.h THEN "TFS_O_APPEND" \in me.flags ELSE issued[g]]
  <2>1. thread' \in [Threads -> ThreadStates] /\ Moves(t, Idle)
    BY <1>3, EndsNext
  <2>2. Roams(t)
    BY <1>0, <2>1, Zeros DEF Roams, Learns, Free, Idle, Writing
  <2>3. DOMAIN issued' \subseteq Handles
    BY <1>0, <1>3 DEF TypeInv
  <2>4. ASSUME NEW g \in DOMAIN issued' PROVE issued'[g] \in BOOLEAN
    <3>1. CASE g = me.h
      BY <1>3, <3>1
    <3>2. CASE g # me.h
      BY <1>3, <3>2 DEF TypeInv
    <3> QED
      BY <3>1, <3>2
  <2>5. TypeInv'
    BY <1>0, <1>2, <2>1, <2>3, <2>4, TypesNext DEF directory, disk, locks
  <2> QED
    BY <2>2, <2>5
<1>4. CASE /\ \E stage \in {"find", "close"} : thread' = [thread EXCEPT ![t] =
                 [Idle EXCEPT !.stage = stage, !.op = "copy", !.h = me.h,
                              !.len = IF stage = "find" THEN BUFFER_SIZE ELSE 0]]
           /\ UNCHANGED issued
  <2>1. PICK stage \in {"find", "close"} : thread' = [thread EXCEPT ![t] =
                 [Idle EXCEPT !.stage = stage, !.op = "copy", !.h = me.h,
                              !.len = IF stage = "find" THEN BUFFER_SIZE ELSE 0]]
    BY <1>4
  <2> DEFINE len == IF stage = "find" THEN BUFFER_SIZE ELSE 0
  <2>2. len \in Nat
    BY BlocksAssumption
  <2>3. thread' = [thread EXCEPT ![t] = CopyAt(me.h, stage, len)]
    BY <2>1 DEF CopyAt
  <2> HIDE DEF len
  <2>4. /\ CopyAt(me.h, stage, len) \in ThreadStates
        /\ Free(CopyAt(me.h, stage, len)) /\ CopyAt(me.h, stage, len).inum = ROOT_DIR_INUM
    BY <1>0, <2>2, CopyStates
  <2>5. thread' \in [Threads -> ThreadStates] /\ Moves(t, CopyAt(me.h, stage, len))
    BY <2>3, <2>4, ThreadNext
  <2>6. Roams(t)
    BY <1>0, <2>4, <2>5 DEF Roams, Learns
  <2>7. TypeInv'
    BY <1>0, <1>2, <1>4, <2>5, TypesNext DEF directory, disk, locks
  <2> QED
    BY <2>6, <2>7
<1> QED
  BY <1>3, <1>4 DEF FillsEntry

\* A handle is closed by its caller, or by the copy that opened it.
LEMMA ClosesNext ==
    ASSUME TypeInv, NEW t \in Threads
    PROVE  /\ \A h \in Handles : CallClose(t, h) => TypeInv' /\ thread' = thread
           /\ CopyCloses(t) => TypeInv' /\ Roams(t)
<1>0. ASSUME NEW h \in Handles, Close(h)
      PROVE  /\ UNCHANGED <<inode_table, directory, disk, open_file_table, locks>>
             /\ takenHandles' \subseteq Handles
  BY <1>0 DEF Close, TypeInv
<1>1. ASSUME NEW h \in Handles, CallClose(t, h)
      PROVE  TypeInv' /\ thread' = thread
  <2>1. Close(h) /\ UNCHANGED thread /\ issued' = [g \in DOMAIN issued \ {h} |-> issued[g]]
    BY <1>1 DEF CallClose
  <2>2. DOMAIN issued' \subseteq Handles /\ \A g \in DOMAIN issued' : issued'[g] \in BOOLEAN
    BY <2>1 DEF TypeInv
  <2> QED
    BY <1>0, <2>1, <2>2, TypesNext DEF directory, disk, locks
<1>2. ASSUME CopyCloses(t)
      PROVE  TypeInv' /\ Roams(t)
  <2>1. thread[t].stage = "close" /\ thread[t].h \in Handles /\ Free(thread[t])
    BY <1>2 DEF CopyCloses, TypeInv, ThreadStates, StageOK, WithHandle, Free, Writing
  <2>2. Close(thread[t].h) /\ Ends(t) /\ UNCHANGED issued
    BY <1>2 DEF CopyCloses
  <2>3. thread' \in [Threads -> ThreadStates] /\ Moves(t, Idle)
    BY <2>2, EndsNext
  <2>4. Roams(t)
    BY <2>1, <2>3, Zeros DEF Roams, Learns, Free, Idle, Writing
  <2>5. /\ UNCHANGED <<inode_table, directory, disk, open_file_table, locks>>
        /\ takenHandles' \subseteq Handles
    BY <1>0, <2>1, <2>2
  <2>6. TypeInv'
    BY <2>2, <2>3, <2>5, TypesNext DEF directory, disk, locks
  <2> QED
    BY <2>4, <2>6
<1> QED
  BY <1>1, <1>2

\* A call looks at the entry of its handle.
LEMMA FindsNext ==
    ASSUME TypeInv, NEW t \in Threads, NEW me \in ThreadStates, Free(thread[t]),
           me.h \in Handles, me.op \in {"read", "write", "copy"}, me.freed = 0,
           Finds(t, me)
    PROVE  TypeInv' /\ Roams(t)
<1> DEFINE i == open_file_table[me.h].of_inumber
           stage == IF me.op = "write" THEN "lock" ELSE "check"
           new == [me EXCEPT !.inum = i, !.stage = stage]
<1>0. UNCHANGED <<store, locks, issued>>
  BY DEF Finds
<1>1. i \in Inumbers
  BY DEF TypeInv, EntryType
<1>2. CASE thread' = [thread EXCEPT ![t] = new]
  <2>1. stage \in Stages /\ stage \in {"lock", "check"} /\ (stage = "check" => me.op # "write")
    BY DEF Stages
  <2> HIDE DEF stage, i
  <2>2. new \in ThreadType /\ new.op = me.op /\ new.name = me.name /\ new.stage = stage
        /\ new.freed = 0 /\ new.inum = i /\ new.h = me.h
    BY <1>1, <2>1 DEF ThreadStates, ThreadType
  <2> HIDE DEF new
  <2>3. new \in ThreadStates /\ Free(new)
    BY <2>1, <2>2 DEF ThreadStates, StageOK, Opening, WithHandle, Writing, Free
  <2>4. thread' \in [Threads -> ThreadStates] /\ Moves(t, new)
    BY <1>2, <2>3, ThreadNext
  <2>5. Roams(t)
    BY <2>2, <2>3, <2>4 DEF Roams, Learns, i
  <2>6. TypeInv'
    BY <1>0, <2>4, TypesNext DEF store, directory, disk, table, locks
  <2> QED
    BY <2>5, <2>6
<1>3. CASE Ends(t)
  <2>1. thread' \in [Threads -> ThreadStates] /\ Moves(t, Idle)
    BY <1>3, EndsNext
  <2>2. Roams(t)
    BY <2>1, Zeros DEF Roams, Learns, Free, Idle, Writing
  <2>3. TypeInv'
    BY <1>0, <2>1, TypesNext DEF store, directory, disk, table, locks
  <2> QED
    BY <2>2, <2>3
<1> QED
  BY <1>2, <1>3 DEF Finds

\* A write, a read, or the next read of a copy.
LEMMA LookupsNext ==
    ASSUME TypeInv, NEW t \in Threads
    PROVE  /\ \A h \in Handles, buf \in Contents : CallWrite(t, h, buf) => TypeInv' /\ Roams(t)
           /\ \A h \in Handles, len \in Lengths : CallRead(t, h, len) => TypeInv' /\ Roams(t)
           /\ CopyReads(t) => TypeInv' /\ Roams(t)
<1>1. ASSUME NEW h \in Handles, NEW buf \in Contents, CallWrite(t, h, buf)
      PROVE  TypeInv' /\ Roams(t)
  <2> DEFINE me == [Idle EXCEPT !.op = "write", !.h = h, !.buf = buf]
  <2>1. buf \in Seq(Nat)
    BY BlocksAssumption
  <2>2. me \in ThreadType /\ me.op = "write" /\ me.h = h /\ me.stage = "idle" /\ me.freed = 0
        /\ me.inum = ROOT_DIR_INUM
    BY <2>1, Zeros DEF ThreadStates, ThreadType, Idle
  <2>3. Finds(t, me) /\ Free(thread[t])
    BY <1>1 DEF CallWrite, Free, Idle, Writing
  <2> HIDE DEF me
  <2>4. me \in ThreadStates
    BY <2>2 DEF ThreadStates, StageOK, Opening, WithHandle, Writing
  <2> QED
    BY <2>2, <2>3, <2>4, FindsNext
<1>2. ASSUME NEW h \in Handles, NEW len \in Lengths, CallRead(t, h, len)
      PROVE  TypeInv' /\ Roams(t)
  <2> DEFINE me == [Idle EXCEPT !.op = "read", !.h = h, !.len = len]
  <2>1. len \in Nat
    BY BlocksAssumption
  <2>2. me \in ThreadType /\ me.op = "read" /\ me.h = h /\ me.stage = "idle" /\ me.freed = 0
        /\ me.inum = ROOT_DIR_INUM
    BY <2>1, Zeros DEF ThreadStates, ThreadType, Idle
  <2>3. Finds(t, me) /\ Free(thread[t])
    BY <1>2 DEF CallRead, Free, Idle, Writing
  <2> HIDE DEF me
  <2>4. me \in ThreadStates
    BY <2>2 DEF ThreadStates, StageOK, Opening, WithHandle, Writing
  <2> QED
    BY <2>2, <2>3, <2>4, FindsNext
<1>3. ASSUME CopyReads(t)
      PROVE  TypeInv' /\ Roams(t)
  <2>1. thread[t] \in ThreadStates /\ thread[t].stage = "find" /\ Finds(t, thread[t])
    BY <1>3 DEF CopyReads, TypeInv
  <2>2. Free(thread[t]) /\ thread[t].h \in Handles /\ thread[t].op = "copy" /\ thread[t].freed = 0
    BY <2>1 DEF ThreadStates, StageOK, WithHandle, Free, Writing
  <2> QED
    BY <2>1, <2>2, FindsNext
<1> QED
  BY <1>1, <1>2, <1>3

\* What a thread does after a read.
LEMMA AfterReadNext ==
    ASSUME TypeInv, NEW t \in Threads, NEW v \in Int, thread[t].h \in Handles,
           AfterRead(t, v)
    PROVE  /\ thread' \in [Threads -> ThreadStates]
           /\ \E new \in ThreadStates : Moves(t, new) /\ Free(new) /\ new.inum = ROOT_DIR_INUM
<1> DEFINE me == thread[t]
<1>1. CASE me.op = "read" \/ v < 0
  <2>1. Ends(t)
    BY <1>1 DEF AfterRead
  <2>2. thread' \in [Threads -> ThreadStates] /\ Moves(t, Idle)
    BY <2>1, EndsNext
  <2> QED
    BY <2>2, Zeros DEF Free, Idle, Writing
<1>2. CASE ~(me.op = "read" \/ v < 0)
  <2> DEFINE stage == IF v > 0 THEN "find" ELSE "close"
             len == IF v > 0 THEN BUFFER_SIZE ELSE 0
  <2>1. stage \in {"find", "close"} /\ len \in Nat
    BY BlocksAssumption
  <2>2. thread' = [thread EXCEPT ![t] = CopyAt(me.h, stage, len)]
    BY <1>2 DEF AfterRead, CopyAt
  <2> HIDE DEF stage, len
  <2>3. /\ CopyAt(me.h, stage, len) \in ThreadStates
        /\ Free(CopyAt(me.h, stage, len)) /\ CopyAt(me.h, stage, len).inum = ROOT_DIR_INUM
    BY <2>1, CopyStates
  <2> QED
    BY <2>2, <2>3, ThreadNext
<1> QED
  BY <1>1, <1>2

\* A read that is not through a handle that appends goes on to the lock.
LEMMA ChecksAppendNext ==
    ASSUME TypeInv, NEW t \in Threads, ChecksAppend(t)
    PROVE  TypeInv' /\ Roams(t)
<1>0. /\ UNCHANGED <<store, locks, issued>>
      /\ thread[t] \in ThreadStates /\ thread[t].stage = "check" /\ Free(thread[t])
      /\ thread[t].h \in Handles /\ thread[t].op \in {"read", "copy"} /\ thread[t].freed = 0
  BY DEF ChecksAppend, TypeInv, ThreadStates, StageOK, WithHandle, Free, Writing
<1>1. CASE AfterRead(t, 0)
  <2>1. /\ thread' \in [Threads -> ThreadStates]
        /\ \E new \in ThreadStates : Moves(t, new) /\ Free(new) /\ new.inum = ROOT_DIR_INUM
    BY <1>0, <1>1, AfterReadNext
  <2>2. Roams(t)
    BY <1>0, <2>1 DEF Roams, Learns
  <2>3. TypeInv'
    BY <1>0, <2>1, TypesNext DEF store, directory, disk, table, locks
  <2> QED
    BY <2>2, <2>3
<1>2. CASE Stays(t, "lock")
  <2> DEFINE new == [thread[t] EXCEPT !.stage = "lock"]
  <2>1. "lock" \in Stages
    BY DEF Stages
  <2>2. new \in ThreadType /\ new.stage = "lock" /\ new.op = thread[t].op /\ new.h = thread[t].h
        /\ new.inum = thread[t].inum /\ new.freed = 0
    BY <1>0, <2>1, StageMoves
  <2> HIDE DEF new
  <2>3. StageOK(new) /\ Free(new)
    BY <1>0, <2>2 DEF StageOK, Opening, WithHandle, Writing, Free
  <2>4. thread' \in [Threads -> ThreadStates] /\ Moves(t, new)
    BY <1>2, <2>1, <2>3, StaysNext DEF new
  <2>5. Roams(t)
    BY <1>0, <2>2, <2>3, <2>4 DEF Roams, Learns, ThreadStates
  <2>6. TypeInv'
    BY <1>0, <2>4, TypesNext DEF store, directory, disk, table, locks
  <2> QED
    BY <2>5, <2>6
<1> QED
  BY <1>1, <1>2 DEF ChecksAppend

\* A step of a thread that holds locks and keeps them.
Works(t) ==
    \E new \in ThreadStates :
      /\ Moves(t, new)
      /\ new.inum = thread[t].inum /\ new.h = thread[t].h /\ new.op = thread[t].op
      /\ \/ thread[t].stage \in Writing /\ new.stage \in Writing
         \/ thread[t].stage = "delete" /\ new.stage = "delete"

\* The size a write needs is one a file can have.
LEMMA SizeNeededBound ==
    ASSUME NEW off \in 0 .. MAX_FILE_SIZE, NEW buf \in Seq(Nat)
    PROVE  /\ SizeNeeded(off, buf) \in off .. MAX_FILE_SIZE
           /\ SizeNeeded(off, buf) <= off + Len(buf)
<1>1. Len(buf) \in Nat
  OBVIOUS
<1> QED
  BY <1>1, Sizes DEF SizeNeeded, Least

\* A file that needs a block for a write has not its greatest number of blocks.
LEMMA RoomForBlock ==
    ASSUME TypeInv, NEW t \in Threads, thread[t].stage \in Writing, NeedsBlock(thread[t])
    PROVE  /\ inode_table[thread[t].inum].blocksAlloc + 1 \in 0 .. MAX_INODE_BLOCKS
           /\ MAX_INODE_BLOCKS \in Nat
<1> DEFINE off == open_file_table[thread[t].h].of_offset
           n == SizeNeeded(off, thread[t].buf)
           b == inode_table[thread[t].inum].blocksAlloc
<1>1. thread[t].h \in Handles /\ thread[t].inum \in Inumbers /\ thread[t].buf \in Seq(Nat)
  BY DEF TypeInv, ThreadStates, ThreadType, StageOK, WithHandle
<1>2. off \in 0 .. MAX_FILE_SIZE /\ b \in 0 .. MAX_INODE_BLOCKS
  BY <1>1 DEF TypeInv, EntryType, InodeType
<1>3. b < divCeil(n, BLOCK_SIZE)
  BY DEF NeedsBlock
<1> HIDE DEF off, b
<1>4. n \in 0 .. MAX_FILE_SIZE
  <2>1. n \in off .. MAX_FILE_SIZE
    BY <1>1, <1>2, SizeNeededBound
  <2>2. MAX_FILE_SIZE \in Nat
    BY Sizes
  <2> HIDE DEF n
  <2> QED
    BY <1>2, <2>1, <2>2
<1> HIDE DEF n
<1>5. divCeil(n, BLOCK_SIZE) <= MAX_INODE_BLOCKS /\ divCeil(n, BLOCK_SIZE) \in Int
  <2>1. divCeil(n, BLOCK_SIZE) <= MAX_INODE_BLOCKS
    BY <1>4, Sizes
  <2>2. n \in Int /\ BLOCK_SIZE \in Int /\ BLOCK_SIZE > 0
    BY <1>4, BlocksAssumption
  <2>3. divCeil(n, BLOCK_SIZE) \in Int
    BY <2>2 DEF divCeil
  <2> QED
    BY <2>1, <2>3
<1>6. b + 1 \in 0 .. MAX_INODE_BLOCKS /\ MAX_INODE_BLOCKS \in Nat
  <2>1. MAX_INODE_BLOCKS \in Nat
    BY BlocksAssumption
  <2> QED
    BY <1>2, <1>3, <1>5, <2>1
<1> QED
  BY <1>6 DEF b

\* A block of a truncated file is freed.
LEMMA FreesBlockNext ==
    ASSUME TypeInv, NEW t \in Threads, FreesBlock(t)
    PROVE  TypeInv' /\ Works(t)
<1> DEFINE k == thread[t].freed + 1
           new == [thread[t] EXCEPT !.freed = k]
<1>0. /\ UNCHANGED <<inode_table, directory, fs_data, table, locks, issued, ret>>
      /\ thread[t] \in ThreadStates /\ thread[t].stage = "delete"
      /\ takenBlocks' \subseteq Blocks
      /\ thread' = [thread EXCEPT ![t] = new]
  BY DEF FreesBlock, TypeInv
<1>1. k \in Nat
  BY <1>0 DEF ThreadStates, ThreadType
<1> HIDE DEF k
<1>2. new \in ThreadType /\ new.stage = "delete" /\ new.op = thread[t].op /\ new.h = thread[t].h
      /\ new.inum = thread[t].inum /\ new.name = thread[t].name
  BY <1>0, <1>1 DEF ThreadStates, ThreadType
<1> HIDE DEF new
<1>3. new \in ThreadStates
  BY <1>0, <1>2 DEF ThreadStates, StageOK, Opening, WithHandle, Writing
<1>4. thread' \in [Threads -> ThreadStates] /\ Moves(t, new)
  BY <1>0, <1>3, ThreadNext
<1>5. Works(t)
  BY <1>0, <1>2, <1>3, <1>4 DEF Works
<1>6. TypeInv'
  BY <1>0, <1>4, TypesNext DEF directory, table, locks
<1> QED
  BY <1>5, <1>6

\* A thread that writes goes to another stage of it, or stays.
LEMMA WorkStays ==
    ASSUME TypeInv, NEW t \in Threads, thread[t].stage \in Writing, NEW s \in Writing
    PROVE  /\ Stays(t, s) => Works(t) /\ thread' \in [Threads -> ThreadStates] /\ thread'[t].stage = s
           /\ UNCHANGED thread => Works(t)
<1> DEFINE new == [thread[t] EXCEPT !.stage = s]
<1>0. thread[t] \in ThreadStates /\ thread[t].h \in Handles /\ thread[t].op = "write"
      /\ thread[t].freed = 0
  BY DEF TypeInv, ThreadStates, StageOK, WithHandle, Writing
<1>1. ASSUME Stays(t, s)
      PROVE  Works(t) /\ thread' \in [Threads -> ThreadStates] /\ thread'[t].stage = s
  <2>1. s \in Stages
    BY DEF Stages, Writing
  <2>2. new \in ThreadType /\ new.stage = s /\ new.op = thread[t].op /\ new.h = thread[t].h
        /\ new.inum = thread[t].inum /\ new.freed = 0
    BY <1>0, <2>1, StageMoves
  <2> HIDE DEF new
  <2>3. StageOK(new)
    BY <1>0, <2>2 DEF StageOK, Opening, WithHandle, Writing
  <2>4. thread' \in [Threads -> ThreadStates] /\ Moves(t, new)
    BY <1>1, <2>1, <2>3, StaysNext DEF new
  <2> QED
    BY <2>2, <2>3, <2>4 DEF Works, ThreadStates, Moves
<1>2. ASSUME UNCHANGED thread PROVE Works(t)
  BY <1>0, <1>2 DEF Works, Moves
<1> QED
  BY <1>1, <1>2

\* The cells of the blocks stay natural numbers when a block is taken ...
LEMMA ZeroedNext ==
    ASSUME TypeInv, NEW b \in Blocks
    PROVE  /\ Zeroed(b) \in [Blocks -> [1 .. BLOCK_SIZE -> Nat]]
           /\ \A d \in Blocks, c \in Int :
                [Zeroed(b) EXCEPT ![d][c] = b] \in [Blocks -> [1 .. BLOCK_SIZE -> Nat]]
<1> DEFINE F == [1 .. BLOCK_SIZE -> Nat]
           data == Zeroed(b)
<1>1. [c \in 1 .. BLOCK_SIZE |-> 0] \in F
  OBVIOUS
<1>2. fs_data \in [Blocks -> F]
  BY DEF TypeInv
<1>3. data \in [Blocks -> F]
  BY <1>1, <1>2 DEF Zeroed
<1>4. b \in Nat
  BY BlocksAssumption DEF Blocks
<1> HIDE DEF data
<1>5. ASSUME NEW d \in Blocks, NEW c \in Int PROVE [data EXCEPT ![d][c] = b] \in [Blocks -> F]
  <2>1. [data[d] EXCEPT ![c] = b] \in F
    BY <1>3, <1>4
  <2>2. [data EXCEPT ![d][c] = b] = [data EXCEPT ![d] = [data[d] EXCEPT ![c] = b]]
    OBVIOUS
  <2> HIDE DEF F
  <2>3. [data EXCEPT ![d] = [data[d] EXCEPT ![c] = b]] \in [Blocks -> F]
    BY <1>3, <2>1
  <2> QED
    BY <2>2, <2>3
<1> QED
  BY <1>3, <1>5 DEF data

\* The i-node of one file changes.
LEMMA NodeNext ==
    ASSUME TypeInv, NEW i \in Inumbers, NEW node \in InodeType,
           inode_table' = [inode_table EXCEPT ![i] = node]
    PROVE  /\ inode_table' \in [Inumbers -> InodeType]
           /\ inode_table'[i] = node
           /\ \A j \in Inumbers \ {i} : inode_table'[j] = inode_table[j]
BY DEF TypeInv

\* A block is taken for a write.
LEMMA AllocsBlockNext ==
    ASSUME TypeInv, NEW t \in Threads, AllocsBlock(t)
    PROVE  TypeInv' /\ Works(t)
<1> DEFINE i == thread[t].inum
           node == inode_table[i]
           b == Lowest(Blocks \ takenBlocks)
           n == node.blocksAlloc + 1
<1>0. /\ UNCHANGED <<directory, table, locks, issued, ret>>
      /\ thread[t].stage = "alloc" /\ thread[t].stage \in Writing
      /\ NeedsBlock(thread[t]) /\ takenBlocks # Blocks /\ Alloc(b)
  BY DEF AllocsBlock, Writing
<1>1. i \in Inumbers /\ node \in InodeType
  BY DEF TypeInv, ThreadStates, ThreadType
<1>2. b \in Blocks /\ takenBlocks' \subseteq Blocks
  <2>1. Blocks \ takenBlocks # {} /\ Blocks \ takenBlocks \in SUBSET Blocks
    BY <1>0 DEF TypeInv
  <2>2. b \in Blocks
    BY <2>1, FreeOnes
  <2> QED
    BY <1>0, <2>2 DEF Alloc, TypeInv
<1>3. n \in 0 .. MAX_INODE_BLOCKS
  BY <1>0, RoomForBlock
<1>4. Zeroed(b) \in [Blocks -> [1 .. BLOCK_SIZE -> Nat]]
  BY <1>2, ZeroedNext
<1>5. CASE /\ inode_table' = [inode_table EXCEPT ![i].i_data_block = Append(@, b),
                                                 ![i].blocksAlloc = n]
           /\ fs_data' = Zeroed(b)
           /\ UNCHANGED thread
  <2> DEFINE new == [node EXCEPT !.i_data_block = Append(node.i_data_block, b),
                                 !.blocksAlloc = n]
  <2>1. Append(node.i_data_block, b) \in Seq(Blocks)
    <3>1. node.i_data_block \in Seq(Blocks)
      BY <1>1 DEF InodeType
    <3> QED
      BY <1>2, <3>1
  <2>2. inode_table' = [inode_table EXCEPT ![i] = new]
    BY <1>5
  <2>3. new \in InodeType
    <3> HIDE DEF n, b, node
    <3> QED
      BY <1>1, <1>3, <2>1 DEF InodeType
  <2> HIDE DEF new, node, n, b
  <2>4. inode_table' \in [Inumbers -> InodeType]
    BY <1>1, <2>2, <2>3, NodeNext
  <2>5. "alloc" \in Writing /\ Works(t)
    BY <1>0, <1>5, WorkStays DEF Writing
  <2>6. TypeInv'
    BY <1>0, <1>2, <1>4, <1>5, <2>4, TypesNext DEF directory, table, locks
  <2> QED
    BY <2>5, <2>6
<1>6. CASE /\ inode_table' = [inode_table EXCEPT ![i].indirect_data_block = b]
           /\ fs_data' = Zeroed(b)
           /\ Stays(t, "indirect")
  <2> DEFINE new == [node EXCEPT !.indirect_data_block = b]
  <2>2. inode_table' = [inode_table EXCEPT ![i] = new]
    BY <1>6
  <2>3. new \in InodeType
    <3> HIDE DEF b, node
    <3> QED
      BY <1>1, <1>2 DEF InodeType
  <2> HIDE DEF new, node, n, b
  <2>4. inode_table' \in [Inumbers -> InodeType]
    BY <1>1, <2>2, <2>3, NodeNext
  <2>5. "indirect" \in Writing
    BY DEF Writing
  <2>6. Works(t) /\ thread' \in [Threads -> ThreadStates]
    BY <1>0, <1>6, <2>5, WorkStays
  <2>7. TypeInv'
    BY <1>0, <1>2, <1>4, <1>6, <2>4, <2>6, TypesNext DEF directory, table, locks
  <2> QED
    BY <2>6, <2>7
<1>7. CASE /\ fs_data' = [Zeroed(b) EXCEPT
                ![node.indirect_data_block][n - DIRECT_BLOCK_COUNT] = b]
           /\ inode_table' = [inode_table EXCEPT ![i].blocksAlloc = n]
           /\ UNCHANGED thread
  <2> DEFINE new == [node EXCEPT !.blocksAlloc = n]
  <2>2. inode_table' = [inode_table EXCEPT ![i] = new]
    BY <1>7
  <2>3. new \in InodeType
    <3> HIDE DEF n, node
    <3> QED
      BY <1>1, <1>3 DEF InodeType
  <2>8. node.indirect_data_block \in Blocks /\ n - DIRECT_BLOCK_COUNT \in Int
    <3> HIDE DEF n
    <3> QED
      BY <1>1, <1>3, BlocksAssumption DEF InodeType
  <2>9. fs_data' \in [Blocks -> [1 .. BLOCK_SIZE -> Nat]]
    BY <1>2, <1>7, <2>8, ZeroedNext
  <2> HIDE DEF new, node, n, b
  <2>4. inode_table' \in [Inumbers -> InodeType]
    BY <1>1, <2>2, <2>3, NodeNext
  <2>5. "alloc" \in Writing /\ Works(t)
    BY <1>0, <1>7, WorkStays DEF Writing
  <2>6. TypeInv'
    BY <1>0, <1>2, <1>7, <2>4, <2>9, TypesNext DEF directory, table, locks
  <2> QED
    BY <2>5, <2>6
<1> QED
  BY <1>5, <1>6, <1>7 DEF AllocsBlock

\* The block behind a new indirect block, when the file has room for it.
LEMMA AllocsIndirectNext ==
    ASSUME TypeInv, NEW t \in Threads, AllocsIndirect(t),
           inode_table[thread[t].inum].blocksAlloc + 1 \in 0 .. MAX_INODE_BLOCKS
    PROVE  TypeInv' /\ Works(t)
<1> DEFINE i == thread[t].inum
           node == inode_table[i]
           free == Blocks \ takenBlocks
           b == Lowest(free)
           n == node.blocksAlloc + 1
<1>0. /\ UNCHANGED <<directory, table, locks, issued, ret>>
      /\ thread[t].stage = "indirect" /\ thread[t].stage \in Writing
      /\ "alloc" \in Writing /\ "release" \in Writing
  BY DEF AllocsIndirect, Writing
<1>1. i \in Inumbers /\ node \in InodeType
  BY DEF TypeInv, ThreadStates, ThreadType
<1>2. CASE /\ free # {}
           /\ Alloc(b)
           /\ fs_data' = [Zeroed(b) EXCEPT ![node.indirect_data_block][1] = b]
           /\ inode_table' = [inode_table EXCEPT ![i].blocksAlloc = @ + 1]
           /\ Stays(t, "alloc")
  <2> DEFINE new == [node EXCEPT !.blocksAlloc = n]
  <2>1. b \in Blocks /\ takenBlocks' \subseteq Blocks
    <3>1. free # {} /\ free \in SUBSET Blocks
      BY <1>2
    <3>2. b \in Blocks
      BY <3>1, FreeOnes
    <3> QED
      BY <1>2, <3>2 DEF Alloc, TypeInv
  <2>2. inode_table' = [inode_table EXCEPT ![i] = new]
    BY <1>2
  <2>3. new \in InodeType
    <3>1. n \in 0 .. MAX_INODE_BLOCKS
      OBVIOUS
    <3> HIDE DEF n, node
    <3> QED
      BY <1>1, <3>1 DEF InodeType
  <2>4. fs_data' \in [Blocks -> [1 .. BLOCK_SIZE -> Nat]]
    <3>1. node.indirect_data_block \in Blocks
      BY <1>1 DEF InodeType
    <3>2. 1 \in Int
      OBVIOUS
    <3> HIDE DEF b, node
    <3>3. [Zeroed(b) EXCEPT ![node.indirect_data_block][1] = b]
             \in [Blocks -> [1 .. BLOCK_SIZE -> Nat]]
      BY <2>1, <3>1, <3>2, ZeroedNext
    <3> QED
      BY <1>2, <3>3
  <2> HIDE DEF new, node, n, b
  <2>5. inode_table' \in [Inumbers -> InodeType]
    BY <1>1, <2>2, <2>3, NodeNext
  <2>6. Works(t) /\ thread' \in [Threads -> ThreadStates]
    BY <1>0, <1>2, WorkStays
  <2>7. TypeInv'
    BY <1>0, <2>1, <2>4, <2>5, <2>6, TypesNext DEF directory, table, locks
  <2> QED
    BY <2>6, <2>7
<1>3. CASE Stays(t, "release") /\ UNCHANGED <<inode_table, disk>>
  <2>1. Works(t) /\ thread' \in [Threads -> ThreadStates]
    BY <1>0, <1>3, WorkStays
  <2>2. TypeInv'
    BY <1>0, <1>3, <2>1, TypesNext DEF directory, disk, table, locks
  <2> QED
    BY <2>1, <2>2
<1> QED
  BY <1>2, <1>3 DEF AllocsIndirect

\* The indirect block is given back.
LEMMA ReleasesIndirectNext ==
    ASSUME TypeInv, NEW t \in Threads, ReleasesIndirect(t)
    PROVE  TypeInv' /\ Works(t)
<1> DEFINE i == thread[t].inum
           new == [inode_table[i] EXCEPT !.indirect_data_block = 0]
<1>0. /\ UNCHANGED <<directory, fs_data, table, locks, issued, ret>>
      /\ thread[t].stage \in Writing /\ "store" \in Writing /\ Stays(t, "store")
      /\ takenBlocks' \subseteq Blocks
      /\ inode_table' = [inode_table EXCEPT ![i] = new]
  BY DEF ReleasesIndirect, Writing, TypeInv
<1>1. i \in Inumbers /\ inode_table[i] \in InodeType
  BY DEF TypeInv, ThreadStates, ThreadType
<1>2. new \in InodeType
  BY <1>1, Zeros DEF InodeType
<1> HIDE DEF new
<1>3. inode_table' \in [Inumbers -> InodeType]
  BY <1>0, <1>1, <1>2, NodeNext
<1>4. Works(t) /\ thread' \in [Threads -> ThreadStates]
  BY <1>0, WorkStays
<1>5. TypeInv'
  BY <1>0, <1>3, <1>4, TypesNext DEF directory, table, locks
<1> QED
  BY <1>4, <1>5

-----------------------------------------------------------------------------
(* Locks *)

\* The locks a thread holds.
HoldsWrite(me, i) ==
    me.inum = i /\ (me.stage \in Writing \cup {"delete"} \/ (me.stage = "entry" /\ me.op = "write"))
HoldsRead(me, i) == me.inum = i /\ me.stage = "entry" /\ me.op # "write"
HoldsEntry(me, h) == me.h = h /\ me.stage \in Writing

LockInv ==
    /\ \A i \in Inumbers, u \in Threads :
         /\ rwlock[i].writer = u <=> HoldsWrite(thread[u], i)
         /\ u \in rwlock[i].readers <=> HoldsRead(thread[u], i)
    /\ \A i \in Inumbers : rwlock[i].writer # NoThread => rwlock[i].readers = {}
    /\ \A h \in Handles, u \in Threads :
         file_entry_mutex[h] = u <=> HoldsEntry(thread[u], h)

\* A step of a thread changes no lock but those it takes or releases.
LEMMA LocksNext ==
    ASSUME LockInv, NEW t \in Threads, NEW new, Moves(t, new),
           \A i \in Inumbers : /\ rwlock'[i].writer = t <=> HoldsWrite(new, i)
                               /\ t \in rwlock'[i].readers <=> HoldsRead(new, i),
           \A i \in Inumbers, u \in Threads \ {t} :
                               /\ rwlock'[i].writer = u <=> rwlock[i].writer = u
                               /\ u \in rwlock'[i].readers <=> u \in rwlock[i].readers,
           \A i \in Inumbers : rwlock'[i].writer # NoThread => rwlock'[i].readers = {},
           \A h \in Handles : file_entry_mutex'[h] = t <=> HoldsEntry(new, h),
           \A h \in Handles, u \in Threads \ {t} :
                               file_entry_mutex'[h] = u <=> file_entry_mutex[h] = u
    PROVE  LockInv'
<1>1. ASSUME NEW i \in Inumbers, NEW u \in Threads
      PROVE  /\ rwlock'[i].writer = u <=> HoldsWrite(thread'[u], i)
             /\ u \in rwlock'[i].readers <=> HoldsRead(thread'[u], i)
  <2>1. CASE u = t
    BY <2>1 DEF Moves
  <2>2. CASE u # t
    <3>1. thread'[u] = thread[u]
      BY <2>2 DEF Moves
    <3>2. /\ rwlock[i].writer = u <=> HoldsWrite(thread[u], i)
          /\ u \in rwlock[i].readers <=> HoldsRead(thread[u], i)
      BY DEF LockInv
    <3> QED
      BY <2>2, <3>1, <3>2
  <2> QED
    BY <2>1, <2>2
<1>2. ASSUME NEW h \in Handles, NEW u \in Threads
      PROVE  file_entry_mutex'[h] = u <=> HoldsEntry(thread'[u], h)
  <2>1. CASE u = t
    BY <2>1 DEF Moves
  <2>2. CASE u # t
    <3>1. thread'[u] = thread[u]
      BY <2>2 DEF Moves
    <3>2. file_entry_mutex[h] = u <=> HoldsEntry(thread[u], h)
      BY DEF LockInv
    <3> QED
      BY <2>2, <3>1, <3>2
  <2> QED
    BY <2>1, <2>2
<1> QED
  BY <1>1, <1>2 DEF LockInv, HoldsWrite, HoldsRead, HoldsEntry

\* A step that neither takes nor releases a lock.
LEMMA LocksKept ==
    ASSUME LockInv, NEW t \in Threads, UNCHANGED locks,
           Roams(t) \/ Works(t) \/ UNCHANGED thread
    PROVE  LockInv'
<1>0. rwlock' = rwlock /\ file_entry_mutex' = file_entry_mutex
  BY DEF locks
<1>1. CASE UNCHANGED thread
  BY <1>0, <1>1 DEF LockInv, HoldsWrite, HoldsRead, HoldsEntry
<1>2. ASSUME NEW new, Moves(t, new),
             \A i : HoldsWrite(new, i) <=> HoldsWrite(thread[t], i),
             \A i : HoldsRead(new, i) <=> HoldsRead(thread[t], i),
             \A h : HoldsEntry(new, h) <=> HoldsEntry(thread[t], h)
      PROVE  LockInv'
  <2>1. \A i \in Inumbers : /\ rwlock'[i].writer = t <=> HoldsWrite(new, i)
                            /\ t \in rwlock'[i].readers <=> HoldsRead(new, i)
    BY <1>0, <1>2 DEF LockInv
  <2>2. \A h \in Handles : file_entry_mutex'[h] = t <=> HoldsEntry(new, h)
    BY <1>0, <1>2 DEF LockInv
  <2>3. \A i \in Inumbers : rwlock'[i].writer # NoThread => rwlock'[i].readers = {}
    BY <1>0 DEF LockInv
  <2> QED
    BY <1>0, <1>2, <2>1, <2>2, <2>3, LocksNext
<1>3. CASE Roams(t)
  <2>1. PICK new \in ThreadStates : Moves(t, new) /\ Free(thread[t]) /\ Free(new)
    BY <1>3 DEF Roams
  <2>2. \A i : /\ ~HoldsWrite(new, i) /\ ~HoldsWrite(thread[t], i)
               /\ ~HoldsRead(new, i) /\ ~HoldsRead(thread[t], i)
               /\ ~HoldsEntry(new, i) /\ ~HoldsEntry(thread[t], i)
    BY <2>1 DEF Free, HoldsWrite, HoldsRead, HoldsEntry
  <2> QED
    BY <1>2, <2>1, <2>2
<1>4. CASE Works(t)
  <2>1. PICK new \in ThreadStates :
          /\ Moves(t, new)
          /\ new.inum = thread[t].inum /\ new.h = thread[t].h /\ new.op = thread[t].op
          /\ \/ thread[t].stage \in Writing /\ new.stage \in Writing
             \/ thread[t].stage = "delete" /\ new.stage = "delete"
    BY <1>4 DEF Works
  <2>2. \A i : /\ HoldsWrite(new, i) <=> HoldsWrite(thread[t], i)
               /\ HoldsRead(new, i) <=> HoldsRead(thread[t], i)
               /\ HoldsEntry(new, i) <=> HoldsEntry(thread[t], i)
    BY <2>1 DEF Writing, HoldsWrite, HoldsRead, HoldsEntry
  <2> QED
    BY <1>2, <2>1, <2>2
<1> QED
  BY <1>1, <1>3, <1>4

\* The calls of pthread_rwlock_t, one field of one lock at a time.
LEMMA LockCalls ==
    ASSUME TypeInv, NEW t \in Threads, NEW i \in Inumbers
    PROVE  /\ WriteLock(t, i) =>
                /\ rwlock' \in [Inumbers -> LockType]
                /\ rwlock'[i].writer = t /\ rwlock'[i].readers = rwlock[i].readers
                /\ \A j \in Inumbers \ {i} : rwlock'[j] = rwlock[j]
           /\ ReadLock(t, i) =>
                /\ rwlock' \in [Inumbers -> LockType]
                /\ rwlock'[i].writer = rwlock[i].writer
                /\ rwlock'[i].readers = rwlock[i].readers \cup {t}
                /\ \A j \in Inumbers \ {i} : rwlock'[j] = rwlock[j]
           /\ Unlock(t, i) =>
                /\ rwlock' \in [Inumbers -> LockType]
                /\ rwlock[i].writer = t => rwlock'[i].writer = NoThread
                                           /\ rwlock'[i].readers = rwlock[i].readers
                /\ rwlock[i].writer # t => rwlock'[i].writer = rwlock[i].writer
                                           /\ rwlock'[i].readers = rwlock[i].readers \ {t}
                /\ \A j \in Inumbers \ {i} : rwlock'[j] = rwlock[j]
<1>0. rwlock \in [Inumbers -> LockType] /\ rwlock[i] \in LockType
  BY DEF TypeInv
<1>1. ASSUME NEW lock \in LockType, rwlock' = [rwlock EXCEPT ![i] = lock]
      PROVE  /\ rwlock' \in [Inumbers -> LockType] /\ rwlock'[i] = lock
             /\ \A j \in Inumbers \ {i} : rwlock'[j] = rwlock[j]
  BY <1>0, <1>1
<1>2. ASSUME WriteLock(t, i)
      PROVE  /\ rwlock' \in [Inumbers -> LockType]
             /\ rwlock'[i].writer = t /\ rwlock'[i].readers = rwlock[i].readers
             /\ \A j \in Inumbers \ {i} : rwlock'[j] = rwlock[j]
  <2> DEFINE lock == [rwlock[i] EXCEPT !.writer = t]
  <2>1. lock \in LockType /\ lock.writer = t /\ lock.readers = rwlock[i].readers
    BY <1>0 DEF LockType
  <2>2. rwlock' = [rwlock EXCEPT ![i] = lock]
    BY <1>2 DEF WriteLock
  <2> HIDE DEF lock
  <2> QED
    BY <1>1, <2>1, <2>2
<1>3. ASSUME ReadLock(t, i)
      PROVE  /\ rwlock' \in [Inumbers -> LockType]
             /\ rwlock'[i].writer = rwlock[i].writer
             /\ rwlock'[i].readers = rwlock[i].readers \cup {t}
             /\ \A j \in Inumbers \ {i} : rwlock'[j] = rwlock[j]
  <2> DEFINE lock == [rwlock[i] EXCEPT !.readers = rwlock[i].readers \cup {t}]
  <2>1. lock \in LockType /\ lock.writer = rwlock[i].writer
        /\ lock.readers = rwlock[i].readers \cup {t}
    BY <1>0 DEF LockType
  <2>2. rwlock' = [rwlock EXCEPT ![i] = lock]
    BY <1>3 DEF ReadLock
  <2> HIDE DEF lock
  <2> QED
    BY <1>1, <2>1, <2>2
<1>4. ASSUME Unlock(t, i)
      PROVE  /\ rwlock' \in [Inumbers -> LockType]
             /\ rwlock[i].writer = t => rwlock'[i].writer = NoThread
                                        /\ rwlock'[i].readers = rwlock[i].readers
             /\ rwlock[i].writer # t => rwlock'[i].writer = rwlock[i].writer
                                        /\ rwlock'[i].readers = rwlock[i].readers \ {t}
             /\ \A j \in Inumbers \ {i} : rwlock'[j] = rwlock[j]
  <2>1. CASE rwlock[i].writer = t
    <3> DEFINE lock == [rwlock[i] EXCEPT !.writer = NoThread]
    <3>1. lock \in LockType /\ lock.writer = NoThread /\ lock.readers = rwlock[i].readers
      BY <1>0 DEF LockType
    <3>2. rwlock' = [rwlock EXCEPT ![i] = lock]
      BY <1>4, <2>1 DEF Unlock
    <3> HIDE DEF lock
    <3> QED
      BY <1>1, <2>1, <3>1, <3>2
  <2>2. CASE rwlock[i].writer # t
    <3> DEFINE lock == [rwlock[i] EXCEPT !.readers = rwlock[i].readers \ {t}]
    <3>1. lock \in LockType /\ lock.writer = rwlock[i].writer
          /\ lock.readers = rwlock[i].readers \ {t}
      BY <1>0 DEF LockType
    <3>2. rwlock' = [rwlock EXCEPT ![i] = lock]
      BY <1>4, <2>2 DEF Unlock
    <3> HIDE DEF lock
    <3> QED
      BY <1>1, <2>2, <3>1, <3>2
  <2> QED
    BY <2>1, <2>2
<1> QED
  BY <1>2, <1>3, <1>4

\* The lock of an i-node is taken for writing.
LEMMA WriteLocked ==
    ASSUME TypeInv, LockInv, NEW t \in Threads, NEW new, Moves(t, new), Free(thread[t]),
           NEW i \in Inumbers, CanWriteLock(i), WriteLock(t, i), UNCHANGED file_entry_mutex,
           \A j : /\ HoldsWrite(new, j) <=> j = i
                  /\ ~HoldsRead(new, j) /\ ~HoldsEntry(new, j)
    PROVE  LockInv'
<1>1. rwlock[i].writer = NoThread /\ rwlock[i].readers = {}
  BY DEF CanWriteLock, NewLock
<1>2. /\ rwlock'[i].writer = t /\ rwlock'[i].readers = rwlock[i].readers
      /\ \A j \in Inumbers \ {i} : rwlock'[j] = rwlock[j]
  BY LockCalls
<1>3. \A j : ~HoldsWrite(thread[t], j) /\ ~HoldsRead(thread[t], j) /\ ~HoldsEntry(thread[t], j)
  BY DEF HoldsWrite, HoldsRead, HoldsEntry, Free
<1>4. t # NoThread /\ \A u \in Threads : u # NoThread
  BY BlocksAssumption
<1>5. ASSUME NEW j \in Inumbers
      PROVE  /\ rwlock'[j].writer = t <=> HoldsWrite(new, j)
             /\ t \in rwlock'[j].readers <=> HoldsRead(new, j)
             /\ rwlock'[j].writer # NoThread => rwlock'[j].readers = {}
             /\ \A u \in Threads \ {t} : /\ rwlock'[j].writer = u <=> rwlock[j].writer = u
                                         /\ u \in rwlock'[j].readers <=> u \in rwlock[j].readers
  <2>1. CASE j = i
    BY <1>1, <1>2, <1>4, <2>1
  <2>2. CASE j # i
    <3>1. rwlock'[j] = rwlock[j]
      BY <1>2, <2>2
    <3> QED
      BY <1>3, <2>2, <3>1 DEF LockInv
  <2> QED
    BY <2>1, <2>2
<1>6. \A h \in Handles : file_entry_mutex'[h] = t <=> HoldsEntry(new, h)
  BY <1>3 DEF LockInv
<1> QED
  BY <1>5, <1>6, LocksNext

\* The lock of an i-node is taken for reading.
LEMMA ReadLocked ==
    ASSUME TypeInv, LockInv, NEW t \in Threads, NEW new, Moves(t, new), Free(thread[t]),
           NEW i \in Inumbers, CanReadLock(i), ReadLock(t, i), UNCHANGED file_entry_mutex,
           \A j : /\ HoldsRead(new, j) <=> j = i
                  /\ ~HoldsWrite(new, j) /\ ~HoldsEntry(new, j)
    PROVE  LockInv'
<1>1. rwlock[i].writer = NoThread
  BY DEF CanReadLock
<1>2. /\ rwlock'[i].writer = NoThread /\ rwlock'[i].readers = rwlock[i].readers \cup {t}
      /\ \A j \in Inumbers \ {i} : rwlock'[j] = rwlock[j]
  BY <1>1, LockCalls
<1>3. \A j : ~HoldsWrite(thread[t], j) /\ ~HoldsRead(thread[t], j) /\ ~HoldsEntry(thread[t], j)
  BY DEF HoldsWrite, HoldsRead, HoldsEntry, Free
<1>4. t # NoThread
  BY BlocksAssumption
<1>5. ASSUME NEW j \in Inumbers
      PROVE  /\ rwlock'[j].writer = t <=> HoldsWrite(new, j)
             /\ t \in rwlock'[j].readers <=> HoldsRead(new, j)
             /\ rwlock'[j].writer # NoThread => rwlock'[j].readers = {}
             /\ \A u \in Threads \ {t} : /\ rwlock'[j].writer = u <=> rwlock[j].writer = u
                                         /\ u \in rwlock'[j].readers <=> u \in rwlock[j].readers
  <2>1. CASE j = i
    BY <1>1, <1>2, <1>4, <2>1
  <2>2. CASE j # i
    <3>1. rwlock'[j] = rwlock[j]
      BY <1>2, <2>2
    <3> QED
      BY <1>3, <2>2, <3>1 DEF LockInv
  <2> QED
    BY <2>1, <2>2
<1>6. \A h \in Handles : file_entry_mutex'[h] = t <=> HoldsEntry(new, h)
  BY <1>3 DEF LockInv
<1> QED
  BY <1>5, <1>6, LocksNext

\* A thread releases the lock of its i-node, and the mutex of its entry if it has it.
LEMMA Unlocked ==
    ASSUME TypeInv, LockInv, NEW t \in Threads, NEW new, Moves(t, new), Free(new),
           NEW i \in Inumbers, HoldsWrite(thread[t], i) \/ HoldsRead(thread[t], i), Unlock(t, i),
           \A h \in Handles : file_entry_mutex'[h] # t,
           \A h \in Handles, u \in Threads \ {t} :
                               file_entry_mutex'[h] = u <=> file_entry_mutex[h] = u
    PROVE  LockInv'
<1>1. \A j : ~HoldsWrite(new, j) /\ ~HoldsRead(new, j) /\ ~HoldsEntry(new, j)
  BY DEF HoldsWrite, HoldsRead, HoldsEntry, Free
<1>2. t # NoThread /\ \A u \in Threads : u # NoThread
  BY BlocksAssumption
<1>3. /\ rwlock[i].writer = t => rwlock'[i].writer = NoThread
                                 /\ rwlock'[i].readers = rwlock[i].readers
      /\ rwlock[i].writer # t => rwlock'[i].writer = rwlock[i].writer
                                 /\ rwlock'[i].readers = rwlock[i].readers \ {t}
      /\ \A j \in Inumbers \ {i} : rwlock'[j] = rwlock[j]
  BY LockCalls
<1>4. /\ rwlock[i].writer # NoThread => rwlock[i].readers = {}
  BY DEF LockInv
<1>5. ASSUME NEW j \in Inumbers
      PROVE  /\ rwlock'[j].writer = t <=> HoldsWrite(new, j)
             /\ t \in rwlock'[j].readers <=> HoldsRead(new, j)
             /\ rwlock'[j].writer # NoThread => rwlock'[j].readers = {}
             /\ \A u \in Threads \ {t} : /\ rwlock'[j].writer = u <=> rwlock[j].writer = u
                                         /\ u \in rwlock'[j].readers <=> u \in rwlock[j].readers
  <2>1. CASE j = i /\ rwlock[i].writer = t
    BY <1>1, <1>2, <1>3, <1>4, <2>1
  <2>2. CASE j = i /\ rwlock[i].writer # t
    BY <1>1, <1>2, <1>3, <1>4, <2>2
  <2>3. CASE j # i
    <3>1. rwlock'[j] = rwlock[j]
      BY <1>3, <2>3
    <3>2. ~HoldsWrite(thread[t], j) /\ ~HoldsRead(thread[t], j)
      BY <2>3 DEF HoldsWrite, HoldsRead
    <3> QED
      BY <1>1, <3>1, <3>2 DEF LockInv
  <2> QED
    BY <2>1, <2>2, <2>3
<1> QED
  BY <1>1, <1>5, LocksNext

\* A step of a thread that takes or releases locks.
Passes(t) ==
    \E new \in ThreadStates :
      /\ Moves(t, new)
      /\ new.inum \in {ROOT_DIR_INUM, thread[t].inum}
      /\ new.stage \notin {"indirect", "release"}

\* An emptied file: the thread goes on to its entry.
LEMMA EmptiedNext ==
    ASSUME NEW me \in ThreadStates, me.op \in {"open", "copy"}, me.name \in Names, me.freed = 0
    PROVE  /\ Emptied(me) \in ThreadStates /\ Free(Emptied(me)) /\ Emptied(me).inum = me.inum
<1> DEFINE stage == IF "TFS_O_APPEND" \in me.flags THEN "append" ELSE "add"
<1>1. stage \in {"append", "add"} /\ stage \in Stages
  BY DEF Stages
<1>2. Emptied(me) = [me EXCEPT !.stage = stage]
  BY DEF Emptied
<1> HIDE DEF stage
<1>3. /\ Emptied(me) \in ThreadType /\ Emptied(me).stage = stage
      /\ Emptied(me).op = me.op /\ Emptied(me).name = me.name
      /\ Emptied(me).inum = me.inum /\ Emptied(me).freed = 0
  BY <1>1, <1>2, StageMoves
<1> QED
  BY <1>1, <1>3 DEF ThreadStates, StageOK, Opening, WithHandle, Writing, Free

\* The lock of a file that is to be truncated is taken unless the file is empty.
LEMMA LocksToTruncateNext ==
    ASSUME TypeInv, LockInv, NEW t \in Threads, LocksToTruncate(t)
    PROVE  TypeInv' /\ LockInv' /\ Passes(t)
<1> DEFINE me == thread[t]
           i == me.inum
<1>0. /\ UNCHANGED <<store, file_entry_mutex, issued, ret>>
      /\ me \in ThreadStates /\ me.stage = "truncate" /\ me.op \in {"open", "copy"}
      /\ me.name \in Names /\ me.freed = 0 /\ Free(me) /\ i \in Inumbers
      /\ CanWriteLock(i)
  BY DEF LocksToTruncate, TypeInv, ThreadStates, ThreadType, StageOK, Opening, Free, Writing
<1>1. CASE WriteLock(t, i) /\ Stays(t, "delete")
  <2> DEFINE new == [me EXCEPT !.stage = "delete"]
  <2>1. "delete" \in Stages
    BY DEF Stages
  <2>2. new \in ThreadType /\ new.stage = "delete" /\ new.op = me.op /\ new.name = me.name
        /\ new.inum = i /\ new.freed = 0 /\ new.h = me.h
    BY <1>0, <2>1, StageMoves
  <2> HIDE DEF new
  <2>3. StageOK(new)
    BY <1>0, <2>2 DEF StageOK, Opening, WithHandle, Writing
  <2>4. thread' \in [Threads -> ThreadStates] /\ Moves(t, new)
    BY <1>1, <2>1, <2>3, StaysNext DEF new
  <2>5. /\ rwlock' \in [Inumbers -> LockType]
        /\ rwlock'[i].writer = t /\ rwlock'[i].readers = rwlock[i].readers
        /\ \A j \in Inumbers \ {i} : rwlock'[j] = rwlock[j]
    BY <1>0, <1>1, LockCalls
  <2>6. TypeInv'
    BY <1>0, <2>4, <2>5, TypesNext DEF store, directory, disk, table
  <2>7. LockInv'
    <3>1. \A j : /\ HoldsWrite(new, j) <=> j = i
                 /\ ~HoldsRead(new, j) /\ ~HoldsEntry(new, j)
      BY <2>2 DEF HoldsWrite, HoldsRead, HoldsEntry, Writing
    <3> QED
      BY <1>0, <1>1, <2>4, <3>1, WriteLocked
  <2>8. Passes(t)
    BY <2>2, <2>3, <2>4 DEF Passes, ThreadStates
  <2> QED
    BY <2>6, <2>7, <2>8
<1>2. CASE thread' = [thread EXCEPT ![t] = Emptied(@)] /\ UNCHANGED rwlock
  <2>1. thread' = [thread EXCEPT ![t] = Emptied(me)]
    BY <1>2
  <2>2. Emptied(me) \in ThreadStates /\ Free(Emptied(me)) /\ Emptied(me).inum = i
    BY <1>0, EmptiedNext
  <2>3. thread' \in [Threads -> ThreadStates] /\ Moves(t, Emptied(me))
    BY <2>1, <2>2, ThreadNext
  <2>4. TypeInv'
    BY <1>0, <1>2, <2>3, TypesNext DEF store, directory, disk, table
  <2>5. Roams(t) /\ UNCHANGED locks
    BY <1>0, <1>2, <2>2, <2>3 DEF Roams, Learns, locks
  <2>6. Passes(t)
    BY <2>2, <2>3 DEF Passes, Free, Writing
  <2> QED
    BY <2>4, <2>5, <2>6, LocksKept
<1> QED
  BY <1>1, <1>2 DEF LocksToTruncate

\* A truncated file has no blocks, and is no longer locked.
LEMMA TruncatesNext ==
    ASSUME TypeInv, LockInv, NEW t \in Threads, Truncates(t)
    PROVE  TypeInv' /\ LockInv' /\ Passes(t)
<1> DEFINE me == thread[t]
           i == me.inum
           kept == [me EXCEPT !.freed = 0]
           new == Emptied(kept)
<1>0. /\ UNCHANGED <<directory, disk, table, file_entry_mutex, issued, ret>>
      /\ me \in ThreadStates /\ me.stage = "delete" /\ me.op \in {"open", "copy"}
      /\ me.name \in Names /\ i \in Inumbers /\ Unlock(t, i)
      /\ inode_table' = [inode_table EXCEPT ![i] = NewInode]
  BY DEF Truncates, TypeInv, ThreadStates, ThreadType, StageOK, Opening
<1>1. thread' = [thread EXCEPT ![t] = new]
  BY DEF Truncates
<1>2. kept \in ThreadType /\ kept.stage = "delete" /\ kept.op = me.op /\ kept.name = me.name
      /\ kept.inum = i /\ kept.freed = 0
  BY <1>0 DEF ThreadStates, ThreadType
<1> HIDE DEF kept
<1>3. kept \in ThreadStates
  BY <1>0, <1>2 DEF ThreadStates, StageOK, Opening, WithHandle, Writing
<1>4. new \in ThreadStates /\ Free(new) /\ new.inum = i
  BY <1>0, <1>2, <1>3, EmptiedNext
<1> HIDE DEF new
<1>5. thread' \in [Threads -> ThreadStates] /\ Moves(t, new)
  BY <1>1, <1>4, ThreadNext
<1>6. inode_table' \in [Inumbers -> InodeType]
  BY <1>0, Zeros, NodeNext
<1>7. rwlock' \in [Inumbers -> LockType]
  BY <1>0, LockCalls
<1>8. TypeInv'
  BY <1>0, <1>5, <1>6, <1>7, TypesNext DEF directory, disk, table
<1>9. HoldsWrite(me, i) /\ \A h \in Handles : file_entry_mutex'[h] # t
  BY <1>0 DEF HoldsWrite, LockInv, HoldsEntry, Writing
<1>10. LockInv'
  BY <1>0, <1>4, <1>5, <1>9, Unlocked
<1>11. Passes(t)
  BY <1>4, <1>5 DEF Passes, Free, Writing
<1> QED
  BY <1>8, <1>10, <1>11

\* The lock of a file is taken by a call that writes, or that reads.
LEMMA LocksFileNext ==
    ASSUME TypeInv, LockInv, NEW t \in Threads, LocksToWrite(t) \/ LocksToRead(t)
    PROVE  TypeInv' /\ LockInv' /\ Passes(t)
<1> DEFINE me == thread[t]
           i == me.inum
           new == [me EXCEPT !.stage = "entry"]
<1>0. /\ UNCHANGED <<store, file_entry_mutex, issued, ret>>
      /\ me \in ThreadStates /\ me.stage = "lock" /\ me.op \in {"read", "write", "copy"}
      /\ me.h \in Handles /\ i \in Inumbers /\ me.freed = 0 /\ Free(me)
      /\ Stays(t, "entry") /\ "entry" \in Stages
  BY DEF LocksToWrite, LocksToRead, TypeInv, ThreadStates, ThreadType, StageOK, WithHandle,
         Free, Writing, Stages
<1>1. new \in ThreadType /\ new.stage = "entry" /\ new.op = me.op
      /\ new.inum = i /\ new.freed = 0 /\ new.h = me.h
  BY <1>0, StageMoves
<1> HIDE DEF new
<1>2. StageOK(new)
  BY <1>0, <1>1 DEF StageOK, Opening, WithHandle, Writing
<1>3. thread' \in [Threads -> ThreadStates] /\ Moves(t, new)
  BY <1>0, <1>2, StaysNext DEF new
<1>4. Passes(t)
  BY <1>1, <1>2, <1>3 DEF Passes, ThreadStates
<1>5. CASE me.op = "write" /\ CanWriteLock(i) /\ WriteLock(t, i)
  <2>1. rwlock' \in [Inumbers -> LockType]
    BY <1>0, <1>5, LockCalls
  <2>2. \A j : /\ HoldsWrite(new, j) <=> j = i
               /\ ~HoldsRead(new, j) /\ ~HoldsEntry(new, j)
    BY <1>1, <1>5 DEF HoldsWrite, HoldsRead, HoldsEntry, Writing
  <2>3. LockInv'
    BY <1>0, <1>3, <1>5, <2>2, WriteLocked
  <2>4. TypeInv'
    BY <1>0, <1>3, <2>1, TypesNext DEF store, directory, disk, table
  <2> QED
    BY <1>4, <2>3, <2>4
<1>6. CASE me.op # "write" /\ CanReadLock(i) /\ ReadLock(t, i)
  <2>1. rwlock' \in [Inumbers -> LockType]
    BY <1>0, <1>6, LockCalls
  <2>2. \A j : /\ HoldsRead(new, j) <=> j = i
               /\ ~HoldsWrite(new, j) /\ ~HoldsEntry(new, j)
    BY <1>1, <1>6 DEF HoldsWrite, HoldsRead, HoldsEntry, Writing
  <2>3. LockInv'
    BY <1>0, <1>3, <1>6, <2>2, ReadLocked
  <2>4. TypeInv'
    BY <1>0, <1>3, <2>1, TypesNext DEF store, directory, disk, table
  <2> QED
    BY <1>4, <2>3, <2>4
<1> QED
  BY <1>5, <1>6 DEF LocksToWrite, LocksToRead

\* The offset of one handle changes.
LEMMA OffsetNext ==
    ASSUME TypeInv, NEW h \in Handles, NEW off \in 0 .. MAX_FILE_SIZE,
           open_file_table' = [open_file_table EXCEPT ![h].of_offset = off]
    PROVE  /\ open_file_table' \in [Handles -> EntryType]
           /\ \A g \in Handles : open_file_table'[g].of_inumber = open_file_table[g].of_inumber
<1> DEFINE entry == [open_file_table[h] EXCEPT !.of_offset = off]
<1>1. open_file_table \in [Handles -> EntryType] /\ open_file_table[h] \in EntryType
  BY DEF TypeInv
<1>2. entry \in EntryType /\ entry.of_inumber = open_file_table[h].of_inumber
  BY <1>1 DEF EntryType
<1>3. open_file_table' = [open_file_table EXCEPT ![h] = entry]
  OBVIOUS
<1> HIDE DEF entry
<1>4. open_file_table'[h] = entry /\ \A g \in Handles \ {h} : open_file_table'[g] = open_file_table[g]
  BY <1>1, <1>3
<1> QED
  BY <1>1, <1>2, <1>3, <1>4

\* A write takes the mutex of its entry, or has no byte to write.
LEMMA LocksEntryToWriteNext ==
    ASSUME TypeInv, LockInv, NEW t \in Threads, LocksEntryToWrite(t)
    PROVE  /\ TypeInv' /\ LockInv' /\ Passes(t)
           /\ \A g \in Handles : open_file_table'[g].of_inumber = open_file_table[g].of_inumber
<1> DEFINE me == thread[t]
           i == me.inum
           off == WriteStart(me)
           new == [me EXCEPT !.stage = "alloc"]
<1>0. /\ UNCHANGED <<inode_table, directory, disk, takenHandles, issued>>
      /\ me \in ThreadStates /\ me.stage = "entry" /\ me.op = "write"
      /\ me.h \in Handles /\ i \in Inumbers /\ me.freed = 0
      /\ CanLockEntry(me.h)
      /\ open_file_table' = [open_file_table EXCEPT ![me.h].of_offset = off]
  BY DEF LocksEntryToWrite, TypeInv, ThreadStates, ThreadType, StageOK, WithHandle
<1>1. off \in 0 .. MAX_FILE_SIZE
  BY <1>0 DEF WriteStart, TypeInv, InodeType, EntryType
<1> HIDE DEF off
<1>2. /\ open_file_table' \in [Handles -> EntryType]
      /\ \A g \in Handles : open_file_table'[g].of_inumber = open_file_table[g].of_inumber
  BY <1>0, <1>1, OffsetNext
<1>3. /\ file_entry_mutex[me.h] = NoThread
      /\ t # NoThread /\ \A u \in Threads : u # NoThread
  BY <1>0, BlocksAssumption DEF CanLockEntry
<1>4. HoldsWrite(me, i) /\ \A j : (HoldsWrite(me, j) <=> j = i) /\ ~HoldsRead(me, j) /\ ~HoldsEntry(me, j)
  BY <1>0 DEF HoldsWrite, HoldsRead, HoldsEntry, Writing
<1>5. CASE /\ file_entry_mutex' = [file_entry_mutex EXCEPT ![me.h] = t]
           /\ Stays(t, "alloc")
           /\ UNCHANGED <<rwlock, ret>>
  <2>1. "alloc" \in Stages
    BY DEF Stages
  <2>2. new \in ThreadType /\ new.stage = "alloc" /\ new.op = me.op
        /\ new.inum = i /\ new.freed = 0 /\ new.h = me.h
    BY <1>0, <2>1, StageMoves
  <2> HIDE DEF new
  <2>3. StageOK(new)
    BY <1>0, <2>2 DEF StageOK, Opening, WithHandle, Writing
  <2>4. thread' \in [Threads -> ThreadStates] /\ Moves(t, new)
    BY <1>5, <2>1, <2>3, StaysNext DEF new
  <2>5. \A j : (HoldsWrite(new, j) <=> j = i) /\ ~HoldsRead(new, j)
               /\ (HoldsEntry(new, j) <=> j = me.h)
    BY <1>0, <2>2 DEF HoldsWrite, HoldsRead, HoldsEntry, Writing
  <2>6. /\ file_entry_mutex' \in [Handles -> Threads \cup {NoThread}]
        /\ file_entry_mutex'[me.h] = t
        /\ \A h \in Handles \ {me.h} : file_entry_mutex'[h] = file_entry_mutex[h]
    BY <1>0, <1>5 DEF TypeInv
  <2>7. \A h \in Handles : /\ file_entry_mutex'[h] = t <=> HoldsEntry(new, h)
                           /\ \A u \in Threads \ {t} : file_entry_mutex'[h] = u <=> file_entry_mutex[h] = u
    <3>1. \A h \in Handles : file_entry_mutex[h] # t
      BY <1>4 DEF LockInv
    <3> QED
      BY <1>3, <2>5, <2>6, <3>1
  <2>8. rwlock' = rwlock
    BY <1>5
  <2>9. \A j \in Inumbers : /\ rwlock'[j].writer = t <=> HoldsWrite(new, j)
                            /\ t \in rwlock'[j].readers <=> HoldsRead(new, j)
                            /\ rwlock'[j].writer # NoThread => rwlock'[j].readers = {}
    BY <1>4, <2>5, <2>8 DEF LockInv
  <2>10. LockInv'
    BY <2>4, <2>7, <2>8, <2>9, LocksNext
  <2>11. TypeInv'
    BY <1>0, <1>2, <2>4, <2>6, <2>8, TypesNext DEF directory, disk
  <2>12. Passes(t)
    BY <2>2, <2>3, <2>4 DEF Passes, ThreadStates
  <2> QED
    BY <1>2, <2>10, <2>11, <2>12
<1>6. CASE Unlock(t, i) /\ UNCHANGED file_entry_mutex /\ Ends(t)
  <2>1. thread' \in [Threads -> ThreadStates] /\ Moves(t, Idle)
    BY <1>6, EndsNext
  <2>2. Idle \in ThreadStates /\ Free(Idle) /\ Idle.inum = ROOT_DIR_INUM
    BY Zeros DEF Free, Idle, Writing
  <2>3. rwlock' \in [Inumbers -> LockType]
    BY <1>0, <1>6, LockCalls
  <2>4. \A h \in Handles : file_entry_mutex'[h] # t
    BY <1>4, <1>6 DEF LockInv
  <2>5. LockInv'
    BY <1>0, <1>4, <1>6, <2>1, <2>2, <2>4, Unlocked
  <2>6. TypeInv'
    BY <1>0, <1>2, <1>6, <2>1, <2>3, TypesNext DEF directory, disk
  <2>7. Passes(t)
    BY <2>1, <2>2 DEF Passes, Free, Writing
  <2> QED
    BY <1>2, <2>5, <2>6, <2>7
<1> QED
  BY <1>5, <1>6 DEF LocksEntryToWrite, off

\* How far a write that has its blocks gets.
WriteLength(t) ==
    LET me == thread[t]
        off == open_file_table[me.h].of_offset
    IN  Greatest(0, Least(SizeNeeded(off, me.buf),
                          inode_table[me.inum].blocksAlloc * BLOCK_SIZE) - off)

\* A write copies no more than it was given, and ends within the greatest file.
LEMMA WriteLengthBound ==
    ASSUME TypeInv, NEW t \in Threads, thread[t].h \in Handles
    PROVE  /\ WriteLength(t) \in Nat
           /\ open_file_table[thread[t].h].of_offset \in 0 .. MAX_FILE_SIZE
           /\ open_file_table[thread[t].h].of_offset + WriteLength(t) \in 0 .. MAX_FILE_SIZE
           /\ WriteLength(t) <= Len(thread[t].buf)
<1> DEFINE me == thread[t]
           off == open_file_table[me.h].of_offset
           s == SizeNeeded(off, me.buf)
           k == inode_table[me.inum].blocksAlloc * BLOCK_SIZE
           len == Len(me.buf)
<1>1. me.inum \in Inumbers /\ me.buf \in Seq(Nat)
  BY DEF TypeInv, ThreadStates, ThreadType
<1>2. off \in 0 .. MAX_FILE_SIZE /\ inode_table[me.inum].blocksAlloc \in 0 .. MAX_INODE_BLOCKS
  BY <1>1 DEF TypeInv, EntryType, InodeType
<1>3. k \in 0 .. MAX_FILE_SIZE /\ MAX_FILE_SIZE \in Nat
  BY <1>2, Sizes
<1>4. s \in off .. MAX_FILE_SIZE /\ s <= off + len /\ len \in Nat
  <2>1. len \in Nat
    BY <1>1
  <2> HIDE DEF off
  <2>2. s \in off .. MAX_FILE_SIZE /\ s <= off + len
    BY <1>1, <1>2, SizeNeededBound
  <2> QED
    BY <2>1, <2>2
<1>5. WriteLength(t) = Greatest(0, Least(s, k) - off)
  BY DEF WriteLength
<1> HIDE DEF off, s, k, len
<1>6. /\ WriteLength(t) \in Nat /\ off + WriteLength(t) \in 0 .. MAX_FILE_SIZE
      /\ WriteLength(t) <= len
  BY <1>2, <1>3, <1>4, <1>5 DEF Greatest, Least
<1> QED
  BY <1>2, <1>6 DEF off, len

\* The bytes of a write are in its blocks; the locks are released.
LEMMA WritesNext ==
    ASSUME TypeInv, LockInv, NEW t \in Threads, Writes(t)
    PROVE  /\ TypeInv' /\ LockInv' /\ Passes(t)
           /\ \A g \in Handles : open_file_table'[g].of_inumber = open_file_table[g].of_inumber
<1> DEFINE me == thread[t]
           i == me.inum
           node == inode_table[i]
           off == open_file_table[me.h].of_offset
           m == WriteLength(t)
           Wrote(b, c) == {p \in off .. off + m - 1 : CellOf(node, p) = <<b, c>>}
<1>0. /\ UNCHANGED <<directory, takenBlocks, takenHandles, issued>>
      /\ me \in ThreadStates /\ me.stage \in Writing /\ me.op = "write"
      /\ me.h \in Handles /\ i \in Inumbers /\ me.buf \in Seq(Nat)
      /\ Unlock(t, i) /\ Ends(t)
      /\ file_entry_mutex' = [file_entry_mutex EXCEPT ![me.h] = NoThread]
  BY DEF Writes, TypeInv, ThreadStates, ThreadType, StageOK, WithHandle, Writing
<1>1. /\ open_file_table' = [open_file_table EXCEPT ![me.h].of_offset = off + m]
      /\ inode_table' = [inode_table EXCEPT ![i].i_size = Greatest(@, off + m)]
      /\ fs_data' = [b \in Blocks |-> [c \in 1 .. BLOCK_SIZE |->
                         IF Wrote(b, c) = {} THEN fs_data[b][c]
                         ELSE me.buf[(CHOOSE p \in Wrote(b, c) : TRUE) - off + 1]]]
  BY DEF Writes, WriteLength
<1>2. /\ m \in Nat /\ off \in 0 .. MAX_FILE_SIZE /\ off + m \in 0 .. MAX_FILE_SIZE
      /\ m <= Len(me.buf)
  BY <1>0, WriteLengthBound
<1> HIDE DEF m
<1>3. /\ open_file_table' \in [Handles -> EntryType]
      /\ \A g \in Handles : open_file_table'[g].of_inumber = open_file_table[g].of_inumber
  BY <1>0, <1>1, <1>2, OffsetNext
<1>4. inode_table' \in [Inumbers -> InodeType]
  <2> DEFINE new == [node EXCEPT !.i_size = Greatest(node.i_size, off + m)]
  <2>1. node \in InodeType
    BY <1>0 DEF TypeInv
  <2>2. Greatest(node.i_size, off + m) \in 0 .. MAX_FILE_SIZE
    BY <1>2, <2>1 DEF Greatest, InodeType
  <2>3. inode_table' = [inode_table EXCEPT ![i] = new]
    BY <1>1
  <2>4. new \in InodeType
    <3> HIDE DEF node, off
    <3> QED
      BY <2>1, <2>2 DEF InodeType
  <2> HIDE DEF new
  <2> QED
    BY <1>0, <2>3, <2>4, NodeNext
<1>5. fs_data' \in [Blocks -> [1 .. BLOCK_SIZE -> Nat]]
  <2> DEFINE Cell(b, c) == IF Wrote(b, c) = {} THEN fs_data[b][c]
                           ELSE me.buf[(CHOOSE p \in Wrote(b, c) : TRUE) - off + 1]
  <2>1. ASSUME NEW b \in Blocks, NEW c \in 1 .. BLOCK_SIZE PROVE Cell(b, c) \in Nat
    <3>1. CASE Wrote(b, c) = {}
      BY <3>1 DEF TypeInv
    <3>2. CASE Wrote(b, c) # {}
      <4>1. PICK p \in Wrote(b, c) : p = CHOOSE q \in Wrote(b, c) : TRUE
        BY <3>2
      <4>2. p \in off .. off + m - 1
        BY <4>1
      <4>3. p - off + 1 \in 1 .. Len(me.buf)
        <5> DEFINE len == Len(me.buf)
        <5>1. len \in Nat /\ m <= len
          BY <1>0, <1>2
        <5> HIDE DEF len, off
        <5>2. p - off + 1 \in 1 .. len
          BY <1>2, <4>2, <5>1
        <5> QED
          BY <5>2 DEF len
      <4>4. me.buf[p - off + 1] \in Nat
        <5>1. \A k \in 1 .. Len(me.buf) : me.buf[k] \in Nat
          BY <1>0
        <5> QED
          BY <4>3, <5>1
      <4> QED
        BY <3>2, <4>1, <4>4
    <3> QED
      BY <3>1, <3>2
  <2>2. fs_data' = [b \in Blocks |-> [c \in 1 .. BLOCK_SIZE |-> Cell(b, c)]]
    BY <1>1
  <2> HIDE DEF Cell
  <2> QED
    BY <2>1, <2>2
<1>6. thread' \in [Threads -> ThreadStates] /\ Moves(t, Idle)
  BY <1>0, EndsNext
<1>7. Idle \in ThreadStates /\ Free(Idle) /\ Idle.inum = ROOT_DIR_INUM
  BY Zeros DEF Free, Idle, Writing
<1>8. rwlock' \in [Inumbers -> LockType]
  BY <1>0, LockCalls
<1>9. file_entry_mutex' \in [Handles -> Threads \cup {NoThread}]
  BY <1>0 DEF TypeInv
<1>10. TypeInv'
  BY <1>0, <1>3, <1>4, <1>5, <1>6, <1>8, <1>9, TypesNext DEF directory
<1>11. LockInv'
  <2>1. HoldsWrite(me, i) /\ \A h : HoldsEntry(me, h) <=> h = me.h
    BY <1>0 DEF HoldsWrite, HoldsEntry
  <2>2. file_entry_mutex[me.h] = t /\ \A h \in Handles : file_entry_mutex[h] = t => h = me.h
    BY <1>0, <2>1 DEF LockInv
  <2>3. t # NoThread /\ \A u \in Threads : u # NoThread
    BY BlocksAssumption
  <2>4. /\ file_entry_mutex'[me.h] = NoThread
        /\ \A h \in Handles \ {me.h} : file_entry_mutex'[h] = file_entry_mutex[h]
    BY <1>0 DEF TypeInv
  <2>5. \A h \in Handles : /\ file_entry_mutex'[h] # t
                           /\ \A u \in Threads \ {t} : file_entry_mutex'[h] = u <=> file_entry_mutex[h] = u
    BY <2>2, <2>3, <2>4
  <2> QED
    BY <1>0, <1>6, <1>7, <2>1, <2>5, Unlocked
<1>12. Passes(t)
  BY <1>6, <1>7 DEF Passes, Free, Writing
<1> QED
  BY <1>3, <1>10, <1>11, <1>12

\* How far a read gets: the difference wraps when the handle is past the end.
ReadLength(t) ==
    Least((inode_table[thread[t].inum].i_size - open_file_table[thread[t].h].of_offset)
             % SizeModulus, thread[t].len)

\* A read is under both locks for one step, and releases the lock of the file.
LEMMA ReadsNext ==
    ASSUME TypeInv, LockInv, NEW t \in Threads, Reads(t)
    PROVE  /\ TypeInv' /\ LockInv' /\ Passes(t)
           /\ \A g \in Handles : open_file_table'[g].of_inumber = open_file_table[g].of_inumber
<1> DEFINE me == thread[t]
           i == me.inum
           node == inode_table[i]
           off == open_file_table[me.h].of_offset
           n == ReadLength(t)
<1>0. /\ UNCHANGED <<inode_table, directory, disk, takenHandles, file_entry_mutex, issued>>
      /\ me \in ThreadStates /\ me.stage = "entry" /\ me.op # "write"
      /\ me.h \in Handles /\ i \in Inumbers /\ me.len \in Nat
      /\ Unlock(t, i)
  BY DEF Reads, TypeInv, ThreadStates, ThreadType, StageOK, WithHandle
<1>1. /\ off \in 0 .. MAX_FILE_SIZE /\ node.i_size \in 0 .. MAX_FILE_SIZE
      /\ node.blocksAlloc * BLOCK_SIZE \in 0 .. MAX_FILE_SIZE /\ MAX_FILE_SIZE \in Nat
  BY <1>0, Sizes DEF TypeInv, EntryType, InodeType
<1>2. n \in Nat
  <2>1. SizeModulus \in Nat /\ SizeModulus > 0
    BY Sizes, BlocksAssumption DEF MAX_FILE_SIZE
  <2>2. node.i_size - off \in Int
    BY <1>1
  <2>3. (node.i_size - off) % SizeModulus \in Nat
    BY <2>1, <2>2
  <2>4. n = Least((node.i_size - off) % SizeModulus, me.len)
    BY DEF ReadLength
  <2> HIDE DEF n, node, off
  <2> QED
    BY <1>0, <2>3, <2>4 DEF Least
<1>3. \/ /\ open_file_table' = [open_file_table EXCEPT ![me.h].of_offset = off + n]
         /\ n = 0 \/ off + n <= node.blocksAlloc * BLOCK_SIZE
         /\ AfterRead(t, n)
      \/ AfterRead(t, -1) /\ UNCHANGED open_file_table
  BY DEF Reads, ReadLength
<1> HIDE DEF n
<1>4. /\ open_file_table' \in [Handles -> EntryType]
      /\ \A g \in Handles : open_file_table'[g].of_inumber = open_file_table[g].of_inumber
  <2>1. CASE UNCHANGED open_file_table
    BY <2>1 DEF TypeInv
  <2>2. CASE /\ open_file_table' = [open_file_table EXCEPT ![me.h].of_offset = off + n]
             /\ n = 0 \/ off + n <= node.blocksAlloc * BLOCK_SIZE
    <3> DEFINE k == node.blocksAlloc * BLOCK_SIZE
    <3>1. k \in 0 .. MAX_FILE_SIZE /\ (n = 0 \/ off + n <= k)
      BY <1>1, <2>2
    <3> HIDE DEF off, k
    <3>2. off + n \in 0 .. MAX_FILE_SIZE
      BY <1>1, <1>2, <3>1
    <3> QED
      BY <1>0, <2>2, <3>2, OffsetNext
  <2> QED
    BY <1>3, <2>1, <2>2
<1>5. PICK v \in Int : AfterRead(t, v)
  BY <1>2, <1>3
<1>6. /\ thread' \in [Threads -> ThreadStates]
      /\ \E new \in ThreadStates : Moves(t, new) /\ Free(new) /\ new.inum = ROOT_DIR_INUM
  BY <1>0, <1>5, AfterReadNext
<1>7. PICK new \in ThreadStates : Moves(t, new) /\ Free(new) /\ new.inum = ROOT_DIR_INUM
  BY <1>6
<1>8. rwlock' \in [Inumbers -> LockType]
  BY <1>0, LockCalls
<1>9. TypeInv'
  BY <1>0, <1>4, <1>6, <1>8, TypesNext DEF directory, disk
<1>10. LockInv'
  <2>1. HoldsRead(me, i) /\ \A h : ~HoldsEntry(me, h)
    BY <1>0 DEF HoldsRead, HoldsEntry, Writing
  <2>2. file_entry_mutex' = file_entry_mutex
    BY <1>0
  <2>3. \A h \in Handles : file_entry_mutex'[h] # t
    BY <2>1, <2>2 DEF LockInv
  <2> QED
    BY <1>0, <1>7, <2>1, <2>2, <2>3, Unlocked
<1>11. Passes(t)
  BY <1>7 DEF Passes, Free, Writing
<1> QED
  BY <1>4, <1>9, <1>10, <1>11

-----------------------------------------------------------------------------
(* The directory *)

\* Whatever refers to an i-node refers to one that is in use.
NamesInv ==
    /\ NamesUnique
    /\ \A u \in Threads : thread[u].inum \in takenInodes
    /\ \A h \in Handles : open_file_table[h].of_inumber \in takenInodes

\* A step that changes no i-node's use and no entry of the directory.
LEMMA NamesKept ==
    ASSUME NamesInv, NEW t \in Threads, UNCHANGED directory,
           \/ UNCHANGED thread
           \/ \E new : Moves(t, new) /\ new.inum \in takenInodes,
           \A h \in Handles : open_file_table'[h].of_inumber
                                \in {open_file_table[h].of_inumber, thread[t].inum}
    PROVE  NamesInv'
<1>1. takenInodes' = takenInodes /\ dir_entry' = dir_entry
  BY DEF directory
<1>2. NamesUnique'
  BY <1>1 DEF NamesInv, NamesUnique, FileInodes
<1>3. \A u \in Threads : thread'[u].inum \in takenInodes
  BY DEF NamesInv, Moves
<1>4. \A h \in Handles : open_file_table'[h].of_inumber \in takenInodes
  BY DEF NamesInv
<1> QED
  BY <1>1, <1>2, <1>3, <1>4 DEF NamesInv

\* Every i-node that a thread can learn of is in use.
LEMMA LearnsTaken ==
    ASSUME TypeInv, NamesInv, NEW t \in Threads, UNCHANGED directory, NEW i, Learns(t, i)
    PROVE  i \in takenInodes
<1>1. dir_entry' = dir_entry
  BY DEF directory
<1>2. \A e \in DOMAIN dir_entry : dir_entry[e].d_inumber \in takenInodes
  BY DEF NamesInv, NamesUnique, FileInodes
<1> QED
  BY <1>1, <1>2 DEF Learns, NamesInv, TypeInv

\* A roaming step that leaves the directory and the open files as they are.
LEMMA NamesRoam ==
    ASSUME TypeInv, NamesInv, NEW t \in Threads, UNCHANGED <<directory, open_file_table>>,
           Roams(t) \/ UNCHANGED thread
    PROVE  NamesInv'
<1>1. \A h \in Handles : open_file_table'[h].of_inumber
                           \in {open_file_table[h].of_inumber, thread[t].inum}
  OBVIOUS
<1>2. CASE UNCHANGED thread
  BY <1>1, <1>2, NamesKept
<1>3. CASE Roams(t)
  <2>1. PICK new \in ThreadStates : Moves(t, new) /\ Learns(t, new.inum)
    BY <1>3 DEF Roams
  <2>2. new.inum \in takenInodes
    BY <2>1, LearnsTaken
  <2> QED
    BY <1>1, <2>1, <2>2, NamesKept
<1> QED
  BY <1>2, <1>3

\* A step under the lock of a file refers to no other file.
LEMMA NamesWork ==
    ASSUME TypeInv, NamesInv, NEW t \in Threads, UNCHANGED directory,
           Passes(t) \/ Works(t),
           \A h \in Handles : open_file_table'[h].of_inumber = open_file_table[h].of_inumber
    PROVE  NamesInv'
<1>1. PICK new : Moves(t, new) /\ new.inum \in {ROOT_DIR_INUM, thread[t].inum}
  BY DEF Passes, Works
<1>2. new.inum \in takenInodes
  BY <1>1 DEF NamesInv, TypeInv
<1> QED
  BY <1>1, <1>2, NamesKept

\* The entry that a thread fills refers to the thread's i-node.
LEMMA NamesFilled ==
    ASSUME TypeInv, NamesInv, NEW t \in Threads, FillsEntry(t)
    PROVE  NamesInv'
<1>1. Roams(t) /\ UNCHANGED directory
  BY FillsEntryNext DEF FillsEntry
<1>2. PICK new \in ThreadStates : Moves(t, new) /\ Learns(t, new.inum)
  BY <1>1 DEF Roams
<1>3. new.inum \in takenInodes
  BY <1>1, <1>2, LearnsTaken
<1>4. ASSUME NEW h \in Handles
      PROVE  open_file_table'[h].of_inumber \in {open_file_table[h].of_inumber, thread[t].inum}
  <2> DEFINE entry == [of_inumber |-> thread[t].inum, of_offset |-> thread[t].offset,
                       isAppending |-> thread[t].isAppending]
  <2>1. open_file_table' = [open_file_table EXCEPT ![thread[t].h] = entry]
    BY DEF FillsEntry
  <2>2. entry.of_inumber = thread[t].inum
    OBVIOUS
  <2> HIDE DEF entry
  <2> QED
    BY <2>1, <2>2 DEF TypeInv
<1> QED
  BY <1>1, <1>2, <1>3, <1>4, NamesKept

\* A creation: the name is new, and so is the i-node.
LEMMA NamesCreated ==
    ASSUME TypeInv, NamesInv, NEW t \in Threads, Creates(t)
    PROVE  NamesInv'
<1> DEFINE me == thread[t]
           i == find_in_dir(me.name)
           free == Inumbers \ takenInodes
           new == Lowest(free)
           entry == [d_name |-> me.name, d_inumber |-> new]
<1>0. Roams(t) /\ UNCHANGED <<table, locks>>
  BY CreatesNext DEF Creates
<1>1. CASE UNCHANGED directory
  BY <1>0, <1>1, NamesRoam DEF table
<1>2. CASE /\ i < 0 /\ free # {}
           /\ takenInodes' = takenInodes \cup {new}
           /\ dir_entry' = Append(dir_entry, entry)
           /\ thread' = [thread EXCEPT ![t].stage = "add", ![t].inum = new]
  <2> DEFINE k == Len(dir_entry) + 1
  <2>1. new \in Inumbers /\ new \notin takenInodes
    <3>1. free \in SUBSET Inumbers
      OBVIOUS
    <3> HIDE DEF free
    <3>2. Lowest(free) \in free
      BY <1>2, <3>1, FreeOnes
    <3> QED
      BY <3>1, <3>2 DEF free
  <2>2. \A e \in DOMAIN dir_entry : /\ dir_entry[e].d_name # me.name
                                    /\ dir_entry[e].d_inumber \in takenInodes
                                    /\ dir_entry[e].d_inumber # new
    BY <1>2, <2>1, Lookups DEF NamesInv, NamesUnique, FileInodes
  <2>3. new # ROOT_DIR_INUM
    BY <2>1 DEF TypeInv
  <2>4. \A u \in Threads \ {t} : thread'[u] = thread[u]
    BY <1>2 DEF TypeInv
  <2>5. thread'[t].inum = new
    BY <1>2 DEF TypeInv, ThreadStates, ThreadType
  <2>6. entry.d_name = me.name /\ entry.d_inumber = new
    OBVIOUS
  <2>7. dir_entry \in Seq(NameType) /\ entry \in NameType
    BY <2>1 DEF TypeInv, NameType, ThreadStates, StageOK, Opening, Creates
  <2> HIDE DEF entry, new, i, free
  <2>8. /\ DOMAIN dir_entry' = DOMAIN dir_entry \cup {k} /\ k \notin DOMAIN dir_entry
        /\ dir_entry'[k] = entry
        /\ \A e \in DOMAIN dir_entry : dir_entry'[e] = dir_entry[e]
    BY <1>2, <2>7
  <2> HIDE DEF k
  <2>9. \A d, e \in DOMAIN dir_entry' : d # e =>
          /\ dir_entry'[d].d_name # dir_entry'[e].d_name
          /\ dir_entry'[d].d_inumber # dir_entry'[e].d_inumber
    <3>1. \A d, e \in DOMAIN dir_entry : d # e =>
            /\ dir_entry[d].d_name # dir_entry[e].d_name
            /\ dir_entry[d].d_inumber # dir_entry[e].d_inumber
      BY DEF NamesInv, NamesUnique
    <3> QED
      BY <2>2, <2>6, <2>8, <3>1
  <2>10. takenInodes' \ {ROOT_DIR_INUM} = {dir_entry'[e].d_inumber : e \in DOMAIN dir_entry'}
    <3>1. takenInodes \ {ROOT_DIR_INUM} = {dir_entry[e].d_inumber : e \in DOMAIN dir_entry}
      BY DEF NamesInv, NamesUnique, FileInodes
    <3>2. {dir_entry'[e].d_inumber : e \in DOMAIN dir_entry'}
            = {dir_entry[e].d_inumber : e \in DOMAIN dir_entry} \cup {new}
      BY <2>6, <2>8
    <3> QED
      BY <1>2, <2>3, <3>1, <3>2
  <2>11. NamesUnique'
    BY <2>9, <2>10 DEF NamesUnique, FileInodes
  <2>12. open_file_table' = open_file_table
    BY <1>0 DEF table
  <2>13. takenInodes' = takenInodes \cup {new}
    BY <1>2
  <2>14. \A u \in Threads : thread'[u].inum \in takenInodes'
    <3>1. \A u \in Threads : thread[u].inum \in takenInodes
      BY DEF NamesInv
    <3> QED
      BY <2>4, <2>5, <2>13, <3>1
  <2>15. \A h \in Handles : open_file_table'[h].of_inumber \in takenInodes'
    BY <2>12, <2>13 DEF NamesInv
  <2> QED
    BY <2>11, <2>14, <2>15 DEF NamesInv
<1> QED
  BY <1>1, <1>2 DEF Creates

-----------------------------------------------------------------------------
(* Room for the block behind an indirect block *)

\* A write that is between its indirect block and the block behind it: the file
\* has its direct blocks, and may have one more.
Between == {"indirect", "release"}
RoomInv ==
    \A u \in Threads : thread[u].stage \in Between =>
      /\ inode_table[thread[u].inum].blocksAlloc = DIRECT_BLOCK_COUNT
      /\ DIRECT_BLOCK_COUNT + 1 \in 0 .. MAX_INODE_BLOCKS

\* A step of one thread leaves the files of the others' writes alone.
LEMMA RoomNext ==
    ASSUME RoomInv, NEW t \in Threads,
           \A u \in Threads \ {t} :
             /\ thread'[u] = thread[u]
             /\ thread[u].stage \in Between =>
                  inode_table'[thread[u].inum].blocksAlloc = inode_table[thread[u].inum].blocksAlloc,
           thread'[t].stage \in Between =>
             /\ inode_table'[thread'[t].inum].blocksAlloc = DIRECT_BLOCK_COUNT
             /\ DIRECT_BLOCK_COUNT + 1 \in 0 .. MAX_INODE_BLOCKS
    PROVE  RoomInv'
<1>1. ASSUME NEW u \in Threads, thread'[u].stage \in Between
      PROVE  /\ inode_table'[thread'[u].inum].blocksAlloc = DIRECT_BLOCK_COUNT
             /\ DIRECT_BLOCK_COUNT + 1 \in 0 .. MAX_INODE_BLOCKS
  <2>1. CASE u = t
    BY <1>1, <2>1
  <2>2. CASE u # t
    BY <1>1, <2>2 DEF RoomInv
  <2> QED
    BY <2>1, <2>2
<1> QED
  BY <1>1 DEF RoomInv, Between

\* Two threads do not hold the lock of one file for writing.
LEMMA OneWriter ==
    ASSUME LockInv, NEW t \in Threads, NEW u \in Threads, NEW i \in Inumbers,
           HoldsWrite(thread[t], i), HoldsWrite(thread[u], i)
    PROVE  u = t
BY DEF LockInv

\* A step that changes the i-node of the thread's own file only.
LEMMA RoomOwn ==
    ASSUME TypeInv, LockInv, RoomInv, NEW t \in Threads,
           \A u \in Threads \ {t} : thread'[u] = thread[u],
           \/ inode_table' = inode_table
           \/ /\ HoldsWrite(thread[t], thread[t].inum)
              /\ \A j \in Inumbers \ {thread[t].inum} : inode_table'[j] = inode_table[j],
           thread'[t].stage \in Between =>
             /\ inode_table'[thread'[t].inum].blocksAlloc = DIRECT_BLOCK_COUNT
             /\ DIRECT_BLOCK_COUNT + 1 \in 0 .. MAX_INODE_BLOCKS
    PROVE  RoomInv'
<1>1. ASSUME NEW u \in Threads \ {t}, thread[u].stage \in Between
      PROVE  inode_table'[thread[u].inum].blocksAlloc = inode_table[thread[u].inum].blocksAlloc
  <2>1. CASE inode_table' = inode_table
    BY <2>1
  <2>2. CASE /\ HoldsWrite(thread[t], thread[t].inum)
             /\ \A j \in Inumbers \ {thread[t].inum} : inode_table'[j] = inode_table[j]
    <3>1. thread[u].inum \in Inumbers
      BY DEF TypeInv, ThreadStates, ThreadType
    <3>2. HoldsWrite(thread[u], thread[u].inum)
      BY <1>1 DEF HoldsWrite, Between, Writing
    <3>3. thread[u].inum # thread[t].inum
      BY <2>2, <3>1, <3>2, OneWriter
    <3> QED
      BY <2>2, <3>1, <3>3
  <2> QED
    BY <2>1, <2>2
<1> QED
  BY <1>1, RoomNext

\* A thread that roams is in no write.
LEMMA RoomRoam ==
    ASSUME TypeInv, LockInv, RoomInv, NEW t \in Threads, UNCHANGED inode_table,
           Roams(t) \/ Passes(t) \/ UNCHANGED thread
    PROVE  RoomInv'
<1>1. CASE UNCHANGED thread
  BY <1>1 DEF RoomInv, Between
<1>2. CASE Roams(t) \/ Passes(t)
  <2>1. PICK new : Moves(t, new) /\ new.stage \notin Between
    BY <1>2 DEF Roams, Passes, Free, Between, Writing
  <2> QED
    BY <2>1, RoomOwn DEF Moves
<1> QED
  BY <1>1, <1>2

\* The i-node of a new file belongs to no thread.
LEMMA RoomCreated ==
    ASSUME TypeInv, NamesInv, RoomInv, NEW t \in Threads, Creates(t)
    PROVE  RoomInv'
<1> DEFINE free == Inumbers \ takenInodes
<1>1. PICK new : Moves(t, new) /\ Free(new)
  BY CreatesNext DEF Roams
<1>2. new.stage \notin Between
  BY <1>1 DEF Free, Between, Writing
<1>3. ASSUME NEW u \in Threads
      PROVE  inode_table'[thread[u].inum] = inode_table[thread[u].inum]
  <2>1. CASE UNCHANGED inode_table
    BY <2>1
  <2>2. CASE free # {} /\ inode_table' = [inode_table EXCEPT ![Lowest(free)] = NewInode]
    <3>1. free \in SUBSET Inumbers
      OBVIOUS
    <3> HIDE DEF free
    <3>2. Lowest(free) \in free
      BY <2>2, <3>1, FreeOnes
    <3>3. thread[u].inum \in takenInodes
      BY DEF NamesInv
    <3>4. thread[u].inum \in Inumbers /\ thread[u].inum # Lowest(free)
      BY <3>2, <3>3 DEF free, TypeInv
    <3> QED
      BY <2>2, <3>4 DEF TypeInv
  <2> QED
    BY <2>1, <2>2 DEF Creates
<1> QED
  BY <1>1, <1>2, <1>3, RoomNext DEF Moves

\* A write takes and gives back blocks.
LEMMA RoomWrites ==
    ASSUME TypeInv, LockInv, RoomInv, NEW t \in Threads,
           AllocsBlock(t) \/ AllocsIndirect(t) \/ ReleasesIndirect(t)
    PROVE  RoomInv'
<1> DEFINE i == thread[t].inum
           n == inode_table[i].blocksAlloc + 1
<1>1. thread[t].stage \in Writing /\ i \in Inumbers
  BY DEF AllocsBlock, AllocsIndirect, ReleasesIndirect, Writing, TypeInv, ThreadStates, ThreadType
<1>2. HoldsWrite(thread[t], i)
  BY <1>1 DEF HoldsWrite
<1>3. \A j \in Inumbers \ {i} : inode_table'[j] = inode_table[j]
  BY DEF AllocsBlock, AllocsIndirect, ReleasesIndirect, TypeInv
<1>4. \A u \in Threads \ {t} : thread'[u] = thread[u]
  BY DEF AllocsBlock, AllocsIndirect, ReleasesIndirect, Stays, TypeInv
<1>5. CASE AllocsBlock(t) /\ UNCHANGED thread
  <2>1. thread'[t].stage \notin Between
    BY <1>5 DEF AllocsBlock, Between
  <2> QED
    BY <1>2, <1>3, <1>4, <2>1, RoomOwn
<1>6. CASE /\ AllocsBlock(t)
           /\ n = DIRECT_BLOCK_COUNT + 1
           /\ inode_table' = [inode_table EXCEPT
                ![i].indirect_data_block = Lowest(Blocks \ takenBlocks)]
           /\ Stays(t, "indirect")
  <2>1. n \in 0 .. MAX_INODE_BLOCKS
    BY <1>1, <1>6, RoomForBlock DEF AllocsBlock
  <2>2. inode_table[i] \in InodeType /\ inode_table[i].blocksAlloc \in Nat
    BY <1>1 DEF TypeInv, InodeType
  <2>3. inode_table[i].blocksAlloc = DIRECT_BLOCK_COUNT
    <3>1. inode_table[i].blocksAlloc + 1 = DIRECT_BLOCK_COUNT + 1
      BY <1>6
    <3>2. DIRECT_BLOCK_COUNT \in Nat
      BY BlocksAssumption
    <3> QED
      BY <2>2, <3>1, <3>2
  <2>4. inode_table'[i].blocksAlloc = inode_table[i].blocksAlloc
    BY <1>1, <1>6, <2>2 DEF TypeInv, InodeType
  <2>5. thread'[t].inum = i
    BY <1>6 DEF Stays, TypeInv, ThreadStates, ThreadType
  <2> QED
    BY <1>2, <1>3, <1>4, <1>6, <2>1, <2>3, <2>4, <2>5, RoomOwn
<1>7. CASE AllocsIndirect(t) /\ Stays(t, "alloc")
  <2>1. thread'[t].stage \notin Between
    BY <1>7 DEF Stays, TypeInv, ThreadStates, ThreadType, Between
  <2> QED
    BY <1>2, <1>3, <1>4, <2>1, RoomOwn
<1>8. CASE AllocsIndirect(t) /\ Stays(t, "release") /\ UNCHANGED inode_table
  <2>1. thread'[t].inum = i
    BY <1>8 DEF Stays, TypeInv, ThreadStates, ThreadType
  <2>2. thread[t].stage \in Between
    BY <1>8 DEF AllocsIndirect, Between
  <2>3. /\ inode_table[i].blocksAlloc = DIRECT_BLOCK_COUNT
        /\ DIRECT_BLOCK_COUNT + 1 \in 0 .. MAX_INODE_BLOCKS
    BY <2>2 DEF RoomInv
  <2> QED
    BY <1>4, <1>8, <2>1, <2>3, RoomOwn
<1>9. CASE ReleasesIndirect(t)
  <2>1. thread'[t].stage \notin Between
    BY <1>9 DEF ReleasesIndirect, Stays, TypeInv, ThreadStates, ThreadType, Between
  <2> QED
    BY <1>2, <1>3, <1>4, <2>1, RoomOwn
<1> QED
  BY <1>5, <1>6, <1>7, <1>8, <1>9 DEF AllocsBlock, AllocsIndirect

\* A write or a truncation ends.
LEMMA RoomEnds ==
    ASSUME TypeInv, LockInv, RoomInv, NEW t \in Threads,
           Truncates(t) \/ Writes(t)
    PROVE  RoomInv'
<1> DEFINE i == thread[t].inum
<1>1. PICK new : Moves(t, new) /\ new.stage \notin Between
  BY TruncatesNext, WritesNext DEF Passes, Between
<1>2. HoldsWrite(thread[t], i)
  BY DEF Truncates, Writes, HoldsWrite, Writing
<1>3. \A j \in Inumbers \ {i} : inode_table'[j] = inode_table[j]
  BY DEF Truncates, Writes, TypeInv
<1> QED
  BY <1>1, <1>2, <1>3, RoomOwn DEF Moves

-----------------------------------------------------------------------------
(* The invariant *)

Inv == TypeInv /\ LockInv /\ NamesInv /\ RoomInv

\* tfs_init: no lock is held and there is no file.
LEMMA InvInit == Init => Inv
<1> SUFFICES ASSUME Init PROVE Inv
  OBVIOUS
<1>1. TypeInv
  BY TypesInit
<1>2. \A u \in Threads : thread[u] = Idle
  BY DEF Init
<1>3. \A u \in Threads : u # NoThread
  BY BlocksAssumption
<1>4. LockInv
  <2>1. \A i : /\ ~HoldsWrite(Idle, i) /\ ~HoldsRead(Idle, i) /\ ~HoldsEntry(Idle, i)
    BY DEF HoldsWrite, HoldsRead, HoldsEntry, Idle, Writing
  <2>2. \A i \in Inumbers : rwlock[i].writer = NoThread /\ rwlock[i].readers = {}
    BY DEF Init, NewLock
  <2>3. \A h \in Handles : file_entry_mutex[h] = NoThread
    BY DEF Init
  <2> QED
    BY <1>2, <1>3, <2>1, <2>2, <2>3 DEF LockInv
<1>5. NamesInv
  <2>1. takenInodes = {ROOT_DIR_INUM} /\ dir_entry = <<>>
    BY DEF Init
  <2>2. NamesUnique
    BY <2>1 DEF NamesUnique, FileInodes
  <2>3. \A u \in Threads : thread[u].inum = ROOT_DIR_INUM
    BY <1>2 DEF Idle
  <2>4. \A h \in Handles : open_file_table[h].of_inumber = ROOT_DIR_INUM
    BY DEF Init, NewEntry
  <2> QED
    BY <2>1, <2>2, <2>3, <2>4 DEF NamesInv
<1>6. RoomInv
  BY <1>2 DEF RoomInv, Between, Idle
<1> QED
  BY <1>1, <1>4, <1>5, <1>6 DEF Inv

\* tfs_destroy and tfs_init while no thread is in a call.
LEMMA InvRestart == Inv /\ Restart => Inv'
<1> SUFFICES ASSUME Inv, Restart PROVE Inv'
  OBVIOUS
<1>0. /\ TypeInv /\ LockInv
      /\ UNCHANGED <<fs_data, locks, thread>>
      /\ \A u \in Threads : thread[u].stage = "idle"
      /\ takenInodes' = {ROOT_DIR_INUM} /\ dir_entry' = <<>> /\ issued' = <<>>
      /\ takenBlocks' = {0} /\ takenHandles' = {}
      /\ inode_table' = [i \in Inumbers |-> NewInode]
      /\ open_file_table' = [h \in Handles |-> NewEntry]
  BY DEF Inv, Restart
<1>1. TypeInv'
  <2>1. inode_table' \in [Inumbers -> InodeType] /\ open_file_table' \in [Handles -> EntryType]
    BY <1>0, Zeros
  <2>2. takenInodes' \subseteq Inumbers /\ ROOT_DIR_INUM \in takenInodes'
        /\ takenBlocks' \subseteq Blocks /\ takenHandles' \subseteq Handles
    BY <1>0, Zeros
  <2>3. dir_entry' \in Seq(NameType) /\ DOMAIN issued' \subseteq Handles
        /\ \A h \in DOMAIN issued' : issued'[h] \in BOOLEAN
    BY <1>0
  <2> QED
    BY <1>0, <2>1, <2>2, <2>3, TypesNext DEF locks
<1>2. LockInv'
  BY <1>0 DEF locks, LockInv, HoldsWrite, HoldsRead, HoldsEntry
<1>3. NamesInv'
  <2>1. NamesUnique'
    BY <1>0 DEF NamesUnique, FileInodes
  <2>2. \A u \in Threads : thread'[u].inum = ROOT_DIR_INUM
    BY <1>0 DEF TypeInv, ThreadStates, StageOK
  <2>3. \A h \in Handles : open_file_table'[h].of_inumber = ROOT_DIR_INUM
    BY <1>0 DEF NewEntry
  <2> QED
    BY <1>0, <2>1, <2>2, <2>3 DEF NamesInv
<1>4. RoomInv'
  BY <1>0 DEF RoomInv, Between
<1> QED
  BY <1>1, <1>2, <1>3, <1>4 DEF Inv

\* A call begins.
LEMMA InvCalls ==
    ASSUME Inv, NEW t \in Threads, Calls(t)
    PROVE  Inv'
<1>0. TypeInv /\ LockInv /\ NamesInv /\ RoomInv
  BY DEF Inv
<1>1. ASSUME UNCHANGED <<inode_table, directory, open_file_table, locks>>, TypeInv',
             Roams(t) \/ UNCHANGED thread
      PROVE  Inv'
  <2>1. LockInv'
    BY <1>0, <1>1, LocksKept
  <2>2. NamesInv'
    BY <1>0, <1>1, NamesRoam
  <2>3. RoomInv'
    BY <1>0, <1>1, RoomRoam
  <2> QED
    BY <1>1, <2>1, <2>2, <2>3 DEF Inv
<1>2. ASSUME NEW n \in Names, NEW flags \in FlagSets, CallOpen(t, n, flags, "open") PROVE Inv'
  <2>1. flags \in SUBSET {"TFS_O_CREAT", "TFS_O_TRUNC", "TFS_O_APPEND"}
    BY BlocksAssumption
  <2>2. TypeInv' /\ (thread' = thread \/ Roams(t))
    BY <1>0, <1>2, <2>1, CallOpenNext
  <2>3. UNCHANGED <<inode_table, directory, open_file_table, locks>>
    BY <1>2 DEF CallOpen, store, table
  <2> QED
    BY <1>1, <2>2, <2>3
<1>3. ASSUME NEW n \in Sources, CallOpen(t, n, {"TFS_O_CREAT"}, "copy") PROVE Inv'
  <2>1. n \in Names
    BY BlocksAssumption
  <2>2. TypeInv' /\ (thread' = thread \/ Roams(t))
    BY <1>0, <1>3, <2>1, CallOpenNext
  <2>3. UNCHANGED <<inode_table, directory, open_file_table, locks>>
    BY <1>3 DEF CallOpen, store, table
  <2> QED
    BY <1>1, <2>2, <2>3
<1>4. ASSUME NEW h \in Handles, CallClose(t, h) PROVE Inv'
  <2>1. TypeInv' /\ thread' = thread
    BY <1>0, <1>4, ClosesNext
  <2>2. UNCHANGED <<inode_table, directory, open_file_table, locks>>
    BY <1>4 DEF CallClose, Close
  <2> QED
    BY <1>1, <2>1, <2>2
<1>5. ASSUME NEW h \in Handles, NEW buf \in Contents, CallWrite(t, h, buf) PROVE Inv'
  <2>1. TypeInv' /\ Roams(t)
    BY <1>0, <1>5, LookupsNext
  <2>2. UNCHANGED <<inode_table, directory, open_file_table, locks>>
    BY <1>5 DEF CallWrite, Finds, store, table
  <2> QED
    BY <1>1, <2>1, <2>2
<1>6. ASSUME NEW h \in Handles, NEW len \in Lengths, CallRead(t, h, len) PROVE Inv'
  <2>1. TypeInv' /\ Roams(t)
    BY <1>0, <1>6, LookupsNext
  <2>2. UNCHANGED <<inode_table, directory, open_file_table, locks>>
    BY <1>6 DEF CallRead, Finds, store, table
  <2> QED
    BY <1>1, <2>1, <2>2
<1> QED
  BY <1>2, <1>3, <1>4, <1>5, <1>6 DEF Calls

\* A step of a call that opens, truncates, closes or looks up a file.
LEMMA InvOpens ==
    ASSUME Inv, NEW t \in Threads,
           \/ Creates(t) \/ LocksToTruncate(t) \/ FreesBlock(t) \/ Truncates(t)
           \/ Positions(t) \/ TakesEntry(t) \/ FillsEntry(t) \/ CopyCloses(t)
           \/ CopyReads(t) \/ ChecksAppend(t)
    PROVE  Inv'
<1>0. TypeInv /\ LockInv /\ NamesInv /\ RoomInv
  BY DEF Inv
<1>1. CASE Creates(t)
  <2>1. TypeInv' /\ Roams(t) /\ UNCHANGED locks
    BY <1>0, <1>1, CreatesNext DEF Creates
  <2> QED
    BY <1>0, <1>1, <2>1, LocksKept, NamesCreated, RoomCreated DEF Inv
<1>2. CASE LocksToTruncate(t)
  <2>1. TypeInv' /\ LockInv' /\ Passes(t) /\ UNCHANGED <<inode_table, directory, open_file_table>>
    BY <1>0, <1>2, LocksToTruncateNext DEF LocksToTruncate, store, table
  <2> QED
    BY <1>0, <2>1, NamesWork, RoomRoam DEF Inv
<1>3. CASE FreesBlock(t)
  <2>1. TypeInv' /\ Works(t) /\ UNCHANGED <<inode_table, directory, open_file_table, locks>>
    BY <1>0, <1>3, FreesBlockNext DEF FreesBlock, table
  <2>2. LockInv'
    BY <1>0, <2>1, LocksKept
  <2>3. NamesInv'
    BY <1>0, <2>1, NamesWork
  <2>4. RoomInv'
    <3>1. PICK new : Moves(t, new) /\ new.stage \notin Between
      BY <1>3, <2>1 DEF Works, FreesBlock, Between, Writing
    <3> QED
      BY <1>0, <2>1, <3>1, RoomOwn DEF Moves
  <2> QED
    BY <2>1, <2>2, <2>3, <2>4 DEF Inv
<1>4. CASE Truncates(t)
  <2>1. TypeInv' /\ LockInv' /\ Passes(t) /\ UNCHANGED <<directory, open_file_table>>
    BY <1>0, <1>4, TruncatesNext DEF Truncates, table
  <2> QED
    BY <1>0, <1>4, <2>1, NamesWork, RoomEnds DEF Inv
<1>5. CASE FillsEntry(t)
  <2>1. TypeInv' /\ Roams(t) /\ UNCHANGED <<inode_table, locks>>
    BY <1>0, <1>5, FillsEntryNext DEF FillsEntry
  <2> QED
    BY <1>0, <1>5, <2>1, LocksKept, NamesFilled, RoomRoam DEF Inv
<1>6. CASE Positions(t) \/ TakesEntry(t) \/ CopyCloses(t) \/ CopyReads(t) \/ ChecksAppend(t)
  <2>1. TypeInv' /\ Roams(t)
    BY <1>0, <1>6, PositionsNext, TakesEntryNext, ClosesNext, LookupsNext, ChecksAppendNext
  <2>2. UNCHANGED <<inode_table, directory, open_file_table, locks>>
    BY <1>6 DEF Positions, TakesEntry, CopyCloses, Close, CopyReads, Finds, ChecksAppend,
                store, table
  <2> QED
    BY <1>0, <2>1, <2>2, LocksKept, NamesRoam, RoomRoam DEF Inv
<1> QED
  BY <1>1, <1>2, <1>3, <1>4, <1>5, <1>6

\* A step of a write or a read under the lock of the file.
LEMMA InvTransfers ==
    ASSUME Inv, NEW t \in Threads,
           \/ LocksToWrite(t) \/ LocksEntryToWrite(t) \/ AllocsBlock(t)
           \/ AllocsIndirect(t) \/ ReleasesIndirect(t) \/ Writes(t)
           \/ LocksToRead(t) \/ Reads(t)
    PROVE  Inv'
<1>0. TypeInv /\ LockInv /\ NamesInv /\ RoomInv
  BY DEF Inv
<1>1. CASE LocksToWrite(t) \/ LocksToRead(t)
  <2>1. TypeInv' /\ LockInv' /\ Passes(t) /\ UNCHANGED <<inode_table, directory, open_file_table>>
    BY <1>0, <1>1, LocksFileNext DEF LocksToWrite, LocksToRead, store, table
  <2> QED
    BY <1>0, <2>1, NamesWork, RoomRoam DEF Inv
<1>2. CASE LocksEntryToWrite(t) \/ Reads(t)
  <2>1. /\ TypeInv' /\ LockInv' /\ Passes(t) /\ UNCHANGED <<inode_table, directory>>
        /\ \A g \in Handles : open_file_table'[g].of_inumber = open_file_table[g].of_inumber
    BY <1>0, <1>2, LocksEntryToWriteNext, ReadsNext DEF LocksEntryToWrite, Reads
  <2> QED
    BY <1>0, <2>1, NamesWork, RoomRoam DEF Inv
<1>3. CASE Writes(t)
  <2>1. /\ TypeInv' /\ LockInv' /\ Passes(t) /\ UNCHANGED directory
        /\ \A g \in Handles : open_file_table'[g].of_inumber = open_file_table[g].of_inumber
    BY <1>0, <1>3, WritesNext DEF Writes
  <2> QED
    BY <1>0, <1>3, <2>1, NamesWork, RoomEnds DEF Inv
<1>4. CASE AllocsBlock(t) \/ AllocsIndirect(t) \/ ReleasesIndirect(t)
  <2>1. AllocsIndirect(t) => inode_table[thread[t].inum].blocksAlloc + 1 \in 0 .. MAX_INODE_BLOCKS
    BY <1>0 DEF AllocsIndirect, RoomInv, Between
  <2>2. TypeInv' /\ Works(t) /\ UNCHANGED <<directory, open_file_table, locks>>
    BY <1>0, <1>4, <2>1, AllocsBlockNext, AllocsIndirectNext, ReleasesIndirectNext
       DEF AllocsBlock, AllocsIndirect, ReleasesIndirect, table
  <2> QED
    BY <1>0, <1>4, <2>2, LocksKept, NamesWork, RoomWrites DEF Inv
<1> QED
  BY <1>1, <1>2, <1>3, <1>4

\* Every step, and none.
LEMMA InvNext == Inv /\ [Next]_vars => Inv'
<1> SUFFICES ASSUME Inv, [Next]_vars PROVE Inv'
  OBVIOUS
<1>1. CASE Restart
  BY <1>1, InvRestart
<1>2. ASSUME NEW t \in Threads, Calls(t) PROVE Inv'
  BY <1>2, InvCalls
<1>3. ASSUME NEW t \in Threads, Step(t) PROVE Inv'
  BY <1>3, InvOpens, InvTransfers DEF Step
<1>4. CASE UNCHANGED vars
  <2>1. UNCHANGED <<inode_table, takenInodes, dir_entry, fs_data, takenBlocks, open_file_table,
                    takenHandles, rwlock, file_entry_mutex, thread, issued>>
    BY <1>4 DEF vars, store, directory, disk, table, locks
  <2>2. TypeInv'
    BY <2>1, TypesNext DEF Inv
  <2>3. LockInv'
    BY <2>1 DEF Inv, LockInv, HoldsWrite, HoldsRead, HoldsEntry
  <2>4. NamesInv'
    BY <2>1 DEF Inv, NamesInv, NamesUnique, FileInodes
  <2>5. RoomInv'
    BY <2>1 DEF Inv, RoomInv, Between
  <2> QED
    BY <2>2, <2>3, <2>4, <2>5 DEF Inv
<1> QED
  BY <1>1, <1>2, <1>3, <1>4 DEF Next

\* The invariant holds in every state.
LEMMA Invariance == Spec => []Inv
BY InvInit, InvNext, PTL DEF Spec

-----------------------------------------------------------------------------
(* What follows *)

\* The locks are held as LocksHeld says.
LEMMA LocksImplied == Inv => LocksHeld
<1> SUFFICES ASSUME Inv PROVE LocksHeld
  OBVIOUS
<1>0. TypeInv /\ LockInv /\ NoThread \notin Threads
  BY BlocksAssumption DEF Inv
<1>1. ASSUME NEW i \in Inumbers
      PROVE  LET writers == {t \in At(Writing \cup {"entry"}, i) : thread[t].op = "write"}
                              \cup At({"delete"}, i)
             IN  /\ rwlock[i].readers = At({"entry"}, i) \ writers
                 /\ {rwlock[i].writer} \ {NoThread} = writers
                 /\ writers # {} => rwlock[i].readers = {}
  <2> DEFINE writers == {t \in At(Writing \cup {"entry"}, i) : thread[t].op = "write"}
                          \cup At({"delete"}, i)
             W == {t \in Threads : HoldsWrite(thread[t], i)}
             R == {t \in Threads : HoldsRead(thread[t], i)}
  <2>1. \A t \in Threads : thread[t].stage \in Writing => thread[t].op = "write"
    BY <1>0 DEF TypeInv, ThreadStates, StageOK
  <2>2. writers = W
    BY <2>1 DEF HoldsWrite, At
  <2>3. At({"entry"}, i) \ W = R
    BY DEF HoldsWrite, HoldsRead, At, Writing
  <2>4. rwlock[i].readers \subseteq Threads /\ rwlock[i].writer \in Threads \cup {NoThread}
    BY <1>0 DEF TypeInv, LockType
  <2>5. rwlock[i].readers = R
    BY <1>0, <2>4 DEF LockInv
  <2>6. {rwlock[i].writer} \ {NoThread} = W
    BY <1>0, <2>4 DEF LockInv
  <2>7. W # {} => rwlock[i].readers = {}
    BY <1>0, <2>6 DEF LockInv
  <2> QED
    BY <2>2, <2>3, <2>5, <2>6, <2>7
<1>2. ASSUME NEW h \in Handles
      PROVE  {file_entry_mutex[h]} \ {NoThread} =
               {t \in Threads : thread[t].stage \in Writing /\ thread[t].h = h}
  <2>1. file_entry_mutex[h] \in Threads \cup {NoThread}
    BY <1>0 DEF TypeInv
  <2>2. \A u \in Threads : file_entry_mutex[h] = u <=> (thread[u].stage \in Writing /\ thread[u].h = h)
    BY <1>0 DEF LockInv, HoldsEntry
  <2> QED
    BY <1>0, <2>1, <2>2
<1> QED
  BY <1>1, <1>2 DEF LocksHeld

\* Someone in a call can always go on: who holds the mutex of an entry waits for
\* nothing, who holds the lock of a file waits for such a mutex at most, and
\* where nobody holds anything nobody waits.
LEMMA ProgressImplied == Inv => Progress
<1> SUFFICES ASSUME Inv, NEW b \in Threads, thread[b].stage # "idle"
             PROVE  \E t \in Threads : thread[t].stage # "idle" /\ ~Waits(t)
  BY DEF Progress
<1>0. TypeInv /\ LockInv /\ NoThread \notin Threads
  BY BlocksAssumption DEF Inv
<1>1. CASE \E t \in Threads : thread[t].stage \in Writing \cup {"delete"}
  BY <1>1 DEF Waits, Writing
<1>2. CASE \A t \in Threads : thread[t].stage \notin Writing \cup {"delete"}
  <2>1. ASSUME NEW h \in Handles PROVE CanLockEntry(h)
    <3>1. file_entry_mutex[h] \in Threads \cup {NoThread}
      BY <1>0 DEF TypeInv
    <3>2. \A u \in Threads : file_entry_mutex[h] # u
      BY <1>0, <1>2 DEF LockInv, HoldsEntry
    <3> QED
      BY <3>1, <3>2 DEF CanLockEntry
  <2>2. \A t \in Threads : /\ thread[t].stage \in WithHandle => thread[t].h \in Handles
                           /\ thread[t].inum \in Inumbers
    BY <1>0 DEF TypeInv, ThreadStates, StageOK, ThreadType
  <2>3. CASE \E t \in Threads : thread[t].stage = "entry"
    BY <2>1, <2>2, <2>3 DEF Waits, WithHandle
  <2>4. CASE \A t \in Threads : thread[t].stage # "entry"
    <3>1. ASSUME NEW i \in Inumbers PROVE CanWriteLock(i) /\ CanReadLock(i)
      <4>1. rwlock[i] \in LockType
        BY <1>0 DEF TypeInv
      <4>2. \A u \in Threads : rwlock[i].writer # u /\ u \notin rwlock[i].readers
        BY <1>0, <1>2, <2>4 DEF LockInv, HoldsWrite, HoldsRead
      <4>3. rwlock[i].writer = NoThread /\ rwlock[i].readers = {}
        BY <4>1, <4>2 DEF LockType
      <4>4. rwlock[i] = [writer |-> NoThread, readers |-> {}]
        BY <4>1, <4>3 DEF LockType
      <4> QED
        BY <4>3, <4>4 DEF CanWriteLock, CanReadLock, NewLock
    <3> QED
      BY <2>1, <2>2, <2>4, <3>1 DEF Waits, WithHandle
  <2> QED
    BY <2>3, <2>4
<1> QED
  BY <1>1, <1>2

\* Every variable keeps its type: no size, number of blocks, offset or i-number
\* leaves its range, however threads interleave.
THEOREM TypeCorrect == Spec => []TypeOK
<1>1. Inv => TypeOK
  BY TypesImplied DEF Inv
<1> QED
  BY <1>1, Invariance, PTL

\* The locks of an i-node and of an open file entry are held by exactly the
\* threads that are between taking and releasing them.
THEOREM LocksCorrect == Spec => []LocksHeld
BY LocksImplied, Invariance, PTL

\* Threads in their calls never all wait for one another.
THEOREM DeadlockFree == Spec => []Progress
BY ProgressImplied, Invariance, PTL

\* The directory gives each name and each i-node in use exactly one entry.
THEOREM NamesCorrect == Spec => []NamesUnique
<1>1. Inv => NamesUnique
  BY DEF Inv, NamesInv
<1> QED
  BY <1>1, Invariance, PTL

=============================================================================
