----------------------------- MODULE BlockFiles -----------------------------
(***************************************************************************)
(* Parte1/tecnicofs-v2/fs: the file system of Parte 1, called by several   *)
(* threads at once.  Each i-node has a read-write lock and each entry of   *)
(* the open file table a mutex; both may be held over several steps, and   *)
(* a write takes its blocks, and a truncation frees them, one at a time.   *)
(* newFileMutex, addFileEntryMutex and allocBlock are held by one step     *)
(* only, and so are not variables.                                         *)
(*                                                                         *)
(* The allocation maps are the sets of their TAKEN indices.  A cell of     *)
(* fs_data is a byte, or, in an indirect block, a block number.  The       *)
(* directory only grows; its entries are kept apart from block 0, where    *)
(* they lie.  Names are valid and shorter than MAX_FILE_NAME.              *)
(***************************************************************************)
EXTENDS Integers, Sequences, FiniteSets

CONSTANTS
    Threads, NoThread,
    INODE_TABLE_SIZE, DATA_BLOCKS, BLOCK_SIZE, MAX_OPEN_FILES, MAX_DIR_ENTRIES,
    DIRECT_BLOCK_COUNT, MAX_INODE_BLOCKS,
    SizeModulus,   \* 2^w, w the width of size_t
    Names, NoName,
    Sources,       \* the names that callers copy to a file outside
    FlagSets,      \* the flags callers pass to tfs_open
    Contents,      \* the buffers they write
    Lengths,       \* the lengths they read
    BUFFER_SIZE,   \* the length a copy reads
    HandleReuse    \* may a handle be used by one thread and closed by another?

ASSUME BlocksAssumption ==
    /\ NoThread \notin Threads
    /\ INODE_TABLE_SIZE \in Nat \ {0}
    /\ DATA_BLOCKS \in Nat \ {0}
    /\ BLOCK_SIZE \in Nat \ {0}
    /\ MAX_OPEN_FILES \in Nat
    /\ MAX_DIR_ENTRIES \in Nat
    /\ DIRECT_BLOCK_COUNT \in Nat
    /\ MAX_INODE_BLOCKS \in DIRECT_BLOCK_COUNT .. DIRECT_BLOCK_COUNT + BLOCK_SIZE
    /\ SizeModulus \in Nat
    /\ SizeModulus > BLOCK_SIZE * MAX_INODE_BLOCKS
    /\ NoName \notin Names
    /\ Sources \subseteq Names
    /\ FlagSets \subseteq SUBSET {"TFS_O_CREAT", "TFS_O_TRUNC", "TFS_O_APPEND"}
    /\ \A c \in Contents : c \in Seq(Nat)
    /\ Lengths \subseteq Nat
    /\ BUFFER_SIZE \in Nat \ {0}
    /\ HandleReuse \in BOOLEAN

VARIABLES
    inode_table,       \* i-nodes of files: size and blocks
    takenInodes,       \* freeinode_ts
    dir_entry,         \* the entries of the root directory that are in use
    fs_data,           \* the cells of all blocks
    takenBlocks,       \* free_blocks
    open_file_table,   \* of_inumber, of_offset, isAppending
    takenHandles,      \* free_open_file_entries
    rwlock,            \* who holds the lock of each i-node
    file_entry_mutex,  \* who holds the mutex of each open file entry
    thread,            \* how far each thread is in its call
    issued,            \* handles that callers hold, and whether to append
    ret                \* value and data that the last call returned

directory == <<takenInodes, dir_entry>>
disk == <<fs_data, takenBlocks>>
table == <<open_file_table, takenHandles>>
store == <<inode_table, directory, disk, table>>
locks == <<rwlock, file_entry_mutex>>
vars == <<store, locks, thread, issued, ret>>

Inumbers == 0 .. INODE_TABLE_SIZE - 1
Blocks   == 0 .. DATA_BLOCKS - 1
Handles  == 0 .. MAX_OPEN_FILES - 1
ROOT_DIR_INUM == 0
NoHandle == -1
MAX_FILE_SIZE == BLOCK_SIZE * MAX_INODE_BLOCKS

NewInode == [i_size |-> 0, blocksAlloc |-> 0, i_data_block |-> <<>>,
             indirect_data_block |-> 0]
NewEntry == [of_inumber |-> ROOT_DIR_INUM, of_offset |-> 0, isAppending |-> FALSE]
NewLock  == [writer |-> NoThread, readers |-> {}]
Idle == [stage |-> "idle", op |-> "none", name |-> NoName, flags |-> {},
         h |-> NoHandle, inum |-> ROOT_DIR_INUM, offset |-> 0, isAppending |-> FALSE,
         buf |-> <<>>, len |-> 0, freed |-> 0]

Init ==
    /\ inode_table = [i \in Inumbers |-> NewInode]
    /\ takenInodes = {ROOT_DIR_INUM}
    /\ dir_entry = <<>>
    /\ fs_data = [b \in Blocks |-> [c \in 1 .. BLOCK_SIZE |-> 0]]
    /\ takenBlocks = {0}
    /\ open_file_table = [h \in Handles |-> NewEntry]
    /\ takenHandles = {}
    /\ rwlock = [i \in Inumbers |-> NewLock]
    /\ file_entry_mutex = [h \in Handles |-> NoThread]
    /\ thread = [t \in Threads |-> Idle]
    /\ issued = <<>>
    /\ ret = [call |-> "tfs_init", val |-> 0, data |-> <<>>]

-----------------------------------------------------------------------------
(* Helpers *)

Lowest(S) == CHOOSE i \in S : \A j \in S : i <= j
Least(a, b) == IF a < b THEN a ELSE b
Greatest(a, b) == IF a > b THEN a ELSE b

Returns(call, v) == ret' = [call |-> call, val |-> v, data |-> <<>>]

Stays(t, stage) == thread' = [thread EXCEPT ![t].stage = stage]
Ends(t) == thread' = [thread EXCEPT ![t] = Idle]

find_in_dir(n) ==
    LET found == {e \in DOMAIN dir_entry : dir_entry[e].d_name = n}
    IN  IF found = {} THEN -1 ELSE dir_entry[Lowest(found)].d_inumber

divCeil(i1, i2) == (i1 + i2 - 1) \div i2
divCeilRW(i1, i2) == (i1 \div i2) + 1

\* The number of the nth block of an i-node, counting from 1.
getNthDataBlock(node, n) ==
    IF n <= DIRECT_BLOCK_COUNT THEN node.i_data_block[n]
    ELSE fs_data[node.indirect_data_block][n - DIRECT_BLOCK_COUNT]

\* The cell of fs_data where byte p of a file lies; byte 0 is the first.
CellOf(node, p) == <<getNthDataBlock(node, divCeilRW(p, BLOCK_SIZE)),
                     (p % BLOCK_SIZE) + 1>>

\* The blocks of an i-node in the order deleteInodeDataBlocks frees them.
FreeOrder(node) ==
    LET indirect == node.blocksAlloc - DIRECT_BLOCK_COUNT
    IN  (IF indirect <= 0 THEN <<>>
         ELSE SubSeq(fs_data[node.indirect_data_block], 1, indirect)
                \o <<node.indirect_data_block>>)
        \o node.i_data_block

\* data_block_alloc takes the first free block, under allocBlock, and clears
\* nothing.  What its last owner left in it shows only where a write leaves a gap
\* before it; nothing depends on these values, and they are taken for 0.
Alloc(b) == takenBlocks' = takenBlocks \cup {b}
Zeroed(b) == [fs_data EXCEPT ![b] = [c \in 1 .. BLOCK_SIZE |-> 0]]

\* Mutant: readers do not wait for a writer.
CanReadLock_always(i) == i \in Inumbers

CanWriteLock(i) == rwlock[i] = NewLock
CanReadLock(i) == rwlock[i].writer = NoThread
CanLockEntry(h) == file_entry_mutex[h] = NoThread

WriteLock(t, i) == rwlock' = [rwlock EXCEPT ![i].writer = t]
ReadLock(t, i) == rwlock' = [rwlock EXCEPT ![i].readers = @ \cup {t}]
Unlock(t, i) ==
    LET lock == rwlock[i]
    IN  rwlock' = [rwlock EXCEPT ![i] =
                     IF lock.writer = t THEN [lock EXCEPT !.writer = NoThread]
                     ELSE [lock EXCEPT !.readers = lock.readers \ {t}]]

-----------------------------------------------------------------------------
(* tfs_open, of a caller or of a copy *)

\* What is left of open_existing_file once the file is emptied, or need not be.
Emptied(me) ==
    [me EXCEPT !.stage = IF "TFS_O_APPEND" \in me.flags THEN "append" ELSE "add"]

\* The file was found: what a thread does next.
Found(me, i) ==
    LET found == [me EXCEPT !.inum = i]
    IN  IF "TFS_O_TRUNC" \in me.flags THEN [found EXCEPT !.stage = "truncate"]
        ELSE Emptied(found)

\* A call of tfs_open, or of tfs_copy_to_external_fs, and its first lookup.
CallOpen(t, n, flags, op) ==
    LET i == find_in_dir(n)
        me == [Idle EXCEPT !.op = op, !.name = n, !.flags = flags]
    IN  /\ thread[t] = Idle
        /\ op = "copy" => i >= 0
        /\ \/ i >= 0 /\ thread' = [thread EXCEPT ![t] = Found(me, i)] /\ UNCHANGED ret
           \/ /\ i < 0 /\ "TFS_O_CREAT" \in flags
              /\ thread' = [thread EXCEPT ![t] = [me EXCEPT !.stage = "create"]]
              /\ UNCHANGED ret
           \/ /\ i < 0 /\ "TFS_O_CREAT" \notin flags
              /\ Returns("tfs_open", -1) /\ UNCHANGED thread
        /\ UNCHANGED <<store, locks, issued>>

\* Mutant: the name is not looked up again under newFileMutex.
Creates_blindly(t) ==
    LET free == Inumbers \ takenInodes
        new == Lowest(free)
    IN  /\ thread[t].stage = "create"
        /\ free # {} /\ Len(dir_entry) < MAX_DIR_ENTRIES
        /\ takenInodes' = takenInodes \cup {new}
        /\ inode_table' = [inode_table EXCEPT ![new] = NewInode]
        /\ dir_entry' = Append(dir_entry,
                          [d_name |-> thread[t].name, d_inumber |-> new])
        /\ thread' = [thread EXCEPT ![t].stage = "add", ![t].inum = new]
        /\ UNCHANGED <<disk, table, locks, issued, ret>>

\* What is done under newFileMutex.  An i-node that gets no entry in the
\* directory is deleted again.
Creates(t) ==
    LET i == find_in_dir(thread[t].name)
        free == Inumbers \ takenInodes
        new == Lowest(free)
    IN  /\ thread[t].stage = "create"
        /\ \/ /\ i >= 0
              /\ thread' = [thread EXCEPT ![t] = Found(@, i)]
              /\ UNCHANGED <<inode_table, directory, ret>>
           \/ /\ i < 0 /\ (free = {} \/ Len(dir_entry) = MAX_DIR_ENTRIES)
              /\ Ends(t) /\ Returns("tfs_open", -1)
              /\ UNCHANGED <<inode_table, directory>>
           \/ /\ i < 0 /\ free # {} /\ Len(dir_entry) < MAX_DIR_ENTRIES
              /\ takenInodes' = takenInodes \cup {new}
              /\ inode_table' = [inode_table EXCEPT ![new] = NewInode]
              /\ dir_entry' = Append(dir_entry,
                                [d_name |-> thread[t].name, d_inumber |-> new])
              /\ thread' = [thread EXCEPT ![t].stage = "add", ![t].inum = new]
              /\ UNCHANGED ret
        /\ UNCHANGED <<disk, table, locks, issued>>

\* Mutants: an empty file stays locked; a file is emptied without its lock.
LocksToTruncate_keeping(t) ==
    LET i == thread[t].inum
    IN  /\ thread[t].stage = "truncate"
        /\ CanWriteLock(i) /\ WriteLock(t, i)
        /\ thread' = [thread EXCEPT ![t] =
             IF inode_table[i].i_size > 0 THEN [@ EXCEPT !.stage = "delete"]
             ELSE Emptied(@)]
        /\ UNCHANGED <<store, file_entry_mutex, issued, ret>>

LocksToTruncate_not(t) ==
    /\ thread[t].stage = "truncate"
    /\ thread' = [thread EXCEPT ![t] =
         IF inode_table[@.inum].i_size > 0 THEN [@ EXCEPT !.stage = "delete"]
         ELSE Emptied(@)]
    /\ UNCHANGED <<store, locks, issued, ret>>

\* open_existing_file with TFS_O_TRUNC: an empty file has nothing to delete.
LocksToTruncate(t) ==
    LET i == thread[t].inum
    IN  /\ thread[t].stage = "truncate"
        /\ CanWriteLock(i)
        /\ \/ /\ inode_table[i].i_size > 0
              /\ WriteLock(t, i) /\ Stays(t, "delete")
           \/ /\ inode_table[i].i_size = 0
              /\ thread' = [thread EXCEPT ![t] = Emptied(@)]
              /\ UNCHANGED rwlock
        /\ UNCHANGED <<store, file_entry_mutex, issued, ret>>

\* deleteInodeDataBlocks, a block at a time.
FreesBlock(t) ==
    LET order == FreeOrder(inode_table[thread[t].inum])
        k == thread[t].freed + 1
    IN  /\ thread[t].stage = "delete"
        /\ k <= Len(order)
        /\ takenBlocks' = takenBlocks \ {order[k]}
        /\ thread' = [thread EXCEPT ![t].freed = k]
        /\ UNCHANGED <<inode_table, directory, fs_data, table, locks, issued,
                       ret>>

\* Mutant: the indirect block is not counted among the blocks to free.
Truncates_early(t) ==
    LET i == thread[t].inum
    IN  /\ thread[t].stage = "delete"
        /\ thread[t].freed = inode_table[i].blocksAlloc
        /\ inode_table' = [inode_table EXCEPT ![i] = NewInode]
        /\ Unlock(t, i)
        /\ thread' = [thread EXCEPT ![t] = Emptied([@ EXCEPT !.freed = 0])]
        /\ UNCHANGED <<directory, disk, table, file_entry_mutex, issued, ret>>

Truncates(t) ==
    LET i == thread[t].inum
    IN  /\ thread[t].stage = "delete"
        /\ thread[t].freed = Len(FreeOrder(inode_table[i]))
        /\ inode_table' = [inode_table EXCEPT ![i] = NewInode]
        /\ Unlock(t, i)
        /\ thread' = [thread EXCEPT ![t] = Emptied([@ EXCEPT !.freed = 0])]
        /\ UNCHANGED <<directory, disk, table, file_entry_mutex, issued, ret>>

\* The size is read without the lock.
Positions(t) ==
    /\ thread[t].stage = "append"
    /\ thread' = [thread EXCEPT ![t].stage = "add", ![t].isAppending = TRUE,
                    ![t].offset = inode_table[thread[t].inum].i_size]
    /\ UNCHANGED <<store, locks, issued, ret>>

\* Mutant: the search goes one entry too far.
FreeEntries_offbyone == (0 .. MAX_OPEN_FILES) \ takenHandles

FreeEntries == Handles \ takenHandles

\* add_to_open_file_table: the entry is taken under addFileEntryMutex ...
TakesEntry(t) ==
    LET free == FreeEntries
    IN  /\ thread[t].stage = "add"
        /\ \/ /\ free # {}
              /\ takenHandles' = takenHandles \cup {Lowest(free)}
              /\ thread' = [thread EXCEPT ![t].stage = "fill",
                                          ![t].h = Lowest(free)]
              /\ UNCHANGED ret
           \/ /\ free = {}
              /\ Ends(t) /\ Returns("tfs_open", -1) /\ UNCHANGED takenHandles
        /\ UNCHANGED <<inode_table, directory, disk, open_file_table, locks,
                       issued>>

\* ... and filled under its own mutex.  A copy reads from it until it has all
\* the file, or cannot open the other file and closes it.
FillsEntry(t) ==
    LET me == thread[t]
        h == me.h
    IN  /\ me.stage = "fill"
        /\ CanLockEntry(h)
        /\ open_file_table' = [open_file_table EXCEPT ![h] =
             [of_inumber |-> me.inum, of_offset |-> me.offset,
              isAppending |-> me.isAppending]]
        /\ Returns("tfs_open", h)
        /\ \/ /\ me.op = "open" /\ Ends(t)
              /\ issued' = [g \in DOMAIN issued \cup {h} |->
                   IF g = h THEN "TFS_O_APPEND" \in me.flags ELSE issued[g]]
           \/ /\ me.op = "copy"
              /\ \E stage \in {"find", "close"} :
                   thread' = [thread EXCEPT ![t] =
                     [Idle EXCEPT !.stage = stage, !.op = "copy", !.h = h,
                                  !.len = IF stage = "find" THEN BUFFER_SIZE ELSE 0]]
              /\ UNCHANGED issued
        /\ UNCHANGED <<inode_table, directory, disk, takenHandles, locks>>

-----------------------------------------------------------------------------
(* tfs_close *)

\* The handles a caller knows.  Without HandleReuse it uses one until it
\* closes it, and no thread closes one that another thread is using.
MayUse(h) ==
    IF HandleReuse THEN open_file_table[h].of_inumber # ROOT_DIR_INUM
    ELSE h \in DOMAIN issued

MayClose(h) ==
    /\ MayUse(h)
    /\ HandleReuse \/ \A u \in Threads : thread[u].h # h

\* remove_from_open_file_table, in one step.
Close(h) ==
    /\ CanLockEntry(h)
    /\ takenHandles' = takenHandles \ {h}
    /\ Returns("tfs_close", IF h \in takenHandles THEN 0 ELSE -1)
    /\ UNCHANGED <<inode_table, directory, disk, open_file_table, locks>>

CallClose(t, h) ==
    /\ thread[t] = Idle
    /\ MayClose(h)
    /\ Close(h)
    /\ issued' = [g \in DOMAIN issued \ {h} |-> issued[g]]
    /\ UNCHANGED thread

CopyCloses(t) ==
    /\ thread[t].stage = "close"
    /\ Close(thread[t].h)
    /\ Ends(t)
    /\ UNCHANGED issued

-----------------------------------------------------------------------------
(* tfs_write and tfs_read *)

\* Mutant: the mutex of the entry is not released when it is TAKEN.
Finds_keeping(t, me) ==
    /\ CanLockEntry(me.h)
    /\ \/ /\ me.h \in takenHandles
          /\ thread' = [thread EXCEPT ![t] =
               [me EXCEPT !.inum = open_file_table[me.h].of_inumber,
                          !.stage = IF me.op = "write" THEN "lock" ELSE "check"]]
          /\ file_entry_mutex' = [file_entry_mutex EXCEPT ![me.h] = t]
          /\ UNCHANGED ret
       \/ /\ me.h \notin takenHandles
          /\ Returns(IF me.op = "write" THEN "tfs_write" ELSE "tfs_read", -1)
          /\ Ends(t) /\ UNCHANGED file_entry_mutex
    /\ UNCHANGED <<store, rwlock, issued>>

\* get_open_file_entry asks under the mutex of the entry whether it is TAKEN;
\* of_inumber is read when the mutex is free again.  me is the thread so far.  A
\* copy that may not read forgets its handle.
Finds(t, me) ==
    LET inum == open_file_table[me.h].of_inumber
    IN  /\ CanLockEntry(me.h)
        /\ \/ /\ me.h \in takenHandles
              /\ thread' = [thread EXCEPT ![t] = [me EXCEPT !.inum = inum,
                   !.stage = IF me.op = "write" THEN "lock" ELSE "check"]]
              /\ UNCHANGED ret
           \/ /\ me.h \notin takenHandles
              /\ Returns(IF me.op = "write" THEN "tfs_write" ELSE "tfs_read", -1)
              /\ Ends(t)
        /\ UNCHANGED <<store, locks, issued>>

CallWrite(t, h, buf) ==
    /\ thread[t] = Idle /\ MayUse(h)
    /\ Finds(t, [Idle EXCEPT !.op = "write", !.h = h, !.buf = buf])

CallRead(t, h, len) ==
    /\ thread[t] = Idle /\ MayUse(h)
    /\ Finds(t, [Idle EXCEPT !.op = "read", !.h = h, !.len = len])

CopyReads(t) == thread[t].stage = "find" /\ Finds(t, thread[t])

LocksToWrite(t) ==
    /\ thread[t].stage = "lock" /\ thread[t].op = "write"
    /\ CanWriteLock(thread[t].inum)
    /\ WriteLock(t, thread[t].inum)
    /\ Stays(t, "entry")
    /\ UNCHANGED <<store, file_entry_mutex, issued, ret>>

\* The size the file needs for the bytes that fit.
SizeNeeded(off, buf) == Least(off + Len(buf), MAX_FILE_SIZE)

\* Mutant: a handle that appends starts where it stands.
WriteStart_opened(me) == open_file_table[me.h].of_offset

\* Where the write starts: the end of the file is where it is now.
WriteStart(me) ==
    IF open_file_table[me.h].isAppending THEN inode_table[me.inum].i_size
    ELSE open_file_table[me.h].of_offset

LocksEntryToWrite(t) ==
    LET me == thread[t]
        off == WriteStart(me)
    IN  /\ me.stage = "entry" /\ me.op = "write"
        /\ CanLockEntry(me.h)
        /\ open_file_table' = [open_file_table EXCEPT ![me.h].of_offset = off]
        /\ \/ /\ SizeNeeded(off, me.buf) > off
              /\ file_entry_mutex' = [file_entry_mutex EXCEPT ![me.h] = t]
              /\ Stays(t, "alloc")
              /\ UNCHANGED <<rwlock, ret>>
           \/ /\ SizeNeeded(off, me.buf) = off
              /\ Unlock(t, me.inum) /\ UNCHANGED file_entry_mutex
              /\ Ends(t) /\ Returns("tfs_write", 0)
        /\ UNCHANGED <<inode_table, directory, disk, takenHandles, issued>>

NeedsBlock(me) ==
    inode_table[me.inum].blocksAlloc
      < divCeil(SizeNeeded(open_file_table[me.h].of_offset, me.buf), BLOCK_SIZE)

\* allocNecessaryBlocks and allocNthDataBlock: the next block, until there are
\* enough or the disk is full.  The first block after the direct ones is to be
\* the indirect block, and a second one is taken for the data.
AllocsBlock(t) ==
    LET me == thread[t]
        node == inode_table[me.inum]
        b == Lowest(Blocks \ takenBlocks)
        n == node.blocksAlloc + 1
    IN  /\ me.stage = "alloc"
        /\ NeedsBlock(me)
        /\ takenBlocks # Blocks
        /\ Alloc(b)
        /\ \/ /\ n <= DIRECT_BLOCK_COUNT
              /\ inode_table' = [inode_table EXCEPT
                   ![me.inum].i_data_block = Append(@, b),
                   ![me.inum].blocksAlloc = n]
              /\ fs_data' = Zeroed(b)
              /\ UNCHANGED thread
           \/ /\ n = DIRECT_BLOCK_COUNT + 1
              /\ inode_table' = [inode_table EXCEPT
                   ![me.inum].indirect_data_block = b]
              /\ fs_data' = Zeroed(b)
              /\ Stays(t, "indirect")
           \/ /\ n > DIRECT_BLOCK_COUNT + 1
              /\ fs_data' = [Zeroed(b) EXCEPT
                   ![node.indirect_data_block][n - DIRECT_BLOCK_COUNT] = b]
              /\ inode_table' = [inode_table EXCEPT ![me.inum].blocksAlloc = n]
              /\ UNCHANGED thread
        /\ UNCHANGED <<directory, table, locks, issued, ret>>

AllocsIndirect(t) ==
    LET me == thread[t]
        node == inode_table[me.inum]
        free == Blocks \ takenBlocks
        b == Lowest(free)
    IN  /\ me.stage = "indirect"
        /\ \/ /\ free # {}
              /\ Alloc(b)
              /\ fs_data' = [Zeroed(b) EXCEPT ![node.indirect_data_block][1] = b]
              /\ inode_table' = [inode_table EXCEPT ![me.inum].blocksAlloc = @ + 1]
              /\ Stays(t, "alloc")
           \/ /\ free = {}
              /\ Stays(t, "release")
              /\ UNCHANGED <<inode_table, disk>>
        /\ UNCHANGED <<directory, table, locks, issued, ret>>

\* Mutant: the indirect block is forgotten.
ReleasesIndirect_not(t) ==
    /\ thread[t].stage = "release"
    /\ Stays(t, "store")
    /\ UNCHANGED <<store, locks, issued, ret>>

\* No block was left for the data: the indirect block is given back.
ReleasesIndirect(t) ==
    LET i == thread[t].inum
    IN  /\ thread[t].stage = "release"
        /\ takenBlocks' = takenBlocks \ {inode_table[i].indirect_data_block}
        /\ inode_table' = [inode_table EXCEPT ![i].indirect_data_block = 0]
        /\ Stays(t, "store")
        /\ UNCHANGED <<directory, fs_data, table, locks, issued, ret>>

\* What the blocks have room for is copied.  The handle ends after it, and so
\* does the file unless it was longer; even if nothing was copied.
Writes(t) ==
    LET me == thread[t]
        node == inode_table[me.inum]
        off == open_file_table[me.h].of_offset
        m == Greatest(0, Least(SizeNeeded(off, me.buf), node.blocksAlloc * BLOCK_SIZE)
                           - off)
        At(b, c) == {p \in off .. off + m - 1 : CellOf(node, p) = <<b, c>>}
    IN  /\ \/ me.stage = "store"
           \/ me.stage = "alloc" /\ (~NeedsBlock(me) \/ takenBlocks = Blocks)
        /\ fs_data' = [b \in Blocks |-> [c \in 1 .. BLOCK_SIZE |->
                         IF At(b, c) = {} THEN fs_data[b][c]
                         ELSE me.buf[(CHOOSE p \in At(b, c) : TRUE) - off + 1]]]
        /\ open_file_table' = [open_file_table EXCEPT ![me.h].of_offset = off + m]
        /\ inode_table' = [inode_table EXCEPT ![me.inum].i_size =
                             Greatest(@, off + m)]
        /\ Unlock(t, me.inum)
        /\ file_entry_mutex' = [file_entry_mutex EXCEPT ![me.h] = NoThread]
        /\ Ends(t)
        /\ Returns("tfs_write", m)
        /\ UNCHANGED <<directory, takenBlocks, takenHandles, issued>>

\* Mutant: a copy does not close its handle.
AfterRead_forgets(t, v) ==
    LET me == thread[t]
    IN  IF me.op = "read" \/ v <= 0 THEN Ends(t)
        ELSE thread' = [thread EXCEPT ![t] =
               [Idle EXCEPT !.op = "copy", !.h = me.h, !.stage = "find",
                            !.len = BUFFER_SIZE]]

\* After a read a copy goes on, is done at the end of the file, and returns at
\* once, its handle still open, when the read failed.
AfterRead(t, v) ==
    LET me == thread[t]
    IN  IF me.op = "read" \/ v < 0 THEN Ends(t)
        ELSE thread' = [thread EXCEPT ![t] =
               [Idle EXCEPT !.op = "copy", !.h = me.h,
                  !.stage = IF v > 0 THEN "find" ELSE "close",
                  !.len = IF v > 0 THEN BUFFER_SIZE ELSE 0]]

\* Nothing is read through a handle that appends.
ChecksAppend(t) ==
    LET appends == open_file_table[thread[t].h].isAppending
    IN  /\ thread[t].stage = "check"
        /\ \/ appends /\ AfterRead(t, 0) /\ Returns("tfs_read", 0)
           \/ ~appends /\ Stays(t, "lock") /\ UNCHANGED ret
        /\ UNCHANGED <<store, locks, issued>>

LocksToRead(t) ==
    /\ thread[t].stage = "lock" /\ thread[t].op # "write"
    /\ CanReadLock(thread[t].inum)
    /\ ReadLock(t, thread[t].inum)
    /\ Stays(t, "entry")
    /\ UNCHANGED <<store, file_entry_mutex, issued, ret>>

\* What is done under the mutex of the entry.  If the handle is past the end
\* of the file, the difference wraps; a block the file does not have is an error.
Reads(t) ==
    LET me == thread[t]
        node == inode_table[me.inum]
        off == open_file_table[me.h].of_offset
        n == Least((node.i_size - off) % SizeModulus, me.len)
        allocated == off + n <= node.blocksAlloc * BLOCK_SIZE
        byte(p) == LET c == CellOf(node, p) IN fs_data[c[1]][c[2]]
    IN  /\ me.stage = "entry" /\ me.op # "write"
        /\ CanLockEntry(me.h)
        /\ \/ /\ n = 0 \/ allocated
              /\ open_file_table' = [open_file_table EXCEPT ![me.h].of_offset = off + n]
              /\ ret' = [call |-> "tfs_read", val |-> n,
                         data |-> [k \in 1 .. n |-> byte(off + k - 1)]]
              /\ AfterRead(t, n)
           \/ /\ n > 0 /\ ~allocated
              /\ Returns("tfs_read", -1)
              /\ AfterRead(t, -1)
              /\ UNCHANGED open_file_table
        /\ Unlock(t, me.inum)
        /\ UNCHANGED <<inode_table, directory, disk, takenHandles,
                       file_entry_mutex, issued>>

-----------------------------------------------------------------------------
\* tfs_destroy and tfs_init, between the calls.  The blocks keep their bytes.
Restart ==
    /\ \A t \in Threads : thread[t].stage = "idle"
    /\ inode_table' = [i \in Inumbers |-> NewInode]
    /\ takenInodes' = {ROOT_DIR_INUM}
    /\ dir_entry' = <<>>
    /\ takenBlocks' = {0}
    /\ open_file_table' = [h \in Handles |-> NewEntry]
    /\ takenHandles' = {}
    /\ issued' = <<>>
    /\ Returns("tfs_init", 0)
    /\ UNCHANGED <<fs_data, locks, thread>>

Calls(t) ==
    \/ \E n \in Names, flags \in FlagSets : CallOpen(t, n, flags, "open")
    \/ \E n \in Sources : CallOpen(t, n, {"TFS_O_CREAT"}, "copy")
    \/ \E h \in Handles : \/ CallClose(t, h)
                          \/ \E buf \in Contents : CallWrite(t, h, buf)
                          \/ \E len \in Lengths : CallRead(t, h, len)

Step(t) ==
    \/ Creates(t) \/ LocksToTruncate(t) \/ FreesBlock(t) \/ Truncates(t)
    \/ Positions(t) \/ TakesEntry(t) \/ FillsEntry(t) \/ CopyCloses(t)
    \/ CopyReads(t) \/ LocksToWrite(t) \/ LocksEntryToWrite(t) \/ AllocsBlock(t)
    \/ AllocsIndirect(t) \/ ReleasesIndirect(t) \/ Writes(t)
    \/ ChecksAppend(t) \/ LocksToRead(t) \/ Reads(t)

Next == Restart \/ \E t \in Threads : Calls(t) \/ Step(t)

Spec == Init /\ [][Next]_vars

-----------------------------------------------------------------------------
(* Properties *)

Stages == {"idle", "create", "truncate", "delete", "append", "add", "fill",
           "find", "check", "lock", "entry", "alloc", "indirect", "release", "store",
           "close"}

TypeOK ==
    /\ inode_table \in [Inumbers -> [i_size : 0 .. MAX_FILE_SIZE,
                                     blocksAlloc : 0 .. MAX_INODE_BLOCKS,
                                     i_data_block : Seq(Blocks),
                                     indirect_data_block : Blocks]]
    /\ takenInodes \subseteq Inumbers /\ ROOT_DIR_INUM \in takenInodes
    /\ dir_entry \in Seq([d_name : Names, d_inumber : Inumbers])
    /\ DOMAIN fs_data = Blocks
    /\ \A b \in Blocks : fs_data[b] \in [1 .. BLOCK_SIZE -> Nat]
    /\ takenBlocks \subseteq Blocks
    /\ open_file_table \in [Handles -> [of_inumber : Inumbers,
                                        of_offset : 0 .. MAX_FILE_SIZE,
                                        isAppending : BOOLEAN]]
    /\ takenHandles \subseteq Handles
    /\ rwlock \in [Inumbers -> [writer : Threads \cup {NoThread},
                                readers : SUBSET Threads]]
    /\ file_entry_mutex \in [Handles -> Threads \cup {NoThread}]
    /\ DOMAIN thread = Threads
    /\ \A t \in Threads :
         /\ thread[t].stage \in Stages
         /\ thread[t].inum \in Inumbers
         /\ thread[t].h \in Handles \cup {NoHandle}
    /\ DOMAIN issued \subseteq Handles
    /\ \A h \in DOMAIN issued : issued[h] \in BOOLEAN

\* The files: every i-node but the root.
FileInodes == takenInodes \ {ROOT_DIR_INUM}

At(stages, i) == {t \in Threads : thread[t].stage \in stages /\ thread[t].inum = i}

\* The blocks an i-node still has: those a truncation has not reached yet,
\* and an indirect block that a write has taken ahead of its first data block.
BlocksOf(i) ==
    LET order == FreeOrder(inode_table[i])
        deleting == At({"delete"}, i)
        freed == IF deleting = {} THEN 0
                 ELSE thread[CHOOSE t \in deleting : TRUE].freed
    IN  SubSeq(order, freed + 1, Len(order))
          \o IF At({"indirect", "release"}, i) = {} THEN <<>>
             ELSE <<inode_table[i].indirect_data_block>>

\* Every taken block but that of the root directory belongs to one place of
\* one file, and no block of a file is free, whatever step a write, a
\* truncation or a copy is at: blocks are taken and freed one at a time, the
\* numbers of some of them lie in a block that is itself freed, and free_blocks
\* is written by data_block_free without allocBlock.
BlocksAccounted ==
    LET Places == {p \in FileInodes \X (1 .. MAX_INODE_BLOCKS + 2) :
                     p[2] \in DOMAIN BlocksOf(p[1])}
        Block(p) == BlocksOf(p[1])[p[2]]
    IN  /\ takenBlocks = {0} \cup {Block(p) : p \in Places}
        /\ \A p \in Places : Block(p) # 0
        /\ \A p, q \in Places : p # q => Block(p) # Block(q)

\* The directory gives each name and each i-node one entry, and every i-node
\* in use has one: threads that create the same name at the same time make one
\* file, and a creation that fails leaves no i-node behind.
NamesUnique ==
    /\ \A d, e \in DOMAIN dir_entry : d # e =>
         /\ dir_entry[d].d_name # dir_entry[e].d_name
         /\ dir_entry[d].d_inumber # dir_entry[e].d_inumber
    /\ FileInodes = {dir_entry[e].d_inumber : e \in DOMAIN dir_entry}

Writing == {"alloc", "indirect", "release", "store"}

\* A lock is held by the thread that is between taking and releasing it, and
\* by no other: no error path, and no path that finds nothing to do, keeps one.
LocksHeld ==
    /\ \A i \in Inumbers :
         LET writers == {t \in At(Writing \cup {"entry"}, i) : thread[t].op = "write"}
                          \cup At({"delete"}, i)
         IN  /\ rwlock[i].readers = At({"entry"}, i) \ writers
             /\ {rwlock[i].writer} \ {NoThread} = writers
             /\ writers # {} => rwlock[i].readers = {}
    /\ \A h \in Handles :
         {file_entry_mutex[h]} \ {NoThread} =
           {t \in Threads : thread[t].stage \in Writing /\ thread[t].h = h}

\* The lock a thread waits for is not free.
Waits(t) ==
    LET me == thread[t]
    IN  \/ me.stage \in {"fill", "find", "close", "entry"} /\ ~CanLockEntry(me.h)
        \/ me.stage = "truncate" /\ ~CanWriteLock(me.inum)
        \/ me.stage = "lock" /\ me.op = "write" /\ ~CanWriteLock(me.inum)
        \/ me.stage = "lock" /\ me.op # "write" /\ ~CanReadLock(me.inum)

\* Threads in their calls never all wait for one another: the i-node's lock is
\* taken before the mutex of the entry, and nothing is waited for under that.
Progress ==
    LET busy == {t \in Threads : thread[t].stage # "idle"}
    IN  busy # {} => \E t \in busy : ~Waits(t)

OpenEntries == {h \in takenHandles :
                  \A t \in Threads : thread[t].stage = "fill" => thread[t].h # h}

\* The content of a file.  A size beyond the blocks is left by a write that
\* started past the end and found the disk full.
NoByte == -1
Content(i) ==
    LET node == inode_table[i]
    IN  IF At({"delete"}, i) # {} THEN <<>>
        ELSE [k \in 1 .. node.i_size |->
                IF k > node.blocksAlloc * BLOCK_SIZE THEN NoByte
                ELSE LET c == CellOf(node, k - 1) IN fs_data[c[1]][c[2]]]

NameOf(i) ==
    dir_entry[CHOOSE e \in DOMAIN dir_entry : dir_entry[e].d_inumber = i].d_name

Streams == INSTANCE FileStreams WITH
    MaxSize <- MAX_FILE_SIZE,
    files <- [n \in {dir_entry[e].d_name : e \in DOMAIN dir_entry} |->
                Content(find_in_dir(n))],
    open <- [h \in OpenEntries |->
               LET entry == open_file_table[h]
               IN  [name |-> NameOf(entry.of_inumber), appends |-> entry.isAppending,
                    offset |-> IF entry.isAppending THEN 0 ELSE entry.of_offset]]

\* Threads that use files and handles as their owners may see each write, read,
\* truncation and creation happen at one instant.
ImplementsStreams == Streams!Spec

\* Handles that no caller knows and no thread is using.
LostHandles ==
    takenHandles \ (DOMAIN issued \cup
                     {thread[t].h : t \in {u \in Threads : thread[u].op \in {"open", "copy"}}})

\* Only a copy whose read fails loses a handle; every other way out of a call
\* that opened a file closes it or returns it.
OnlyFailedCopyLoses ==
    [][\A h \in LostHandles' \ LostHandles : \E t \in Threads :
         /\ thread[t].op = "copy" /\ thread[t].stage = "entry" /\ thread[t].h = h
         /\ ret'.call = "tfs_read" /\ ret'.val = -1]_vars

\* The bytes of a file, and how many they are, change only in a step of the
\* thread that takes or holds its i-node's lock for writing, even when handles
\* are closed and opened again under the threads that use them.
FilesApart ==
    [][\A i \in FileInodes \cap takenInodes' :
         \/ DOMAIN Content(i)' = DOMAIN Content(i)
            /\ \A k \in DOMAIN Content(i) :
                 Content(i)[k] # NoByte => Content(i)'[k] = Content(i)[k]
         \/ \E t \in Threads : /\ t \in {rwlock[i].writer, rwlock'[i].writer}
                               /\ thread'[t] # thread[t]]_vars

\* The step ends a write that changes a byte its file had.
Overwrites(t) ==
    \E i \in {thread[t].inum} :
      /\ thread[t].stage \in Writing /\ thread'[t] = Idle
      /\ \E k \in DOMAIN Content(i) :
           Content(i)[k] # NoByte /\ Content(i)'[k] # Content(i)[k]

\* A write through a handle that appends leaves every byte of the file as it
\* was, wherever the handle stood and whoever else has written since.
AppendsExtend ==
    [][\A t \in Threads :
         Overwrites(t) => ~open_file_table[thread[t].h].isAppending]_vars

\* operations.h:49 "append mode (TFS_O_APPEND)": the same of every handle that
\* was opened with TFS_O_APPEND, the one of a file that this open created too
\* (operations.c:62 and 108).
AppendModeExtends ==
    [][\A t \in Threads :
         thread[t].h \in {h \in DOMAIN issued : issued[h]} => ~Overwrites(t)]_vars

-----------------------------------------------------------------------------
\* What the steps and properties depend on.  The bytes of a free block are not
\* looked at before it is taken; an entry that is not open, before it is filled,
\* unless a thread may use a handle that was closed.
view == <<inode_table, takenInodes, dir_entry, [b \in takenBlocks |-> fs_data[b]],
          [h \in IF HandleReuse THEN Handles ELSE OpenEntries |-> open_file_table[h]],
          takenHandles, locks, thread, issued>>

=============================================================================
