------------------------------ MODULE TfsState ------------------------------
(***************************************************************************)
(* Parte2/tecnicofs_ex2/fs/state.c and the bodies of the calls of          *)
(* operations.c that run under single_global_lock (see TfsOperations):     *)
(* the i-node table, the root directory, the data blocks and the open file *)
(* table.  A call is one step.                                             *)
(*                                                                         *)
(* The three allocation maps are the sets of their TAKEN indices.  The     *)
(* entries of the root directory are kept apart from the bytes of fs_data, *)
(* in block 0 of which they lie.  A path is whether it starts with '/' and *)
(* the name after its first character.                                     *)
(***************************************************************************)
EXTENDS Integers, Sequences, FiniteSets

CONSTANTS
    INODE_TABLE_SIZE, DATA_BLOCKS, BLOCK_SIZE, MAX_OPEN_FILES, MAX_DIR_ENTRIES,
    SizeModulus,     \* 2^w, w the width of size_t
    Names,           \* names of files, without the one character before them
    NoName,          \* the empty name
    Clip,            \* the name add_dir_entry stores: MAX_FILE_NAME - 1 characters
    Paths,           \* the paths the callers pass
    Contents,        \* the buffers the callers write
    SharedTruncate,  \* may a file that is open be truncated by another open?
    ClosedHandles,   \* may a handle be used after it was closed?
    MaxOffset        \* bound: no read starts beyond this offset

ASSUME StateAssumption ==
    /\ INODE_TABLE_SIZE \in Nat \ {0}
    /\ DATA_BLOCKS \in Nat \ {0}
    /\ BLOCK_SIZE \in Nat \ {0}
    /\ MAX_OPEN_FILES \in Nat
    /\ MAX_DIR_ENTRIES \in Nat
    /\ SizeModulus \in Nat /\ SizeModulus > MaxOffset + BLOCK_SIZE + 1
    /\ NoName \notin Names
    /\ Clip \in [Names -> Names]
    /\ Paths \subseteq [absolute : BOOLEAN, name : Names \cup {NoName}]
    /\ \A c \in Contents : c \in Seq(Nat)
    /\ {SharedTruncate, ClosedHandles} \subseteq BOOLEAN
    /\ MaxOffset \in Nat /\ MaxOffset >= BLOCK_SIZE

VARIABLES
    inode_table,      \* i-nodes: i_node_type, i_size, i_data_block
    takenInodes,      \* freeinode_ts
    dir_entry,        \* entries of the root directory: d_name, d_inumber
    fs_data,          \* the bytes of all blocks
    takenBlocks,      \* free_blocks
    open_file_table,  \* of_inumber, of_offset
    takenHandles,     \* free_open_file_entries
    ret,              \* value and data that the last call returned
    crashed           \* a call ran out of the memory of the process

store == <<inode_table, takenInodes, dir_entry, fs_data, takenBlocks,
           open_file_table, takenHandles>>
vars == <<store, ret, crashed>>

Inumbers == 0 .. INODE_TABLE_SIZE - 1
Blocks   == 0 .. DATA_BLOCKS - 1
Handles  == 0 .. MAX_OPEN_FILES - 1
Entries  == 0 .. MAX_DIR_ENTRIES - 1
Addresses == 0 .. DATA_BLOCKS * BLOCK_SIZE - 1

ROOT_DIR_INUM == 0

Flags == SUBSET {"TFS_O_CREAT", "TFS_O_TRUNC", "TFS_O_APPEND"}

Lowest(S) == CHOOSE x \in S : \A y \in S : x <= y

\* The tables are searched from 0 on; -1 when there is none.
FirstFree(size, taken) ==
    LET free == (0 .. size - 1) \ taken
    IN  IF free = {} THEN -1 ELSE Lowest(free)

Reply(v) == ret' = [val |-> v, data |-> <<>>]

EmptyDirectory == [e \in Entries |-> [d_inumber |-> -1, d_name |-> NoName]]
RootInode == [i_node_type |-> "T_DIRECTORY", i_size |-> BLOCK_SIZE, i_data_block |-> 0]
FileInode == [i_node_type |-> "T_FILE", i_size |-> 0, i_data_block |-> -1]

\* tfs_init at the start of the process, with its static memory all zeros.
Init ==
    /\ inode_table = [i \in Inumbers |->
                        IF i = ROOT_DIR_INUM THEN RootInode
                        ELSE [FileInode EXCEPT !.i_data_block = 0]]
    /\ takenInodes = {ROOT_DIR_INUM}
    /\ dir_entry = EmptyDirectory
    /\ fs_data = [a \in Addresses |-> 0]
    /\ takenBlocks = {0}
    /\ open_file_table = [h \in Handles |-> [of_inumber |-> 0, of_offset |-> 0]]
    /\ takenHandles = {}
    /\ ret = [val |-> 0, data |-> <<>>]
    /\ crashed = FALSE

-----------------------------------------------------------------------------
(* Names and the directory. *)

valid_pathname(p) == p.absolute /\ p.name # NoName

\* Mutant: the search of the directory leaves its first entry out.
find_in_dir_from_1(n) ==
    LET found == {e \in Entries \ {0} : dir_entry[e].d_inumber # -1 /\ dir_entry[e].d_name = n}
    IN  IF found = {} THEN -1 ELSE dir_entry[Lowest(found)].d_inumber

find_in_dir(n) ==
    LET found == {e \in Entries : dir_entry[e].d_inumber # -1 /\ dir_entry[e].d_name = n}
    IN  IF found = {} THEN -1 ELSE dir_entry[Lowest(found)].d_inumber

lookup(p) == IF valid_pathname(p) THEN find_in_dir(p.name) ELSE -1

\* The entry add_dir_entry fills, -1 if it fails.
FreeEntry(n) ==
    IF n = NoName THEN -1
    ELSE FirstFree(MAX_DIR_ENTRIES, {e \in Entries : dir_entry[e].d_inumber # -1})

tfs_lookup(p) ==
    /\ Reply(lookup(p))
    /\ UNCHANGED store

-----------------------------------------------------------------------------
(* tfs_open and tfs_close. *)

add_to_open_file_table(inum, offset) ==
    LET h == FirstFree(MAX_OPEN_FILES, takenHandles)
    IN  /\ Reply(h)
        /\ IF h = -1 THEN UNCHANGED <<takenHandles, open_file_table>>
           ELSE /\ takenHandles' = takenHandles \cup {h}
                /\ open_file_table' = [open_file_table EXCEPT ![h] =
                                         [of_inumber |-> inum, of_offset |-> offset]]

\* Mutant: the block of a file that is emptied is not freed.
BlockKept(inode, size) == takenBlocks

\* Mutant: the block of a file that keeps its content is freed too.
BlockFreedAnyway(inode, size) ==
    IF size <= inode.i_size THEN takenBlocks \ {inode.i_data_block} ELSE takenBlocks

\* The block of a file that loses its content is freed.  data_block_free
\* cannot fail here: a file that is not empty has a block.
BlocksAfterTruncate(inode, size) ==
    IF size < inode.i_size THEN takenBlocks \ {inode.i_data_block} ELSE takenBlocks

OpenExisting(inum, flags) ==
    LET inode == inode_table[inum]
        size == IF "TFS_O_TRUNC" \in flags THEN 0 ELSE inode.i_size
    IN  /\ inode_table' = [inode_table EXCEPT ![inum].i_size = size]
        /\ takenBlocks' = BlocksAfterTruncate(inode, size)
        /\ add_to_open_file_table(inum, IF "TFS_O_APPEND" \in flags THEN size ELSE 0)
        /\ UNCHANGED <<takenInodes, dir_entry, fs_data>>

Creates(n, inum) ==
    LET e == FreeEntry(n)
    IN  /\ e # -1
        /\ inode_table' = [inode_table EXCEPT ![inum] = FileInode]
        /\ takenInodes' = takenInodes \cup {inum}
        /\ dir_entry' = [dir_entry EXCEPT ![e] = [d_inumber |-> inum, d_name |-> Clip[n]]]
        /\ add_to_open_file_table(inum, 0)
        /\ UNCHANGED <<fs_data, takenBlocks>>

\* Mutant: the i-node is not given back.
CreationKept(n, inum) ==
    /\ FreeEntry(n) = -1
    /\ inode_table' = [inode_table EXCEPT ![inum] = FileInode]
    /\ takenInodes' = takenInodes \cup {inum}
    /\ Reply(-1)
    /\ UNCHANGED <<dir_entry, fs_data, takenBlocks, open_file_table, takenHandles>>

\* inode_create took the i-node, the directory has no place, inode_delete
\* gives the i-node back.
CreationUndone(n, inum) ==
    /\ FreeEntry(n) = -1
    /\ inode_table' = [inode_table EXCEPT ![inum] = FileInode]
    /\ Reply(-1)
    /\ UNCHANGED <<takenInodes, dir_entry, fs_data, takenBlocks, open_file_table, takenHandles>>

OpenNew(n) ==
    LET inum == FirstFree(INODE_TABLE_SIZE, takenInodes)
    IN  \/ inum = -1 /\ Reply(-1) /\ UNCHANGED store
        \/ inum # -1 /\ Creates(n, inum)
        \/ inum # -1 /\ CreationUndone(n, inum)

IsOpen(inum) == \E h \in takenHandles : open_file_table[h].of_inumber = inum

tfs_open(p, flags) ==
    LET inum == lookup(p)
    IN  /\ SharedTruncate \/ "TFS_O_TRUNC" \notin flags \/ ~IsOpen(inum)
        /\ \/ inum # -1 /\ OpenExisting(inum, flags)
           \/ inum = -1 /\ "TFS_O_CREAT" \in flags /\ OpenNew(p.name)
           \/ inum = -1 /\ "TFS_O_CREAT" \notin flags /\ Reply(-1) /\ UNCHANGED store

\* remove_from_open_file_table; the entry itself keeps what it held.
tfs_close(h) ==
    /\ IF h \in takenHandles THEN Reply(0) ELSE Reply(-1)
    /\ takenHandles' = takenHandles \ {h}
    /\ UNCHANGED <<inode_table, takenInodes, dir_entry, fs_data, takenBlocks, open_file_table>>

-----------------------------------------------------------------------------
(* tfs_write and tfs_read, on a handle that is open, or was. *)

\* get_open_file_entry asks only that the handle is in range, not that the entry
\* is TAKEN.  Left out here are the handles whose entry was never filled, and
\* those from before a tfs_init whose i-node is FREE: they lead to the root or to
\* an i-node without a name.
Usable(h) ==
    \/ h \in takenHandles
    \/ ClosedHandles /\ open_file_table[h].of_inumber \in takenInodes \ {ROOT_DIR_INUM}

\* Mutant: a write may go beyond the end of the block.
LengthUnclipped(file, data) == Len(data)

\* How many bytes are written, in the arithmetic of size_t.
WriteLength(file, data) ==
    IF Len(data) + file.of_offset > BLOCK_SIZE
    THEN (BLOCK_SIZE - file.of_offset) % SizeModulus
    ELSE Len(data)

\* Mutant: every write goes to the start of the block.
CopiedToStart(block, offset, data, n) ==
    LET first == block * BLOCK_SIZE
    IN  [a \in Addresses |-> IF a \in first .. first + n - 1 THEN data[a - first + 1]
                             ELSE fs_data[a]]

Copied(block, offset, data, n) ==
    LET first == block * BLOCK_SIZE + offset
    IN  [a \in Addresses |-> IF a \in first .. first + n - 1 THEN data[a - first + 1]
                             ELSE fs_data[a]]

\* Mutant: a file grows only by its first write.
SizeOfFirstWrite(size, end) == IF size = 0 THEN end ELSE size

SizeAfterWrite(size, end) == IF end > size THEN end ELSE size

WriteBytes(h, block, data, n) ==
    LET file == open_file_table[h]
        end == file.of_offset + n
    IN  /\ fs_data' = Copied(block, file.of_offset, data, n)
        /\ takenBlocks' = takenBlocks \cup {block}
        /\ inode_table' = [inode_table EXCEPT
             ![file.of_inumber].i_data_block = block,
             ![file.of_inumber].i_size = SizeAfterWrite(@, end)]
        /\ open_file_table' = [open_file_table EXCEPT ![h].of_offset = end]
        /\ Reply(n)
        /\ UNCHANGED <<takenInodes, dir_entry, takenHandles>>

\* data_block_alloc failed: its -1 is what the i-node now holds.
WriteFails(inum) ==
    /\ inode_table' = [inode_table EXCEPT ![inum].i_data_block = -1]
    /\ Reply(-1)
    /\ UNCHANGED <<takenInodes, dir_entry, fs_data, takenBlocks, open_file_table, takenHandles>>

tfs_write(h, data) ==
    LET file == open_file_table[h]
        inode == inode_table[file.of_inumber]
        n == WriteLength(file, data)
        block == IF inode.i_size = 0 THEN FirstFree(DATA_BLOCKS, takenBlocks)
                 ELSE inode.i_data_block
    IN  /\ Usable(h)
        /\ \/ n = 0 /\ Reply(0) /\ UNCHANGED <<store, crashed>>
           \/ n > 0 /\ block = -1 /\ WriteFails(file.of_inumber) /\ UNCHANGED crashed
           \/ n \in 1 .. BLOCK_SIZE /\ block # -1 /\ WriteBytes(h, block, data, n) /\ UNCHANGED crashed
           \/ n > BLOCK_SIZE /\ block # -1 /\ crashed' = TRUE /\ UNCHANGED <<store, ret>>

\* How many bytes are read: the subtraction is of two size_t.
ReadLength(file, len) ==
    LET left == (inode_table[file.of_inumber].i_size - file.of_offset) % SizeModulus
    IN  IF left > len THEN len ELSE left

\* What memcpy finds: past the last block, memory that is not the file system's.
Memory(a) == IF a \in Addresses THEN fs_data[a] ELSE 0

tfs_read(h, len) ==
    LET file == open_file_table[h]
        block == inode_table[file.of_inumber].i_data_block
        n == ReadLength(file, len)
        first == block * BLOCK_SIZE + file.of_offset
    IN  /\ Usable(h)
        /\ file.of_offset <= MaxOffset
        /\ \/ n = 0 /\ Reply(0) /\ UNCHANGED store
           \/ n > 0 /\ block = -1 /\ Reply(-1) /\ UNCHANGED store
           \/ /\ n > 0 /\ block # -1
              /\ ret' = [val |-> n, data |-> [i \in 1 .. n |-> Memory(first + i - 1)]]
              /\ open_file_table' = [open_file_table EXCEPT ![h].of_offset = @ + n]
              /\ UNCHANGED <<inode_table, takenInodes, dir_entry, fs_data, takenBlocks, takenHandles>>

\* tfs_destroy and tfs_init again: the maps are cleared, the tables are not.
tfs_init ==
    /\ inode_table' = [inode_table EXCEPT ![ROOT_DIR_INUM] = RootInode]
    /\ takenInodes' = {ROOT_DIR_INUM}
    /\ dir_entry' = EmptyDirectory
    /\ takenBlocks' = {0}
    /\ takenHandles' = {}
    /\ Reply(0)
    /\ UNCHANGED <<fs_data, open_file_table>>

-----------------------------------------------------------------------------
Next ==
    /\ ~crashed
    /\ \/ /\ \/ \E p \in Paths : tfs_lookup(p)
             \/ \E p \in Paths, flags \in Flags : tfs_open(p, flags)
             \/ \E h \in Handles \cup {-1} : tfs_close(h)
             \/ \E h \in Handles, len \in 0 .. BLOCK_SIZE + 1 : tfs_read(h, len)
             \/ tfs_init
          /\ UNCHANGED crashed
       \/ \E h \in Handles, data \in Contents : tfs_write(h, data)

Spec == Init /\ [][Next]_vars

-----------------------------------------------------------------------------
Files == takenInodes \ {ROOT_DIR_INUM}
UsedEntries == {e \in Entries : dir_entry[e].d_inumber # -1}
NonEmpty == {i \in Files : inode_table[i].i_size > 0}

TypeOK ==
    /\ inode_table \in [Inumbers -> [i_node_type : {"T_FILE", "T_DIRECTORY"},
                                     i_size : 0 .. BLOCK_SIZE,
                                     i_data_block : Blocks \cup {-1}]]
    /\ ROOT_DIR_INUM \in takenInodes /\ takenInodes \subseteq Inumbers
    /\ dir_entry \in [Entries -> [d_inumber : Inumbers \cup {-1}, d_name : Names \cup {NoName}]]
    /\ fs_data \in [Addresses -> Nat]
    /\ takenBlocks \subseteq Blocks
    /\ open_file_table \in [Handles -> [of_inumber : Inumbers, of_offset : Nat]]
    /\ takenHandles \subseteq Handles
    /\ crashed \in BOOLEAN

\* No data block is lost and none is shared: the blocks marked TAKEN are those
\* of the root directory and of the files that are not empty, one each, after
\* every sequence of writes, truncations, failed writes and failed opens, through
\* open handles and closed ones (state.c:254-281 and 329-339, operations.c:83-90
\* and 171-190).
BlocksAccounted ==
    /\ takenBlocks = {0} \cup {inode_table[i].i_data_block : i \in NonEmpty}
    /\ \A i \in NonEmpty : inode_table[i].i_data_block # 0
    /\ \A i, j \in NonEmpty :
         inode_table[i].i_data_block = inode_table[j].i_data_block => i = j

\* The directory and the i-node map tell the same: each file's i-node has
\* exactly one entry, and no entry leads to an i-node that is FREE, also when
\* the creation fails half way (operations.c:99-113, state.c:142-160).
DirectoryConsistent ==
    /\ {dir_entry[e].d_inumber : e \in UsedEntries} = Files
    /\ \A d, e \in UsedEntries : dir_entry[d].d_inumber = dir_entry[e].d_inumber => d = e

\* A name is in the directory at most once (operations.c:75-109).
NamesUnique ==
    \A d, e \in UsedEntries : dir_entry[d].d_name = dir_entry[e].d_name => d = e

\* No open handle stands beyond the end of its file, on which the unsigned
\* subtractions of tfs_write and tfs_read rest (operations.c:169 and 218).
HandlesWithinFiles ==
    \A h \in takenHandles :
      LET file == open_file_table[h]
      IN  file.of_inumber \in Files /\ file.of_offset <= inode_table[file.of_inumber].i_size

\* The bytes of a file.
ContentOf(inum) ==
    LET inode == inode_table[inum]
    IN  [k \in 1 .. inode.i_size |-> fs_data[inode.i_data_block * BLOCK_SIZE + k - 1]]

\* The bytes of file i that a write through h may change: from where the handle
\* stands, or from the end of the file if that is before, to where it leaves h.
Writes(h, i) ==
    LET file == open_file_table[h]
        end == open_file_table'[h].of_offset
    IN  {k \in 1 .. end : /\ file.of_inumber = i /\ end # file.of_offset
                          /\ k > file.of_offset \/ k > inode_table[i].i_size}

KeepsBytes(i) ==
    \/ ContentOf(i)' = ContentOf(i)
    \/ inode_table'[i].i_size = 0
    \/ /\ inode_table'[i].i_size >= inode_table[i].i_size
       /\ \A k \in 1 .. inode_table'[i].i_size :
            \/ k <= inode_table[i].i_size /\ ContentOf(i)'[k] = ContentOf(i)[k]
            \/ \E h \in Handles : k \in Writes(h, i)

\* A byte of a file is lost only when the file is truncated, and changes only when
\* a write through a handle that leads to this file passes over it: whatever is
\* done through handles that were closed or that stand beyond the end of their
\* file, and while blocks that truncations freed are taken by other files
\* (operations.c:83-90 and 167-190, state.c:254-281 and 329-339).
BytesKept == [][\A i \in Files \cap Files' : KeepsBytes(i)]_<<inode_table, fs_data>>

\* The i-nodes, blocks and tables implement FileService: what is read is what
\* was last written there, through whichever handle, and nothing a call does
\* to one file is seen in another.
NameOf(inum) ==
    dir_entry[CHOOSE e \in UsedEntries : dir_entry[e].d_inumber = inum].d_name

\* The files by their names, and the open handles.
FileNames == {dir_entry[e].d_name : e \in UsedEntries}
FileMap == [n \in FileNames |-> ContentOf(find_in_dir(n))]
OpenMap == [h \in takenHandles |->
              [name |-> NameOf(open_file_table[h].of_inumber),
               offset |-> open_file_table[h].of_offset]]

Service == INSTANCE FileService WITH
    MaxSize <- BLOCK_SIZE, files <- FileMap, open <- OpenMap

ImplementsService == Service!Spec

=============================================================================
