---------------------------- MODULE TfsState_proofs ----------------------------
(***************************************************************************)
(* Proofs about TfsState, for tables, blocks and names of any number and   *)
(* size.                                                                   *)
(***************************************************************************)
EXTENDS TfsState, WellFoundedInduction, SequenceTheorems, TLAPS

\* A non-empty set of natural numbers has a smallest one.
LEMMA LowestWorks ==
    ASSUME NEW D, D \subseteq Nat, D # {}
    PROVE  Lowest(D) \in D
<1> DEFINE R == OpToRel(<, Nat)
<1>1. R = {ss \in Nat \X Nat : ss[1] < ss[2]}
  BY DEF OpToRel
<1>2. \E x \in D : \A y \in D : ~(<<y, x>> \in R)
  <2>1. IsWellFoundedOn(R, Nat)
    BY NatLessThanWellFounded
  <2> HIDE DEF R
  <2> QED
    BY <2>1, WFMin
<1> HIDE DEF R
<1>3. PICK x \in D : \A y \in D : ~(y < x)
  BY <1>1, <1>2
<1>4. \A y \in D : x <= y
  BY <1>3
<1> QED
  BY <1>4 DEF Lowest

\* What the search of an allocation map returns is -1 or free.
LEMMA FirstFreeWorks ==
    ASSUME NEW size \in Nat, NEW occupied
    PROVE  FirstFree(size, occupied) = -1 \/ FirstFree(size, occupied) \in (0 .. size - 1) \ occupied
<1> DEFINE free == (0 .. size - 1) \ occupied
<1>1. CASE free = {}
  BY <1>1 DEF FirstFree
<1>2. CASE free # {}
  <2>1. free \subseteq Nat
    OBVIOUS
  <2>2. Lowest(free) \in free
    BY <1>2, <2>1, LowestWorks
  <2> QED
    BY <1>2, <2>2 DEF FirstFree
<1> QED
  BY <1>1, <1>2

\* A name found in the directory leads to the i-number of an entry in use.
LEMMA LookupFinds ==
    ASSUME NEW p
    PROVE  lookup(p) = -1 \/ \E e \in UsedEntries :
             valid_pathname(p) /\ dir_entry[e].d_name = p.name /\ dir_entry[e].d_inumber = lookup(p)
<1> DEFINE found == {e \in Entries : dir_entry[e].d_inumber # -1 /\ dir_entry[e].d_name = p.name}
<1>1. CASE valid_pathname(p) /\ found # {}
  <2>1. found \subseteq Nat
    BY DEF Entries
  <2>2. Lowest(found) \in found
    BY <1>1, <2>1, LowestWorks
  <2> QED
    BY <1>1, <2>2 DEF lookup, find_in_dir, UsedEntries
<1>2. CASE ~(valid_pathname(p) /\ found # {})
  BY <1>2 DEF lookup, find_in_dir
<1> QED
  BY <1>1, <1>2

\* The new entry of a directory was not in use.
LEMMA FreeEntryWorks ==
    ASSUME NEW n, FreeEntry(n) # -1
    PROVE  FreeEntry(n) \in Entries \ UsedEntries /\ n # NoName
BY FirstFreeWorks, StateAssumption DEF FreeEntry, Entries, UsedEntries

\* The difference of two unsigned numbers.
LEMMA Difference ==
    ASSUME NEW x \in Int, NEW m \in Nat \ {0}
    PROVE  /\ x \in 0 .. m - 1 => x % m = x
           /\ x \in -m .. -1 => x % m = x + m
OBVIOUS

\* A write that is not cut by the address space stays within its block and
\* within its buffer.
LEMMA WriteFits ==
    ASSUME NEW h \in Handles, NEW data \in Contents, TypeOK,
           open_file_table[h].of_offset <= MaxOffset + BLOCK_SIZE + 1,
           WriteLength(open_file_table[h], data) \in 1 .. BLOCK_SIZE
    PROVE  LET off == open_file_table[h].of_offset
               n == WriteLength(open_file_table[h], data)
           IN  n <= Len(data) /\ off + n <= BLOCK_SIZE
<1> DEFINE off == open_file_table[h].of_offset
           n == WriteLength(open_file_table[h], data)
<1>1. /\ off \in Nat /\ Len(data) \in Nat
      /\ BLOCK_SIZE \in Nat /\ MaxOffset \in Nat /\ MaxOffset >= BLOCK_SIZE
      /\ SizeModulus \in Nat \ {0} /\ SizeModulus > MaxOffset + BLOCK_SIZE + 1
  BY StateAssumption DEF TypeOK
<1>2. CASE Len(data) + off <= BLOCK_SIZE
  BY <1>1, <1>2 DEF WriteLength
<1>3. CASE Len(data) + off > BLOCK_SIZE /\ off <= BLOCK_SIZE
  <2>1. n = BLOCK_SIZE - off
    BY <1>1, <1>3, Difference DEF WriteLength
  <2> QED
    BY <1>1, <1>3, <2>1
<1>4. CASE off > BLOCK_SIZE
  <2>1. n = BLOCK_SIZE - off + SizeModulus
    <3>1. BLOCK_SIZE - off \in -SizeModulus .. -1 /\ Len(data) + off > BLOCK_SIZE
      BY <1>1, <1>4
    <3>2. (BLOCK_SIZE - off) % SizeModulus = BLOCK_SIZE - off + SizeModulus
      <4> DEFINE x == BLOCK_SIZE - off
      <4>1. x \in Int /\ x \in -SizeModulus .. -1 /\ SizeModulus \in Nat \ {0}
        BY <1>1, <3>1
      <4> HIDE DEF x
      <4>2. x % SizeModulus = x + SizeModulus
        BY <4>1, Difference
      <4> QED
        BY <4>2 DEF x
    <3> QED
      BY <3>1, <3>2 DEF WriteLength
  <2> QED
    BY <1>1, <1>4, <2>1
<1> QED
  BY <1>1, <1>2, <1>3, <1>4

-----------------------------------------------------------------------------
(* What a step may do to the tables. *)

AnyOpen(inum, flags) ==
    /\ inum # -1
    /\ SharedTruncate \/ "TFS_O_TRUNC" \notin flags \/ ~IsOpen(inum)
    /\ OpenExisting(inum, flags)

AnyCreation(n) ==
    LET inum == FirstFree(INODE_TABLE_SIZE, takenInodes)
    IN  inum # -1 /\ (Creates(n, inum) \/ CreationUndone(n, inum))

AnyWrite(h, data) ==
    LET file == open_file_table[h]
        inode == inode_table[file.of_inumber]
        n == WriteLength(file, data)
        block == IF inode.i_size = 0 THEN FirstFree(DATA_BLOCKS, takenBlocks)
                 ELSE inode.i_data_block
    IN  \/ block = -1 /\ WriteFails(file.of_inumber)
        \/ n \in 1 .. BLOCK_SIZE /\ block # -1 /\ WriteBytes(h, block, data, n)

AnyRead(h, len) ==
    LET n == ReadLength(open_file_table[h], len)
    IN  /\ n \in 1 .. BLOCK_SIZE + 1
        /\ open_file_table[h].of_offset <= MaxOffset
        /\ open_file_table' = [open_file_table EXCEPT ![h].of_offset = @ + n]
        /\ UNCHANGED <<inode_table, takenInodes, dir_entry, fs_data, takenBlocks, takenHandles>>

\* Every step of the calls is one of these.
LEMMA StepCases ==
    ASSUME [Next]_vars, TypeOK
    PROVE  \/ UNCHANGED store
           \/ \E p \in Paths, flags \in Flags : AnyOpen(lookup(p), flags)
           \/ \E p \in Paths : lookup(p) = -1 /\ AnyCreation(p.name)
           \/ \E h \in Handles \cup {-1} : tfs_close(h)
           \/ \E h \in Handles, data \in Contents : Usable(h) /\ AnyWrite(h, data)
           \/ \E h \in Handles, len \in 0 .. BLOCK_SIZE + 1 : Usable(h) /\ AnyRead(h, len)
           \/ tfs_init
<1>1. CASE UNCHANGED vars
  BY <1>1 DEF vars
<1>2. ASSUME NEW p \in Paths, tfs_lookup(p) PROVE UNCHANGED store
  BY <1>2 DEF tfs_lookup
<1>3. ASSUME NEW p \in Paths, NEW flags \in Flags, tfs_open(p, flags)
      PROVE  \/ UNCHANGED store
             \/ AnyOpen(lookup(p), flags)
             \/ lookup(p) = -1 /\ AnyCreation(p.name)
  BY <1>3 DEF tfs_open, OpenNew, AnyOpen, AnyCreation
<1>4. ASSUME NEW h \in Handles, NEW data \in Contents, tfs_write(h, data)
      PROVE  UNCHANGED store \/ (Usable(h) /\ AnyWrite(h, data))
  BY <1>4 DEF tfs_write, AnyWrite
<1>5. ASSUME NEW h \in Handles, NEW len \in 0 .. BLOCK_SIZE + 1, tfs_read(h, len)
      PROVE  \/ UNCHANGED store
             \/ Usable(h) /\ AnyRead(h, len)
  <2> DEFINE n == ReadLength(open_file_table[h], len)
  <2>1. n \in Nat /\ n <= len
    <3>1. inode_table[open_file_table[h].of_inumber].i_size - open_file_table[h].of_offset \in Int
      BY StateAssumption DEF TypeOK
    <3> QED
      BY <3>1, StateAssumption DEF ReadLength
  <2>2. CASE n = 0 \/ inode_table[open_file_table[h].of_inumber].i_data_block = -1
    BY <1>5, <2>2 DEF tfs_read
  <2>3. CASE n > 0 /\ inode_table[open_file_table[h].of_inumber].i_data_block # -1
    <3>1. n \in 1 .. BLOCK_SIZE + 1
      BY <2>1, <2>3, StateAssumption
    <3> QED
      BY <1>5, <2>3, <3>1 DEF tfs_read, AnyRead
  <2> QED
    BY <2>1, <2>2, <2>3
<1> QED
  BY <1>1, <1>2, <1>3, <1>4, <1>5 DEF Next

-----------------------------------------------------------------------------
\* Offsets do not wrap: reads advance them from MaxOffset at most, and writes
\* end within a block.
OffsetsBounded ==
    \A h \in Handles : open_file_table[h].of_offset <= MaxOffset + BLOCK_SIZE + 1

TypeInv == TypeOK /\ OffsetsBounded

\* The types hold at the start.
LEMMA TypeInvInit == Init => TypeInv
<1> SUFFICES ASSUME Init PROVE TypeInv
  OBVIOUS
<1>1. inode_table \in [Inumbers -> [i_node_type : {"T_FILE", "T_DIRECTORY"},
                                    i_size : 0 .. BLOCK_SIZE,
                                    i_data_block : Blocks \cup {-1}]]
  BY StateAssumption DEF Init, RootInode, FileInode, Blocks
<1>2. ROOT_DIR_INUM \in Inumbers /\ 0 \in Inumbers /\ 0 \in Blocks
  BY StateAssumption DEF ROOT_DIR_INUM, Inumbers, Blocks
<1>3. OffsetsBounded
  BY StateAssumption DEF Init, OffsetsBounded
<1> QED
  BY <1>1, <1>2, <1>3 DEF Init, TypeInv, TypeOK, EmptyDirectory

\* What a call to tfs_open adds to the open file table is well typed.
LEMMA HandleAdded ==
    ASSUME TypeInv, NEW inum \in Inumbers, NEW offset \in 0 .. BLOCK_SIZE,
           add_to_open_file_table(inum, offset)
    PROVE  /\ takenHandles' \subseteq Handles
           /\ open_file_table' \in [Handles -> [of_inumber : Inumbers, of_offset : Nat]]
           /\ OffsetsBounded'
<1> DEFINE h == FirstFree(MAX_OPEN_FILES, takenHandles)
<1>1. h = -1 \/ h \in Handles
  BY FirstFreeWorks, StateAssumption DEF Handles
<1>2. CASE h = -1
  BY <1>2 DEF TypeInv, TypeOK, OffsetsBounded, add_to_open_file_table
<1>3. CASE h # -1
  <2> HIDE DEF h
  <2>1. /\ takenHandles' = takenHandles \cup {h}
        /\ open_file_table' = [open_file_table EXCEPT ![h] = [of_inumber |-> inum, of_offset |-> offset]]
    BY <1>3 DEF add_to_open_file_table, h
  <2> QED
    BY <1>1, <1>3, <2>1, StateAssumption DEF TypeInv, TypeOK, OffsetsBounded
<1> QED
  BY <1>2, <1>3

\* Every step keeps them.
LEMMA TypeInvNext == TypeInv /\ [Next]_vars => TypeInv'
<1> SUFFICES ASSUME TypeInv, [Next]_vars PROVE TypeInv'
  OBVIOUS
<1>0. TypeOK /\ crashed' \in BOOLEAN
  BY DEF TypeInv, TypeOK, Next, vars, tfs_write
<1>1. CASE UNCHANGED store
  BY <1>0, <1>1 DEF TypeInv, TypeOK, OffsetsBounded, store
<1>2. ASSUME NEW p \in Paths, NEW flags \in Flags, AnyOpen(lookup(p), flags)
      PROVE  TypeInv'
  <2> DEFINE inum == lookup(p)
             inode == inode_table[inum]
             size == IF "TFS_O_TRUNC" \in flags THEN 0 ELSE inode.i_size
             offset == IF "TFS_O_APPEND" \in flags THEN size ELSE 0
  <2>1. inum \in Inumbers
    BY <1>0, <1>2, LookupFinds DEF AnyOpen, UsedEntries, TypeOK
  <2> HIDE DEF inum
  <2>2. size \in 0 .. BLOCK_SIZE /\ offset \in 0 .. BLOCK_SIZE
    BY <1>0, <2>1, StateAssumption DEF TypeOK
  <2> HIDE DEF size, offset
  <2>3. /\ inode_table' = [inode_table EXCEPT ![inum].i_size = size]
        /\ takenBlocks' \subseteq takenBlocks
        /\ add_to_open_file_table(inum, offset)
        /\ UNCHANGED <<takenInodes, dir_entry, fs_data>>
    BY <1>2 DEF AnyOpen, OpenExisting, BlocksAfterTruncate, inum, size, offset
  <2>4. /\ takenHandles' \subseteq Handles
        /\ open_file_table' \in [Handles -> [of_inumber : Inumbers, of_offset : Nat]]
        /\ OffsetsBounded'
    BY <2>1, <2>2, <2>3, HandleAdded
  <2>5. inode_table' \in [Inumbers -> [i_node_type : {"T_FILE", "T_DIRECTORY"},
                                       i_size : 0 .. BLOCK_SIZE,
                                       i_data_block : Blocks \cup {-1}]]
    BY <1>0, <2>1, <2>2, <2>3 DEF TypeOK
  <2> QED
    BY <1>0, <2>3, <2>4, <2>5 DEF TypeInv, TypeOK
<1>3. ASSUME NEW p \in Paths, AnyCreation(p.name) PROVE TypeInv'
  <2> DEFINE inum == FirstFree(INODE_TABLE_SIZE, takenInodes)
             n == p.name
  <2>1. inum \in Inumbers \ takenInodes /\ n \in Names \cup {NoName}
    BY <1>3, FirstFreeWorks, StateAssumption DEF AnyCreation, Inumbers
  <2> HIDE DEF inum, n
  <2>2. Creates(n, inum) \/ CreationUndone(n, inum)
    BY <1>3 DEF AnyCreation, inum, n
  <2>3. FileInode \in [i_node_type : {"T_FILE", "T_DIRECTORY"}, i_size : 0 .. BLOCK_SIZE,
                       i_data_block : Blocks \cup {-1}]
    BY StateAssumption DEF FileInode
  <2>4. CASE Creates(n, inum)
    <3>1. FreeEntry(n) \in Entries /\ n \in Names
      BY <2>1, <2>4, FreeEntryWorks DEF Creates
    <3>2. /\ takenHandles' \subseteq Handles
          /\ open_file_table' \in [Handles -> [of_inumber : Inumbers, of_offset : Nat]]
          /\ OffsetsBounded'
      BY <2>1, <2>4, HandleAdded, StateAssumption DEF Creates
    <3> QED
      BY <1>0, <2>1, <2>3, <2>4, <3>1, <3>2, StateAssumption DEF Creates, TypeInv, TypeOK
  <2>5. CASE CreationUndone(n, inum)
    BY <1>0, <2>1, <2>3, <2>5 DEF CreationUndone, TypeInv, TypeOK, OffsetsBounded
  <2> QED
    BY <2>2, <2>4, <2>5
<1>4. ASSUME NEW h \in Handles \cup {-1}, tfs_close(h) PROVE TypeInv'
  BY <1>0, <1>4 DEF tfs_close, TypeInv, TypeOK, OffsetsBounded
<1>5. ASSUME NEW h \in Handles, NEW data \in Contents, AnyWrite(h, data)
      PROVE  TypeInv'
  <2> DEFINE file == open_file_table[h]
             inum == file.of_inumber
             n == WriteLength(file, data)
             block == IF inode_table[inum].i_size = 0 THEN FirstFree(DATA_BLOCKS, takenBlocks)
                      ELSE inode_table[inum].i_data_block
  <2>1. inum \in Inumbers /\ file.of_offset \in Nat /\ file.of_offset <= MaxOffset + BLOCK_SIZE + 1
    BY <1>0 DEF TypeInv, TypeOK, OffsetsBounded
  <2>2. CASE WriteFails(inum)
    BY <1>0, <2>1, <2>2 DEF WriteFails, TypeInv, TypeOK, OffsetsBounded
  <2>3. CASE n \in 1 .. BLOCK_SIZE /\ block # -1 /\ WriteBytes(h, block, data, n)
    <3>1. block \in Blocks
      BY <1>0, <2>1, <2>3, FirstFreeWorks, StateAssumption DEF TypeOK, Blocks
    <3>2. n \in 1 .. Len(data) /\ file.of_offset + n <= BLOCK_SIZE
      BY <1>0, <2>1, <2>3, WriteFits
    <3>3. data \in Seq(Nat) /\ BLOCK_SIZE \in Nat /\ MaxOffset \in Nat
      BY StateAssumption
    <3> HIDE DEF n, block
    <3>4. fs_data' \in [Addresses -> Nat]
      <4>1. \A a \in Addresses : a \in Int
        BY StateAssumption DEF Addresses
      <4>2. block * BLOCK_SIZE + file.of_offset \in Int
        BY <2>1, <3>1, <3>3 DEF Blocks
      <4> DEFINE first == block * BLOCK_SIZE + file.of_offset
      <4> HIDE DEF first
      <4>3. \A a \in Addresses : a \in first .. first + n - 1 => data[a - first + 1] \in Nat
        BY <3>2, <3>3, <4>1, <4>2 DEF first
      <4> QED
        BY <1>0, <2>3, <4>3 DEF WriteBytes, Copied, TypeOK, first
    <3>5. file.of_offset + n \in 0 .. BLOCK_SIZE
      BY <2>1, <3>2, <3>3
    <3>6. inode_table' \in [Inumbers -> [i_node_type : {"T_FILE", "T_DIRECTORY"},
                                         i_size : 0 .. BLOCK_SIZE,
                                         i_data_block : Blocks \cup {-1}]]
      <4> DEFINE size == SizeAfterWrite(inode_table[inum].i_size, file.of_offset + n)
      <4>1. size \in 0 .. BLOCK_SIZE
        BY <1>0, <2>1, <3>5 DEF SizeAfterWrite, TypeOK
      <4>2. inode_table' = [inode_table EXCEPT ![inum].i_data_block = block, ![inum].i_size = size]
        BY <2>3 DEF WriteBytes
      <4>3. inum \in Inumbers /\ block \in Blocks \cup {-1}
        BY <2>1, <3>1
      <4> DEFINE Inodes == [i_node_type : {"T_FILE", "T_DIRECTORY"},
                            i_size : 0 .. BLOCK_SIZE,
                            i_data_block : Blocks \cup {-1}]
                 new == [inode_table[inum] EXCEPT !.i_data_block = block, !.i_size = size]
      <4> HIDE DEF size, inum, block
      <4>4. inode_table \in [Inumbers -> Inodes]
        BY <1>0 DEF TypeOK
      <4>5. inode_table[inum] \in Inodes
        BY <4>3, <4>4
      <4>6. new \in Inodes
        BY <4>1, <4>3, <4>5
      <4>7. inode_table' = [inode_table EXCEPT ![inum] = new]
        BY <4>2, <4>3, <4>4
      <4> HIDE DEF Inodes, new
      <4>8. inode_table' \in [Inumbers -> Inodes]
        BY <4>3, <4>4, <4>6, <4>7
      <4> QED
        BY <4>8 DEF Inodes
    <3>7. /\ open_file_table' \in [Handles -> [of_inumber : Inumbers, of_offset : Nat]]
          /\ OffsetsBounded'
      <4>1. open_file_table' = [open_file_table EXCEPT ![h].of_offset = file.of_offset + n]
        BY <2>3 DEF WriteBytes
      <4>2. file.of_offset + n \in Nat /\ file.of_offset + n <= MaxOffset + BLOCK_SIZE + 1
        BY <3>3, <3>5
      <4> QED
        BY <1>0, <4>1, <4>2 DEF TypeInv, TypeOK, OffsetsBounded
    <3> QED
      BY <1>0, <2>3, <3>1, <3>4, <3>6, <3>7 DEF WriteBytes, TypeInv, TypeOK
  <2> QED
    BY <1>5, <2>2, <2>3 DEF AnyWrite
<1>6. ASSUME NEW h \in Handles, NEW len \in 0 .. BLOCK_SIZE + 1, AnyRead(h, len)
      PROVE  TypeInv'
  <2> DEFINE offset == open_file_table[h].of_offset + ReadLength(open_file_table[h], len)
  <2>1. offset \in Nat /\ offset <= MaxOffset + BLOCK_SIZE + 1
    <3>1. /\ ReadLength(open_file_table[h], len) \in 1 .. BLOCK_SIZE + 1
          /\ open_file_table[h].of_offset <= MaxOffset
      BY <1>6 DEF AnyRead
    <3>2. open_file_table[h].of_offset \in Nat
      BY <1>0 DEF TypeOK
    <3> QED
      BY <3>1, <3>2, StateAssumption
  <2>2. open_file_table' = [open_file_table EXCEPT ![h].of_offset = offset]
    BY <1>6 DEF AnyRead
  <2> HIDE DEF offset
  <2> QED
    BY <1>0, <1>6, <2>1, <2>2 DEF AnyRead, TypeInv, TypeOK, OffsetsBounded
<1>7. CASE tfs_init
  BY <1>0, <1>7, StateAssumption
     DEF tfs_init, TypeInv, TypeOK, OffsetsBounded, RootInode, EmptyDirectory,
         ROOT_DIR_INUM, Inumbers, Blocks
<1> QED
  BY <1>0, <1>1, <1>2, <1>3, <1>4, <1>5, <1>6, <1>7, StepCases

\* The variables keep their types, whatever offsets handles have after a file was
\* truncated under them: in particular no i-node gets a size larger than its block
\* (operations.c:163-190).  A copy whose length is a wrapped difference is the end
\* of the process (crashed) and is not in what this says; see WildWriteFarOnly.
THEOREM TypeCorrect == Spec => []TypeOK
<1>1. Spec => []TypeInv
  BY TypeInvInit, TypeInvNext, PTL DEF Spec
<1> QED
  BY <1>1, PTL DEF TypeInv

-----------------------------------------------------------------------------
\* The i-nodes the entries lead to are those in use, but for the root's, and a
\* step that touches neither leaves it so.
LEMMA DirectoryStable ==
    ASSUME DirectoryConsistent, UNCHANGED <<takenInodes, dir_entry>>
    PROVE  DirectoryConsistent'
BY DEF DirectoryConsistent, Files, UsedEntries

\* Every call keeps the directory and the i-node map in agreement.
LEMMA DirectoryNext == TypeInv /\ DirectoryConsistent /\ [Next]_vars => DirectoryConsistent'
<1> SUFFICES ASSUME TypeInv, DirectoryConsistent, [Next]_vars PROVE DirectoryConsistent'
  OBVIOUS
<1>0. TypeOK
  BY DEF TypeInv
<1>1. ASSUME NEW p \in Paths, AnyCreation(p.name) PROVE DirectoryConsistent'
  <2> DEFINE inum == FirstFree(INODE_TABLE_SIZE, takenInodes)
             n == p.name
             e == FreeEntry(n)
  <2>1. inum \in Inumbers \ takenInodes
    BY <1>1, FirstFreeWorks, StateAssumption DEF AnyCreation, Inumbers
  <2> HIDE DEF inum
  <2>2. CASE CreationUndone(n, inum)
    BY <2>2, DirectoryStable DEF CreationUndone
  <2>3. CASE Creates(n, inum)
    <3>1. e \in Entries \ UsedEntries
      BY <2>3, FreeEntryWorks DEF Creates
    <3> HIDE DEF e
    <3>2. /\ takenInodes' = takenInodes \cup {inum}
          /\ dir_entry' = [dir_entry EXCEPT ![e] = [d_inumber |-> inum, d_name |-> Clip[n]]]
      BY <2>3 DEF Creates, e
    <3>3. inum # -1 /\ inum # ROOT_DIR_INUM
      BY <1>0, <2>1 DEF TypeOK, Inumbers
    <3>4. Files' = Files \cup {inum} /\ inum \notin Files
      BY <2>1, <3>2, <3>3 DEF Files
    <3>5. UsedEntries' = UsedEntries \cup {e}
      BY <1>0, <3>1, <3>2, <3>3 DEF UsedEntries, TypeOK
    <3>6. \A d \in UsedEntries : dir_entry'[d] = dir_entry[d]
      BY <1>0, <3>1, <3>2 DEF UsedEntries, TypeOK
    <3>7. dir_entry'[e].d_inumber = inum
      BY <1>0, <3>1, <3>2 DEF TypeOK
    <3> QED
      BY <3>4, <3>5, <3>6, <3>7 DEF DirectoryConsistent
  <2> QED
    BY <1>1, <2>2, <2>3 DEF AnyCreation, inum
<1>2. CASE tfs_init
  BY <1>2 DEF tfs_init, EmptyDirectory, DirectoryConsistent, Files, UsedEntries
<1>3. CASE UNCHANGED <<takenInodes, dir_entry>>
  BY <1>3, DirectoryStable
<1> QED
  BY <1>0, <1>1, <1>2, <1>3, StepCases
     DEF store, AnyOpen, OpenExisting, tfs_close, AnyWrite, WriteFails, WriteBytes, AnyRead

\* The directory and the i-node map agree after any calls, also when a creation
\* fails half way (operations.c:99-113).
THEOREM DirectoryCorrect == Spec => []DirectoryConsistent
<1>1. Init => DirectoryConsistent
  BY DEF Init, EmptyDirectory, DirectoryConsistent, Files, UsedEntries
<1>2. Spec => []TypeInv
  BY TypeInvInit, TypeInvNext, PTL DEF Spec
<1> QED
  BY <1>1, <1>2, DirectoryNext, PTL DEF Spec

-----------------------------------------------------------------------------
\* An open that finds its file in the directory finds a file.
LEMMA LookupFile ==
    ASSUME DirectoryConsistent, NEW p, lookup(p) # -1
    PROVE  lookup(p) \in Files
BY LookupFinds DEF DirectoryConsistent

\* The entries of the open file table lead to files.
OpenFilesExist == \A h \in takenHandles : open_file_table[h].of_inumber \in Files

\* A handle that is opened leads to a file of the directory.
LEMMA HandleAddedExists ==
    ASSUME TypeInv, OpenFilesExist, NEW inum, NEW offset,
           add_to_open_file_table(inum, offset),
           Files \subseteq Files', inum \in Files'
    PROVE  OpenFilesExist'
<1> DEFINE h == FirstFree(MAX_OPEN_FILES, takenHandles)
<1>1. h = -1 \/ h \in Handles
  BY FirstFreeWorks, StateAssumption DEF Handles
<1> HIDE DEF h
<1>2. \/ UNCHANGED <<takenHandles, open_file_table>>
      \/ /\ h \in Handles
         /\ takenHandles' = takenHandles \cup {h}
         /\ open_file_table' = [open_file_table EXCEPT ![h] = [of_inumber |-> inum, of_offset |-> offset]]
  BY <1>1 DEF add_to_open_file_table, h
<1> QED
  BY <1>2 DEF OpenFilesExist, TypeInv, TypeOK

\* Open handles lead to files after any call.
LEMMA OpenFilesNext ==
    TypeInv /\ DirectoryConsistent /\ OpenFilesExist /\ [Next]_vars => OpenFilesExist'
<1> SUFFICES ASSUME TypeInv, DirectoryConsistent, OpenFilesExist, [Next]_vars
             PROVE  OpenFilesExist'
  OBVIOUS
<1>0. TypeOK
  BY DEF TypeInv
<1>1. ASSUME NEW p \in Paths, NEW flags \in Flags, AnyOpen(lookup(p), flags)
      PROVE  OpenFilesExist'
  <2>1. lookup(p) \in Files
    BY <1>1, LookupFile DEF AnyOpen
  <2>2. Files' = Files
    BY <1>1 DEF AnyOpen, OpenExisting, Files
  <2> QED
    BY <1>1, <2>1, <2>2, HandleAddedExists DEF AnyOpen, OpenExisting
<1>2. ASSUME NEW p \in Paths, AnyCreation(p.name) PROVE OpenFilesExist'
  <2> DEFINE inum == FirstFree(INODE_TABLE_SIZE, takenInodes)
             n == p.name
  <2>1. inum \in Inumbers \ takenInodes /\ inum # ROOT_DIR_INUM
    BY <1>0, <1>2, FirstFreeWorks, StateAssumption DEF AnyCreation, Inumbers, TypeOK
  <2> HIDE DEF inum
  <2>2. CASE CreationUndone(n, inum)
    BY <2>2 DEF CreationUndone, OpenFilesExist, Files
  <2>3. CASE Creates(n, inum)
    <3>1. Files' = Files \cup {inum}
      BY <2>1, <2>3 DEF Creates, Files
    <3> QED
      BY <2>3, <3>1, HandleAddedExists DEF Creates
  <2> QED
    BY <1>2, <2>2, <2>3 DEF AnyCreation, inum
<1>3. ASSUME NEW h \in Handles,
             takenHandles' = takenHandles, takenInodes' = takenInodes,
             \E offset : open_file_table' = [open_file_table EXCEPT ![h].of_offset = offset]
      PROVE  OpenFilesExist'
  BY <1>0, <1>3 DEF OpenFilesExist, Files, TypeOK
<1>4. ASSUME takenHandles' \subseteq takenHandles,
             UNCHANGED <<takenInodes, open_file_table>>
      PROVE  OpenFilesExist'
  BY <1>4 DEF OpenFilesExist, Files
<1>5. ASSUME NEW h \in Handles, NEW data \in Contents, AnyWrite(h, data)
      PROVE  OpenFilesExist'
  BY <1>3, <1>4, <1>5 DEF AnyWrite, WriteFails, WriteBytes
<1>6. ASSUME NEW h \in Handles, NEW len \in 0 .. BLOCK_SIZE + 1, AnyRead(h, len)
      PROVE  OpenFilesExist'
  BY <1>3, <1>6 DEF AnyRead
<1>7. CASE tfs_init
  BY <1>7 DEF tfs_init, OpenFilesExist
<1>8. ASSUME UNCHANGED store \/ \E h \in Handles \cup {-1} : tfs_close(h) PROVE OpenFilesExist'
  BY <1>4, <1>8 DEF store, tfs_close
<1> QED
  BY <1>0, <1>1, <1>2, <1>5, <1>6, <1>7, <1>8, StepCases

-----------------------------------------------------------------------------
\* A step that leaves the blocks and what the files say of them as they are.
LEMMA BlocksStable ==
    ASSUME BlocksAccounted, UNCHANGED takenBlocks, NonEmpty' = NonEmpty,
           \A i \in NonEmpty : inode_table'[i].i_data_block = inode_table[i].i_data_block
    PROVE  BlocksAccounted'
BY DEF BlocksAccounted

\* Blocks stay accounted for after any call.
LEMMA BlocksNext ==
    TypeInv /\ DirectoryConsistent /\ OpenFilesExist /\ BlocksAccounted /\ [Next]_vars
      => BlocksAccounted'
<1> SUFFICES ASSUME TypeInv, DirectoryConsistent, OpenFilesExist, BlocksAccounted, [Next]_vars
             PROVE  BlocksAccounted'
  OBVIOUS
<1>0. TypeOK /\ Files \subseteq Inumbers
  BY DEF TypeInv, TypeOK, Files
<1>1. ASSUME NEW p \in Paths, NEW flags \in Flags, AnyOpen(lookup(p), flags)
      PROVE  BlocksAccounted'
  <2> DEFINE inum == lookup(p)
             size == IF "TFS_O_TRUNC" \in flags THEN 0 ELSE inode_table[inum].i_size
  <2>1. inum \in Files
    BY <1>1, LookupFile DEF AnyOpen
  <2> HIDE DEF inum
  <2>2. /\ inode_table' = [inode_table EXCEPT ![inum].i_size = size]
        /\ takenBlocks' = BlocksAfterTruncate(inode_table[inum], size)
        /\ Files' = Files
    BY <1>1 DEF AnyOpen, OpenExisting, Files, inum
  <2>3. \A i \in Files : inode_table'[i].i_data_block = inode_table[i].i_data_block
    BY <1>0, <2>1, <2>2 DEF TypeOK
  <2>4. inode_table[inum].i_size \in 0 .. BLOCK_SIZE
    BY <1>0, <2>1 DEF TypeOK
  <2>5. CASE size < inode_table[inum].i_size
    <3>1. size = 0 /\ inum \in NonEmpty
      BY <2>1, <2>4, <2>5, StateAssumption DEF NonEmpty
    <3>2. NonEmpty' = NonEmpty \ {inum}
      BY <1>0, <2>1, <2>2, <3>1 DEF NonEmpty, TypeOK
    <3>3. takenBlocks' = takenBlocks \ {inode_table[inum].i_data_block}
      BY <2>2, <2>5 DEF BlocksAfterTruncate
    <3> QED
      BY <2>3, <3>1, <3>2, <3>3 DEF BlocksAccounted, NonEmpty
  <2>6. CASE ~(size < inode_table[inum].i_size)
    <3>1. size = inode_table[inum].i_size
      BY <2>4, <2>6, StateAssumption
    <3>2. NonEmpty' = NonEmpty
      BY <1>0, <2>1, <2>2, <3>1 DEF NonEmpty, TypeOK
    <3>3. takenBlocks' = takenBlocks
      BY <2>2, <2>6 DEF BlocksAfterTruncate
    <3> QED
      BY <2>3, <3>2, <3>3, BlocksStable DEF NonEmpty
  <2> QED
    BY <2>5, <2>6
<1>2. ASSUME NEW p \in Paths, AnyCreation(p.name) PROVE BlocksAccounted'
  <2> DEFINE inum == FirstFree(INODE_TABLE_SIZE, takenInodes)
  <2>1. inum \in Inumbers \ takenInodes
    BY <1>2, FirstFreeWorks, StateAssumption DEF AnyCreation, Inumbers
  <2> HIDE DEF inum
  <2>2. /\ inode_table' = [inode_table EXCEPT ![inum] = FileInode]
        /\ takenInodes' = takenInodes \/ takenInodes' = takenInodes \cup {inum}
        /\ takenBlocks' = takenBlocks
    BY <1>2 DEF AnyCreation, Creates, CreationUndone, inum
  <2>3. \A i \in Files : inode_table'[i] = inode_table[i]
    BY <1>0, <2>1, <2>2 DEF Files, TypeOK
  <2>4. inode_table'[inum].i_size = 0
    BY <1>0, <2>1, <2>2 DEF TypeOK, FileInode
  <2>5. NonEmpty' = NonEmpty
    BY <2>2, <2>3, <2>4 DEF NonEmpty, Files
  <2> QED
    BY <2>2, <2>3, <2>5, BlocksStable DEF NonEmpty
<1>3. ASSUME NEW h \in Handles, NEW data \in Contents, Usable(h), AnyWrite(h, data)
      PROVE  BlocksAccounted'
  <2> DEFINE file == open_file_table[h]
             inum == file.of_inumber
             n == WriteLength(file, data)
             block == IF inode_table[inum].i_size = 0 THEN FirstFree(DATA_BLOCKS, takenBlocks)
                      ELSE inode_table[inum].i_data_block
  <2>1. inum \in Files /\ file.of_offset \in Nat
    BY <1>0, <1>3 DEF Usable, OpenFilesExist, Files, TypeOK
  <2>2. inode_table[inum].i_size \in Nat /\ BLOCK_SIZE \in Nat
    BY <1>0, <2>1, StateAssumption DEF TypeOK
  <2>3. CASE block = -1 /\ WriteFails(inum)
    <3>1. inum \notin NonEmpty
      <4>1. SUFFICES ASSUME inum \in NonEmpty PROVE FALSE
        OBVIOUS
      <4>2. inode_table[inum].i_data_block \in Blocks
        BY <1>0, <4>1 DEF BlocksAccounted, TypeOK
      <4>3. block = inode_table[inum].i_data_block
        BY <2>2, <4>1 DEF NonEmpty
      <4> QED
        BY <2>3, <4>2, <4>3 DEF Blocks
    <3>2. /\ inode_table' = [inode_table EXCEPT ![inum].i_data_block = -1]
          /\ takenBlocks' = takenBlocks
          /\ Files' = Files
      BY <2>3 DEF WriteFails, Files
    <3>3. \A i \in Files : /\ inode_table'[i].i_size = inode_table[i].i_size
                           /\ i # inum => inode_table'[i] = inode_table[i]
      BY <1>0, <2>1, <3>2 DEF TypeOK
    <3>4. NonEmpty' = NonEmpty
      BY <3>2, <3>3 DEF NonEmpty
    <3> QED
      BY <3>1, <3>2, <3>3, <3>4, BlocksStable DEF NonEmpty
  <2>4. CASE n \in 1 .. BLOCK_SIZE /\ block # -1 /\ WriteBytes(h, block, data, n)
    <3> DEFINE size == SizeAfterWrite(inode_table[inum].i_size, file.of_offset + n)
    <3>1. size > 0
      BY <2>1, <2>2, <2>4 DEF SizeAfterWrite
    <3>2. /\ inode_table' = [inode_table EXCEPT ![inum].i_data_block = block, ![inum].i_size = size]
          /\ takenBlocks' = takenBlocks \cup {block}
          /\ Files' = Files
      BY <2>4 DEF WriteBytes, Files
    <3> HIDE DEF size, inum
    <3>3. /\ \A i \in Files \ {inum} : inode_table'[i] = inode_table[i]
          /\ inode_table'[inum].i_data_block = block
          /\ inode_table'[inum].i_size = size
      BY <1>0, <2>1, <3>2 DEF TypeOK
    <3>4. NonEmpty' = NonEmpty \cup {inum}
      BY <2>1, <3>1, <3>2, <3>3 DEF NonEmpty
    <3>5. CASE inode_table[inum].i_size = 0
      <4>1. block \notin takenBlocks
        BY <2>4, <3>5, FirstFreeWorks, StateAssumption
      <4>2. inum \notin NonEmpty
        BY <3>5 DEF NonEmpty
      <4> HIDE DEF block
      <4>3. \A i \in NonEmpty :
              /\ inode_table'[i].i_data_block = inode_table[i].i_data_block
              /\ inode_table'[i].i_data_block # block
        BY <3>3, <4>1, <4>2 DEF BlocksAccounted, NonEmpty
      <4>4. {inode_table'[i].i_data_block : i \in NonEmpty'}
              = {inode_table[i].i_data_block : i \in NonEmpty} \cup {block}
        BY <3>3, <3>4, <4>3
      <4>5. block # 0
        BY <4>1 DEF BlocksAccounted
      <4> QED
        <5>1. takenBlocks' = {0} \cup {inode_table'[i].i_data_block : i \in NonEmpty'}
          BY <3>2, <4>4 DEF BlocksAccounted
        <5>2. \A i \in NonEmpty' : inode_table'[i].i_data_block # 0
          BY <3>3, <3>4, <4>3, <4>5 DEF BlocksAccounted
        <5>3. \A i, j \in NonEmpty' :
                inode_table'[i].i_data_block = inode_table'[j].i_data_block => i = j
          BY <3>3, <3>4, <4>3 DEF BlocksAccounted
        <5> QED
          BY <5>1, <5>2, <5>3 DEF BlocksAccounted
    <3>6. CASE inode_table[inum].i_size # 0
      <4>1. inum \in NonEmpty /\ block = inode_table[inum].i_data_block
        BY <2>1, <2>2, <3>6 DEF NonEmpty
      <4>2. block \in takenBlocks
        BY <4>1 DEF BlocksAccounted
      <4> HIDE DEF block
      <4> QED
        BY <3>2, <3>3, <3>4, <4>1, <4>2, BlocksStable DEF NonEmpty
    <3> QED
      BY <3>5, <3>6
  <2> QED
    BY <1>3, <2>3, <2>4 DEF AnyWrite
<1>4. CASE UNCHANGED <<inode_table, takenInodes, takenBlocks>>
  BY <1>4, BlocksStable DEF NonEmpty, Files
<1>5. CASE tfs_init
  BY <1>5 DEF tfs_init, BlocksAccounted, NonEmpty, Files
<1> QED
  BY <1>0, <1>1, <1>2, <1>3, <1>4, <1>5, StepCases DEF store, tfs_close, AnyRead

\* The inductive invariant of the tables.
StateInv == TypeInv /\ DirectoryConsistent /\ OpenFilesExist /\ BlocksAccounted

\* The inductive invariant of the tables holds, whatever the callers do.
LEMMA StateInvariant == Spec => []StateInv
<1>1. Init => OpenFilesExist /\ BlocksAccounted /\ DirectoryConsistent
  BY DEF Init, OpenFilesExist, BlocksAccounted, NonEmpty, Files, EmptyDirectory,
         DirectoryConsistent, UsedEntries
<1> QED
  BY <1>1, TypeInvInit, TypeInvNext, DirectoryNext, OpenFilesNext, BlocksNext, PTL
     DEF Spec, StateInv

\* No data block is lost and none is shared, after any calls, on handles that
\* are open or closed, with files truncated under the handles and writes that
\* find the disk full (operations.c:83-90, 171-190).
THEOREM BlocksCorrect == Spec => []BlocksAccounted
BY StateInvariant, PTL DEF StateInv

-----------------------------------------------------------------------------
\* A name that lookup does not find is in no entry.
LEMMA LookupComplete ==
    ASSUME NEW p, valid_pathname(p), lookup(p) = -1
    PROVE  \A e \in UsedEntries : dir_entry[e].d_name # p.name
<1> DEFINE found == {e \in Entries : dir_entry[e].d_inumber # -1 /\ dir_entry[e].d_name = p.name}
<1>1. found # {} => Lowest(found) \in found
  <2>1. found \subseteq Nat
    BY DEF Entries
  <2> QED
    BY <2>1, LowestWorks
<1>2. found = {}
  BY <1>1 DEF lookup, find_in_dir
<1> QED
  BY <1>2 DEF UsedEntries

\* All names fit in a directory entry, and callers pass paths that start with '/'.
PlainNames == /\ \A n \in Names : Clip[n] = n
              /\ \A p \in Paths : p.absolute

\* A name is in the directory once (operations.c:75-109).
THEOREM NamesCorrect == ASSUME PlainNames PROVE Spec => []NamesUnique
<1>1. Init => NamesUnique
  BY DEF Init, NamesUnique, UsedEntries, EmptyDirectory
<1>2. TypeInv /\ NamesUnique /\ [Next]_vars => NamesUnique'
  <2> SUFFICES ASSUME TypeInv, NamesUnique, [Next]_vars PROVE NamesUnique'
    OBVIOUS
  <2>0. TypeOK
    BY DEF TypeInv
  <2>1. CASE dir_entry' = dir_entry
    BY <2>1 DEF NamesUnique, UsedEntries
  <2>2. ASSUME NEW p \in Paths, lookup(p) = -1, AnyCreation(p.name) PROVE NamesUnique'
    <3> DEFINE inum == FirstFree(INODE_TABLE_SIZE, takenInodes)
               e == FreeEntry(p.name)
    <3>1. CASE ~Creates(p.name, inum)
      BY <2>1, <2>2, <3>1 DEF AnyCreation, CreationUndone
    <3>2. CASE Creates(p.name, inum)
      <4>1. e \in Entries \ UsedEntries /\ p.name \in Names
        BY <3>2, FreeEntryWorks, StateAssumption DEF Creates
      <4>2. valid_pathname(p)
        BY <4>1, StateAssumption DEF valid_pathname, PlainNames
      <4>3. \A d \in UsedEntries : dir_entry[d].d_name # p.name
        BY <2>2, <4>2, LookupComplete
      <4>4. dir_entry' = [dir_entry EXCEPT ![e] = [d_inumber |-> inum, d_name |-> p.name]]
        BY <3>2, <4>1 DEF Creates, PlainNames
      <4> HIDE DEF e, inum
      <4>5. /\ UsedEntries' \subseteq UsedEntries \cup {e}
            /\ \A d \in UsedEntries : dir_entry'[d] = dir_entry[d]
            /\ dir_entry'[e].d_name = p.name
        BY <2>0, <4>1, <4>4 DEF UsedEntries, TypeOK
      <4> QED
        BY <4>3, <4>5 DEF NamesUnique
    <3> QED
      BY <3>1, <3>2
  <2>3. CASE tfs_init
    BY <2>3 DEF tfs_init, NamesUnique, UsedEntries, EmptyDirectory
  <2> QED
    BY <2>0, <2>1, <2>2, <2>3, StepCases
       DEF store, AnyOpen, OpenExisting, tfs_close, AnyWrite, WriteFails, WriteBytes, AnyRead
<1> QED
  BY <1>1, <1>2, StateInvariant, PTL DEF Spec, StateInv

-----------------------------------------------------------------------------
\* A handle that is added stands within its file if its offset does.
LEMMA HandleAddedWithin ==
    ASSUME TypeInv, NEW inum, NEW offset, add_to_open_file_table(inum, offset),
           inum \in Files', offset <= inode_table'[inum].i_size,
           \A h \in takenHandles :
             LET file == open_file_table[h]
             IN  file.of_inumber \in Files' /\ file.of_offset <= inode_table'[file.of_inumber].i_size
    PROVE  HandlesWithinFiles'
<1> DEFINE new == FirstFree(MAX_OPEN_FILES, takenHandles)
<1>1. new = -1 \/ new \in Handles
  BY FirstFreeWorks, StateAssumption DEF Handles
<1> HIDE DEF new
<1>2. CASE UNCHANGED <<takenHandles, open_file_table>>
  BY <1>2 DEF HandlesWithinFiles
<1>3. CASE /\ new \in Handles
           /\ takenHandles' = takenHandles \cup {new}
           /\ open_file_table' = [open_file_table EXCEPT ![new] = [of_inumber |-> inum, of_offset |-> offset]]
  <2>1. /\ open_file_table'[new].of_inumber = inum /\ open_file_table'[new].of_offset = offset
        /\ \A h \in takenHandles : h # new => open_file_table'[h] = open_file_table[h]
    BY <1>3 DEF TypeInv, TypeOK
  <2> QED
    BY <1>3, <2>1 DEF HandlesWithinFiles
<1> QED
  BY <1>1, <1>2, <1>3 DEF add_to_open_file_table, new

\* No call leaves an open handle beyond the end of its file.
LEMMA HandlesNext ==
    ASSUME ~SharedTruncate
    PROVE  TypeInv /\ DirectoryConsistent /\ HandlesWithinFiles /\ [Next]_vars => HandlesWithinFiles'
<1> SUFFICES ASSUME TypeInv, DirectoryConsistent, HandlesWithinFiles, [Next]_vars
             PROVE  HandlesWithinFiles'
  OBVIOUS
<1>0. /\ TypeOK /\ Files \subseteq Inumbers /\ BLOCK_SIZE \in Nat
      /\ \A i \in Inumbers : inode_table[i].i_size \in 0 .. BLOCK_SIZE
      /\ \A h \in Handles : open_file_table[h].of_offset \in Nat
  BY StateAssumption DEF TypeInv, TypeOK, Files
<1>1. ASSUME NEW p \in Paths, NEW flags \in Flags, AnyOpen(lookup(p), flags)
      PROVE  HandlesWithinFiles'
  <2> DEFINE inum == lookup(p)
             size == IF "TFS_O_TRUNC" \in flags THEN 0 ELSE inode_table[inum].i_size
             offset == IF "TFS_O_APPEND" \in flags THEN size ELSE 0
  <2>1. inum \in Files
    BY <1>1, LookupFile DEF AnyOpen
  <2>2. \A h \in takenHandles : open_file_table[h].of_inumber = inum => size = inode_table[inum].i_size
    BY <1>1 DEF AnyOpen, IsOpen
  <2> HIDE DEF inum
  <2>3. size \in 0 .. BLOCK_SIZE /\ offset <= size
    BY <1>0, <2>1
  <2> HIDE DEF size, offset
  <2>4. /\ inode_table' = [inode_table EXCEPT ![inum].i_size = size]
        /\ Files' = Files
        /\ add_to_open_file_table(inum, offset)
    BY <1>1 DEF AnyOpen, OpenExisting, Files, inum, size, offset
  <2>5. /\ inode_table'[inum].i_size = size
        /\ \A i \in Files \ {inum} : inode_table'[i] = inode_table[i]
    BY <1>0, <2>1, <2>4 DEF TypeOK
  <2>6. \A h \in takenHandles :
          LET file == open_file_table[h]
          IN  file.of_inumber \in Files' /\ file.of_offset <= inode_table'[file.of_inumber].i_size
    BY <2>1, <2>2, <2>4, <2>5 DEF HandlesWithinFiles
  <2> QED
    BY <2>1, <2>3, <2>4, <2>5, <2>6, HandleAddedWithin
<1>2. ASSUME NEW p \in Paths, AnyCreation(p.name) PROVE HandlesWithinFiles'
  <2> DEFINE inum == FirstFree(INODE_TABLE_SIZE, takenInodes)
             n == p.name
  <2>1. inum \in Inumbers \ takenInodes /\ inum # ROOT_DIR_INUM
    BY <1>0, <1>2, FirstFreeWorks, StateAssumption DEF AnyCreation, Inumbers, TypeOK
  <2> HIDE DEF inum
  <2>2. ASSUME inode_table' = [inode_table EXCEPT ![inum] = FileInode]
        PROVE  /\ inode_table'[inum].i_size = 0
               /\ \A i \in Files : inode_table'[i] = inode_table[i]
    BY <1>0, <2>1, <2>2 DEF TypeOK, Files, FileInode
  <2>3. CASE CreationUndone(n, inum)
    BY <2>2, <2>3 DEF CreationUndone, HandlesWithinFiles, Files
  <2>4. CASE Creates(n, inum)
    <3>1. Files' = Files \cup {inum}
      BY <2>1, <2>4 DEF Creates, Files
    <3>2. /\ inode_table'[inum].i_size = 0
          /\ \A i \in Files : inode_table'[i] = inode_table[i]
      BY <2>2, <2>4 DEF Creates
    <3>3. \A h \in takenHandles :
            LET file == open_file_table[h]
            IN  file.of_inumber \in Files' /\ file.of_offset <= inode_table'[file.of_inumber].i_size
      BY <3>1, <3>2 DEF HandlesWithinFiles
    <3> QED
      BY <2>4, <3>1, <3>2, <3>3, HandleAddedWithin DEF Creates
  <2> QED
    BY <1>2, <2>3, <2>4 DEF AnyCreation, inum
<1>3. ASSUME NEW h \in Handles, NEW data \in Contents, Usable(h), AnyWrite(h, data)
      PROVE  HandlesWithinFiles'
  <2> DEFINE file == open_file_table[h]
             inum == file.of_inumber
             n == WriteLength(file, data)
             block == IF inode_table[inum].i_size = 0 THEN FirstFree(DATA_BLOCKS, takenBlocks)
                      ELSE inode_table[inum].i_data_block
  <2>1. inum \in Files /\ file.of_offset \in Nat
    BY <1>0, <1>3 DEF Usable, HandlesWithinFiles, Files
  <2>2. CASE WriteFails(inum)
    <3>1. /\ \A i \in Files : inode_table'[i].i_size = inode_table[i].i_size
          /\ Files' = Files
      BY <1>0, <2>1, <2>2 DEF WriteFails, TypeOK, Files
    <3> QED
      BY <2>2, <3>1 DEF WriteFails, HandlesWithinFiles
  <2>3. CASE n \in 1 .. BLOCK_SIZE /\ WriteBytes(h, block, data, n)
    <3> DEFINE end == file.of_offset + n
               size == SizeAfterWrite(inode_table[inum].i_size, end)
    <3>1. end <= size /\ inode_table[inum].i_size <= size
      BY <1>0, <2>1, <2>3 DEF SizeAfterWrite
    <3>2. /\ inode_table' = [inode_table EXCEPT ![inum].i_data_block = block, ![inum].i_size = size]
          /\ open_file_table' = [open_file_table EXCEPT ![h].of_offset = end]
          /\ takenHandles' = takenHandles
          /\ Files' = Files
      BY <2>3 DEF WriteBytes, Files
    <3>3. end \in Nat /\ size \in Nat
      BY <1>0, <2>1, <2>3 DEF SizeAfterWrite
    <3> HIDE DEF end, size, block, n
    <3>4. \A i \in Files : inode_table'[i].i_size = IF i = inum THEN size ELSE inode_table[i].i_size
      BY <1>0, <2>1, <3>2 DEF TypeOK
    <3>5. \A g \in takenHandles :
            /\ open_file_table'[g].of_inumber = open_file_table[g].of_inumber
            /\ open_file_table'[g].of_offset = IF g = h THEN end ELSE open_file_table[g].of_offset
      BY <1>0, <3>2 DEF TypeOK
    <3>6. SUFFICES ASSUME NEW g \in takenHandles
                   PROVE  LET f == open_file_table'[g]
                          IN  f.of_inumber \in Files /\ f.of_offset <= inode_table'[f.of_inumber].i_size
      BY <3>2 DEF HandlesWithinFiles
    <3>7. open_file_table[g].of_inumber \in Files /\ g \in Handles
      BY <1>0 DEF HandlesWithinFiles, TypeOK
    <3>8. open_file_table[g].of_offset <= inode_table[open_file_table[g].of_inumber].i_size
      BY DEF HandlesWithinFiles
    <3> QED
      BY <1>0, <3>1, <3>3, <3>4, <3>5, <3>7, <3>8
  <2> QED
    BY <1>3, <2>2, <2>3 DEF AnyWrite
<1>4. ASSUME NEW h \in Handles, NEW len \in 0 .. BLOCK_SIZE + 1, AnyRead(h, len)
      PROVE  HandlesWithinFiles'
  <2> DEFINE n == ReadLength(open_file_table[h], len)
             inode == inode_table[open_file_table[h].of_inumber]
             left == inode.i_size - open_file_table[h].of_offset
  <2>1. /\ open_file_table' = [open_file_table EXCEPT ![h].of_offset = @ + n]
        /\ UNCHANGED <<inode_table, takenHandles>>
        /\ Files' = Files
    BY <1>4 DEF AnyRead, Files
  <2>2. h \in takenHandles => n <= left
    <3>1. SUFFICES ASSUME h \in takenHandles PROVE n <= left
      OBVIOUS
    <3>2. open_file_table[h].of_inumber \in Inumbers /\ open_file_table[h].of_offset <= inode.i_size
      BY <1>0, <3>1 DEF HandlesWithinFiles
    <3>3. left \in 0 .. SizeModulus - 1 /\ SizeModulus \in Nat \ {0} /\ left \in Int
      <4> DEFINE off == open_file_table[h].of_offset
                 size == inode.i_size
      <4>1. size \in 0 .. BLOCK_SIZE /\ off \in Nat /\ off <= size
        BY <1>0, <3>2 DEF TypeOK
      <4>2. left = size - off
        OBVIOUS
      <4> HIDE DEF off, size, left
      <4> QED
        BY <4>1, <4>2, StateAssumption
    <3> HIDE DEF left
    <3>4. left % SizeModulus = left
      BY <3>3, Difference
    <3> QED
      BY <3>3, <3>4 DEF ReadLength, left
  <2>3. n \in Nat
    BY <1>4 DEF AnyRead
  <2> HIDE DEF n
  <2>4. \A g \in takenHandles :
          /\ open_file_table'[g].of_inumber = open_file_table[g].of_inumber
          /\ open_file_table'[g].of_offset = IF g = h THEN open_file_table[g].of_offset + n
                                             ELSE open_file_table[g].of_offset
    BY <1>0, <2>1 DEF TypeOK
  <2>5. SUFFICES ASSUME NEW g \in takenHandles
                 PROVE  LET f == open_file_table'[g]
                        IN  f.of_inumber \in Files /\ f.of_offset <= inode_table[f.of_inumber].i_size
    BY <2>1 DEF HandlesWithinFiles
  <2>6. /\ open_file_table[g].of_inumber \in Files /\ g \in Handles
        /\ open_file_table[g].of_offset <= inode_table[open_file_table[g].of_inumber].i_size
    BY <1>0 DEF HandlesWithinFiles, TypeOK
  <2> QED
    BY <1>0, <2>2, <2>3, <2>4, <2>6
<1>5. CASE tfs_init
  BY <1>5 DEF tfs_init, HandlesWithinFiles
<1>6. ASSUME takenHandles' \subseteq takenHandles, UNCHANGED <<inode_table, takenInodes, open_file_table>>
      PROVE  HandlesWithinFiles'
  BY <1>6 DEF HandlesWithinFiles, Files
<1>7. ASSUME UNCHANGED store \/ \E h \in Handles \cup {-1} : tfs_close(h) PROVE HandlesWithinFiles'
  BY <1>6, <1>7 DEF store, tfs_close
<1> QED
  BY <1>0, <1>1, <1>2, <1>3, <1>4, <1>5, <1>7, StepCases

\* So it does for as long as open files are not truncated.
LEMMA HandlesInvariant == ASSUME ~SharedTruncate PROVE Spec => [](StateInv /\ HandlesWithinFiles)
<1>1. Init => HandlesWithinFiles
  BY DEF Init, HandlesWithinFiles
<1>2. StateInv /\ HandlesWithinFiles /\ [Next]_vars => HandlesWithinFiles'
  BY HandlesNext DEF StateInv
<1> QED
  BY <1>1, <1>2, StateInvariant, PTL DEF Spec

\* If no file is truncated while it is open, no open handle ever stands beyond
\* the end of its file, also when closed handles are used (operations.c:169 and
\* 218).
THEOREM HandlesCorrect == ASSUME ~SharedTruncate PROVE Spec => []HandlesWithinFiles
BY HandlesInvariant, PTL

-----------------------------------------------------------------------------
(* The refinement of FileService. *)

\* A function on 1 .. m is a sequence.
LEMMA FcnIsSeq ==
    ASSUME NEW V, NEW m \in Nat, NEW f \in [1 .. m -> V]
    PROVE  f \in Seq(V) /\ Len(f) = m
<1>1. f \in Seq(V)
  BY SeqDef
<1> QED
  BY <1>1, LenProperties

\* Bytes of different blocks are different.
LEMMA BlocksApart ==
    ASSUME NEW b \in Nat, NEW c \in Nat, b # c,
           NEW x \in 0 .. BLOCK_SIZE - 1, NEW y \in 0 .. BLOCK_SIZE - 1
    PROVE  b * BLOCK_SIZE + x # c * BLOCK_SIZE + y
<1>0. BLOCK_SIZE \in Nat
  BY StateAssumption
<1>1. ASSUME NEW d \in Nat, NEW e \in Nat, d < e PROVE d * BLOCK_SIZE + BLOCK_SIZE <= e * BLOCK_SIZE
  <2>1. PICK k \in Nat : e = d + 1 + k
    <3>1. e - d - 1 \in Nat /\ e = d + 1 + (e - d - 1)
      BY <1>1
    <3> QED
      BY <3>1
  <2>2. e * BLOCK_SIZE = d * BLOCK_SIZE + BLOCK_SIZE + k * BLOCK_SIZE
    BY <1>0, <2>1
  <2>3. k * BLOCK_SIZE \in Nat /\ d * BLOCK_SIZE \in Nat
    BY <1>0
  <2> QED
    BY <1>0, <2>2, <2>3
<1>2. b * BLOCK_SIZE \in Nat /\ c * BLOCK_SIZE \in Nat
  BY <1>0
<1>3. CASE b < c
  BY <1>0, <1>1, <1>2, <1>3
<1>4. CASE c < b
  BY <1>0, <1>1, <1>2, <1>4
<1> QED
  BY <1>3, <1>4

\* A byte of a block is a byte of the disk.
LEMMA BlockAddress ==
    ASSUME NEW b \in Blocks, NEW x \in 0 .. BLOCK_SIZE - 1
    PROVE  b * BLOCK_SIZE + x \in Addresses
<1>0. BLOCK_SIZE \in Nat /\ DATA_BLOCKS \in Nat /\ b \in Nat /\ b < DATA_BLOCKS
  BY StateAssumption DEF Blocks
<1>1. PICK k \in Nat : DATA_BLOCKS = b + 1 + k
  <2>1. DATA_BLOCKS - b - 1 \in Nat /\ DATA_BLOCKS = b + 1 + (DATA_BLOCKS - b - 1)
    BY <1>0
  <2> QED
    BY <2>1
<1>2. DATA_BLOCKS * BLOCK_SIZE = b * BLOCK_SIZE + BLOCK_SIZE + k * BLOCK_SIZE
  BY <1>0, <1>1
<1>3. k * BLOCK_SIZE \in Nat /\ b * BLOCK_SIZE \in Nat /\ DATA_BLOCKS * BLOCK_SIZE \in Nat
  BY <1>0
<1> QED
  BY <1>0, <1>2, <1>3 DEF Addresses

\* What a copy into a block does to the bytes of this and other blocks.
LEMMA CopiedBytes ==
    ASSUME NEW block \in Blocks, NEW off \in Nat, NEW n \in Nat, NEW data,
           off + n <= BLOCK_SIZE, fs_data' = Copied(block, off, data, n),
           NEW c \in Blocks, NEW x \in 0 .. BLOCK_SIZE - 1
    PROVE  fs_data'[c * BLOCK_SIZE + x] =
             IF c = block /\ x \in off .. off + n - 1 THEN data[x - off + 1]
             ELSE fs_data[c * BLOCK_SIZE + x]
<1> DEFINE start == block * BLOCK_SIZE
           first == start + off
           a == c * BLOCK_SIZE + x
<1>1. /\ BLOCK_SIZE \in Nat /\ block \in Nat /\ c \in Nat /\ x \in Nat
      /\ start \in Nat
  BY StateAssumption DEF Blocks
<1>2. a \in Addresses /\ a \in Nat
  BY BlockAddress DEF Addresses
<1>3. fs_data'[a] = IF a \in first .. first + n - 1 THEN data[a - first + 1] ELSE fs_data[a]
  BY <1>2 DEF Copied
<1>4. CASE c = block
  <2>1. a = start + x
    BY <1>4
  <2> HIDE DEF start, a
  <2>2. a - first = x - off /\ (a \in first .. first + n - 1 <=> x \in off .. off + n - 1)
    BY <1>1, <2>1
  <2> HIDE DEF first
  <2>3. fs_data'[a] = IF x \in off .. off + n - 1 THEN data[x - off + 1] ELSE fs_data[a]
    BY <1>3, <2>2
  <2> QED
    BY <1>4, <2>3 DEF a
<1>5. CASE c # block
  <2>1. \A y \in 0 .. BLOCK_SIZE - 1 : a # start + y
    BY <1>1, <1>5, BlocksApart
  <2> HIDE DEF start, a
  <2>2. a \notin first .. first + n - 1
    <3>1. SUFFICES ASSUME a \in first .. first + n - 1 PROVE FALSE
      OBVIOUS
    <3>2. a - start \in 0 .. BLOCK_SIZE - 1 /\ a = start + (a - start)
      BY <1>1, <1>2, <3>1
    <3> QED
      BY <2>1, <3>2
  <2> HIDE DEF first
  <2>3. fs_data'[a] = fs_data[a]
    BY <1>3, <2>2
  <2> QED
    BY <1>5, <2>3 DEF a
<1> QED
  BY <1>4, <1>5

\* What is left of a sequence from a place on.
LEMMA Suffix ==
    ASSUME NEW old \in Seq(Nat), NEW start \in Nat \ {0}
    PROVE  LET rest == SubSeq(old, start, Len(old))
           IN  /\ rest \in Seq(Nat)
               /\ Len(rest) = IF start <= Len(old) THEN Len(old) - start + 1 ELSE 0
               /\ \A i \in 1 .. Len(old) - start + 1 : rest[i] = old[start + i - 1]
<1>1. \A i \in start .. Len(old) : old[i] \in Nat
  BY ElementOfSeq, LenProperties
<1>2. Len(old) \in Int
  BY LenProperties
<1> QED
  BY <1>1, <1>2, SubSeqProperties

\* What writing a piece over a sequence gives.
LEMMA Overwrite ==
    ASSUME NEW old \in Seq(Nat), NEW new \in Seq(Nat), NEW off \in 0 .. Len(old)
    PROVE  LET result == SubSeq(old, 1, off) \o new \o SubSeq(old, off + Len(new) + 1, Len(old))
           IN  /\ result \in Seq(Nat)
               /\ Len(result) = IF off + Len(new) > Len(old) THEN off + Len(new) ELSE Len(old)
               /\ \A k \in 1 .. Len(result) :
                    result[k] = IF k \in off + 1 .. off + Len(new) THEN new[k - off] ELSE old[k]
<1> DEFINE head == SubSeq(old, 1, off)
           n == Len(new)
           m == Len(old)
           tail == SubSeq(old, off + n + 1, m)
           t == Len(tail)
           front == head \o new
           result == front \o tail
<1>0. m \in Nat /\ n \in Nat /\ off \in Nat /\ off <= m
  BY LenProperties
<1>1. head \in Seq(Nat) /\ Len(head) = off /\ \A i \in 1 .. off : head[i] = old[i]
  <2>1. \A i \in 1 .. off : old[i] \in Nat
    BY <1>0, ElementOfSeq
  <2> QED
    BY <1>0, <2>1, SubSeqProperties
<1>2. /\ tail \in Seq(Nat)
      /\ t = IF off + n + 1 <= m THEN m - (off + n) ELSE 0
      /\ \A i \in 1 .. m - (off + n) : tail[i] = old[off + n + i]
  <2> DEFINE start == off + n + 1
  <2>1. start \in Nat \ {0}
    BY <1>0
  <2> HIDE DEF start
  <2>2. LET rest == SubSeq(old, start, Len(old))
        IN  /\ rest \in Seq(Nat)
            /\ Len(rest) = IF start <= Len(old) THEN Len(old) - start + 1 ELSE 0
            /\ \A i \in 1 .. Len(old) - start + 1 : rest[i] = old[start + i - 1]
    BY <2>1, Suffix
  <2>3. /\ tail \in Seq(Nat)
        /\ t = IF start <= m THEN m - start + 1 ELSE 0
        /\ \A i \in 1 .. m - start + 1 : tail[i] = old[start + i - 1]
    BY <2>2 DEF start
  <2> USE DEF start
  <2> HIDE DEF t, tail, m, n
  <2>4. t = IF off + n + 1 <= m THEN m - (off + n) ELSE 0
    BY <1>0, <2>3
  <2>5. ASSUME NEW i \in 1 .. m - (off + n) PROVE tail[i] = old[off + n + i]
    <3>1. i \in 1 .. m - (off + n + 1) + 1 /\ off + n + 1 + i - 1 = off + n + i
      BY <1>0
    <3> QED
      BY <2>3, <3>1
  <2> QED
    BY <2>3, <2>4, <2>5
<1> HIDE DEF head, tail
<1>3. /\ front \in Seq(Nat) /\ Len(front) = Len(head) + n
      /\ \A k \in 1 .. Len(head) + n : front[k] = IF k <= Len(head) THEN head[k] ELSE new[k - Len(head)]
  BY <1>1, ConcatProperties
<1> HIDE DEF front
<1>4. /\ result \in Seq(Nat) /\ Len(result) = Len(front) + t
      /\ \A k \in 1 .. Len(front) + t : result[k] =
           IF k <= Len(front) THEN front[k] ELSE tail[k - Len(front)]
  <2>1. front \in Seq(Nat) /\ tail \in Seq(Nat)
    BY <1>2, <1>3
  <2> QED
    BY <2>1, ConcatProperties
<1> HIDE DEF result, t, m, n
<1>5. Len(result) = IF off + n > m THEN off + n ELSE m
  BY <1>0, <1>1, <1>2, <1>3, <1>4
<1>6. ASSUME NEW k \in 1 .. Len(result)
      PROVE  result[k] = IF k \in off + 1 .. off + n THEN new[k - off] ELSE old[k]
  <2>0. k \in Nat /\ k >= 1 /\ Len(front) = off + n /\ Len(result) = off + n + t
    BY <1>0, <1>1, <1>2, <1>3, <1>4, <1>5
  <2>1. CASE k <= off + n
    <3>1. k \in 1 .. Len(front) + t /\ k <= Len(front) /\ k \in 1 .. Len(head) + n
      BY <1>0, <1>1, <1>2, <2>0, <2>1
    <3>2. result[k] = front[k]
      BY <1>4, <3>1
    <3>3. front[k] = IF k <= off THEN head[k] ELSE new[k - off]
      BY <1>1, <1>3, <3>1
    <3>4. k <= off => head[k] = old[k]
      BY <1>0, <1>1, <2>0
    <3>5. k <= off <=> k \notin off + 1 .. off + n
      BY <1>0, <2>0, <2>1
    <3> QED
      BY <3>2, <3>3, <3>4, <3>5
  <2>2. CASE k > off + n
    <3>1. k - (off + n) \in 1 .. m - (off + n) /\ off + n + (k - (off + n)) = k
      BY <1>0, <1>2, <1>5, <2>0, <2>2
    <3>2. tail[k - (off + n)] = old[k]
      BY <1>2, <3>1
    <3>3. result[k] = tail[k - (off + n)]
      <4>1. k \in 1 .. Len(front) + t /\ ~(k <= Len(front))
        BY <1>0, <1>2, <2>0, <2>2
      <4> QED
        BY <1>4, <2>0, <4>1
    <3> QED
      BY <1>0, <2>0, <2>2, <3>2, <3>3
  <2> QED
    BY <1>0, <2>0, <2>1, <2>2
<1> QED
  BY <1>4, <1>5, <1>6 DEF head, tail, front, result, m, n

-----------------------------------------------------------------------------
\* What the refinement rests on.
RefInv == StateInv /\ HandlesWithinFiles /\ NamesUnique

\* The directory read both ways, and what the files hold.
NameMap == [i \in Files |-> NameOf(i)]
FileAt == [n \in FileNames |-> find_in_dir(n)]
ContentMap == [i \in Files |-> ContentOf(i)]

MapFacts ==
    /\ NameMap \in [Files -> FileNames]
    /\ FileAt \in [FileNames -> Files]
    /\ \A i \in Files : FileAt[NameMap[i]] = i
    /\ \A n \in FileNames : NameMap[FileAt[n]] = n
    /\ \A e \in UsedEntries : NameMap[dir_entry[e].d_inumber] = dir_entry[e].d_name
    /\ \A i \in Files : ContentMap[i] \in Seq(Nat) /\ Len(ContentMap[i]) = inode_table[i].i_size
    /\ FileMap = [n \in FileNames |-> ContentMap[FileAt[n]]]
    /\ OpenMap = [h \in takenHandles |->
                    [name |-> NameMap[open_file_table[h].of_inumber],
                     offset |-> open_file_table[h].of_offset]]

\* An entry of the directory names one file, and is found by that name.
LEMMA EntryNames ==
    ASSUME DirectoryConsistent, NamesUnique, NEW e \in UsedEntries
    PROVE  /\ NameOf(dir_entry[e].d_inumber) = dir_entry[e].d_name
           /\ find_in_dir(dir_entry[e].d_name) = dir_entry[e].d_inumber
<1> DEFINE i == dir_entry[e].d_inumber
           n == dir_entry[e].d_name
           found == {d \in Entries : dir_entry[d].d_inumber # -1 /\ dir_entry[d].d_name = n}
<1>1. \A d \in UsedEntries : dir_entry[d].d_inumber = i <=> d = e
  BY DEF DirectoryConsistent
<1>2. (CHOOSE d \in UsedEntries : dir_entry[d].d_inumber = i) = e
  BY <1>1
<1>3. found = {e}
  BY DEF NamesUnique, UsedEntries
<1>4. Lowest(found) = e
  <2>1. found \subseteq Nat /\ found # {}
    BY <1>3 DEF Entries
  <2> QED
    BY <1>3, <2>1, LowestWorks
<1> QED
  BY <1>2, <1>3, <1>4 DEF NameOf, find_in_dir

\* The content of a file is a sequence of bytes as long as its size.
LEMMA ContentIsSeq ==
    ASSUME TypeInv, BlocksAccounted, NEW i \in Files
    PROVE  ContentOf(i) \in Seq(Nat) /\ Len(ContentOf(i)) = inode_table[i].i_size
<1> DEFINE size == inode_table[i].i_size
           block == inode_table[i].i_data_block
<1>1. /\ BLOCK_SIZE \in Nat /\ i \in Inumbers
      /\ size \in 0 .. BLOCK_SIZE /\ fs_data \in [Addresses -> Nat]
  BY StateAssumption DEF TypeInv, TypeOK, Files
<1>2. ASSUME NEW k \in 1 .. size PROVE fs_data[block * BLOCK_SIZE + k - 1] \in Nat
  <2>1. block \in Blocks
    BY <1>1, <1>2 DEF BlocksAccounted, NonEmpty, TypeInv, TypeOK
  <2>2. k - 1 \in 0 .. BLOCK_SIZE - 1
    BY <1>1
  <2>3. block * BLOCK_SIZE + (k - 1) \in Addresses
    BY <2>1, <2>2, BlockAddress
  <2>4. block * BLOCK_SIZE \in Int
    BY <1>1, <2>1 DEF Blocks
  <2>5. block * BLOCK_SIZE + (k - 1) = block * BLOCK_SIZE + k - 1
    BY <1>1, <2>4
  <2> QED
    BY <1>1, <2>3, <2>5
<1>3. ContentOf(i) = [k \in 1 .. size |-> fs_data[block * BLOCK_SIZE + k - 1]]
  BY DEF ContentOf
<1> HIDE DEF size, block
<1>4. ContentOf(i) \in [1 .. size -> Nat] /\ size \in Nat
  BY <1>1, <1>2, <1>3
<1> QED
  BY <1>4, FcnIsSeq DEF size

\* FileMap and OpenMap, seen entry by entry and handle by handle.
LEMMA MapFactsHold == RefInv => MapFacts
<1> SUFFICES ASSUME RefInv PROVE MapFacts
  OBVIOUS
<1>0. TypeInv /\ DirectoryConsistent /\ OpenFilesExist /\ BlocksAccounted /\ NamesUnique
  BY DEF RefInv, StateInv
<1>1. ASSUME NEW i \in Files
      PROVE  \E e \in UsedEntries : /\ dir_entry[e].d_inumber = i
                                    /\ NameOf(i) = dir_entry[e].d_name
                                    /\ find_in_dir(NameOf(i)) = i
                                    /\ NameOf(i) \in FileNames
  <2>1. PICK e \in UsedEntries : dir_entry[e].d_inumber = i
    BY <1>0 DEF DirectoryConsistent
  <2> QED
    BY <1>0, <2>1, EntryNames DEF FileNames
<1>2. ASSUME NEW n \in FileNames
      PROVE  find_in_dir(n) \in Files /\ NameOf(find_in_dir(n)) = n
  <2>1. PICK e \in UsedEntries : dir_entry[e].d_name = n
    BY DEF FileNames
  <2>2. dir_entry[e].d_inumber \in Files
    BY <1>0 DEF DirectoryConsistent
  <2> QED
    BY <1>0, <2>1, <2>2, EntryNames
<1>3. \A i \in Files : NameMap[i] = NameOf(i) /\ NameMap[i] \in FileNames
  BY <1>1 DEF NameMap
<1>4. \A n \in FileNames : FileAt[n] = find_in_dir(n) /\ FileAt[n] \in Files
  BY <1>2 DEF FileAt
<1>5. NameMap \in [Files -> FileNames] /\ FileAt \in [FileNames -> Files]
  BY <1>1, <1>2 DEF NameMap, FileAt
<1>6. \A i \in Files : FileAt[NameMap[i]] = i
  BY <1>1, <1>3, <1>4
<1>7. \A n \in FileNames : NameMap[FileAt[n]] = n
  BY <1>2, <1>3, <1>4
<1>8. \A i \in Files : ContentMap[i] = ContentOf(i)
  BY DEF ContentMap
<1>9. FileMap = [n \in FileNames |-> ContentMap[FileAt[n]]]
  BY <1>4, <1>8 DEF FileMap
<1>10. OpenMap = [h \in takenHandles |->
                    [name |-> NameMap[open_file_table[h].of_inumber],
                     offset |-> open_file_table[h].of_offset]]
  BY <1>0, <1>3 DEF OpenMap, OpenFilesExist
<1>11. \A i \in Files : ContentMap[i] \in Seq(Nat) /\ Len(ContentMap[i]) = inode_table[i].i_size
  BY <1>0, <1>8, ContentIsSeq
<1>12. \A e \in UsedEntries : NameMap[dir_entry[e].d_inumber] = dir_entry[e].d_name
  BY <1>0, <1>3, EntryNames DEF DirectoryConsistent
<1> QED
  BY <1>5, <1>6, <1>7, <1>9, <1>10, <1>11, <1>12 DEF MapFacts

\* The same in the next state.
LEMMA MapFactsNext == RefInv' => MapFacts'
BY MapFactsHold, PTL

\* A step that leaves the directory alone leaves the names as they are.
LEMMA DirectoryKept ==
    ASSUME UNCHANGED <<dir_entry, takenInodes>>
    PROVE  UNCHANGED <<Files, FileNames, NameMap, FileAt>>
BY DEF Files, FileNames, NameMap, FileAt, NameOf, find_in_dir, UsedEntries

\* Files whose i-nodes and blocks a step leaves alone keep their content.
LEMMA ContentKept ==
    ASSUME NEW i \in Files, i \in Files',
           inode_table'[i].i_size = inode_table[i].i_size,
           \/ inode_table[i].i_size = 0
           \/ /\ inode_table'[i].i_data_block = inode_table[i].i_data_block
              /\ UNCHANGED fs_data
    PROVE  ContentMap'[i] = ContentMap[i]
<1>1. ContentMap[i] = ContentOf(i)
  BY DEF ContentMap
<1>2. ContentMap'[i] = ContentOf(i)'
  BY DEF ContentMap
<1>3. CASE inode_table[i].i_size = 0
  BY <1>1, <1>2, <1>3 DEF ContentOf
<1>4. CASE /\ inode_table'[i].i_data_block = inode_table[i].i_data_block
           /\ UNCHANGED fs_data
  BY <1>1, <1>2, <1>4 DEF ContentOf
<1> QED
  BY <1>3, <1>4

\* What a step does to one file is what the map from names to contents shows.
LEMMA OneFile ==
    ASSUME MapFacts, MapFacts', UNCHANGED <<dir_entry, takenInodes>>, NEW i \in Files,
           \A j \in Files \ {i} : ContentMap'[j] = ContentMap[j]
    PROVE  /\ NameMap[i] \in DOMAIN FileMap /\ FileMap[NameMap[i]] = ContentMap[i]
           /\ FileMap' = [FileMap EXCEPT ![NameMap[i]] = ContentMap'[i]]
           /\ ContentMap'[i] = ContentMap[i] => FileMap' = FileMap
<1>1. UNCHANGED <<Files, FileNames, NameMap, FileAt>>
  BY DirectoryKept
<1>2. /\ FileMap = [n \in FileNames |-> ContentMap[FileAt[n]]]
      /\ FileMap' = [n \in FileNames |-> ContentMap'[FileAt[n]]]
  BY <1>1 DEF MapFacts
<1>3. NameMap[i] \in FileNames /\ FileAt[NameMap[i]] = i
  BY DEF MapFacts
<1>4. \A n \in FileNames : n # NameMap[i] => FileAt[n] \in Files \ {i}
  BY DEF MapFacts
<1>5. \A n \in FileNames : ContentMap'[FileAt[n]] =
        IF n = NameMap[i] THEN ContentMap'[i] ELSE ContentMap[FileAt[n]]
  BY <1>3, <1>4
<1> QED
  BY <1>2, <1>3, <1>5

\* A step that touches no file leaves FileMap as it was.
LEMMA NoFile ==
    ASSUME MapFacts, MapFacts', UNCHANGED <<dir_entry, takenInodes>>,
           \A j \in Files : ContentMap'[j] = ContentMap[j]
    PROVE  FileMap' = FileMap
<1>1. UNCHANGED <<Files, FileNames, NameMap, FileAt>>
  BY DirectoryKept
<1> QED
  BY <1>1 DEF MapFacts

\* A step that touches no handle leaves OpenMap as it was.
LEMMA NoHandle ==
    ASSUME UNCHANGED <<dir_entry, takenInodes, takenHandles, open_file_table>>, MapFacts, MapFacts'
    PROVE  OpenMap' = OpenMap
BY DirectoryKept DEF MapFacts

\* The new handle is the service's new handle; without one, -1 is returned and
\* no handle changes.
LEMMA ServiceHandle ==
    ASSUME MapFacts, MapFacts', OpenFilesExist, TypeOK, NEW i, NEW offset,
           add_to_open_file_table(i, offset),
           \A j \in Files : NameMap'[j] = NameMap[j]
    PROVE  \/ ret' = [val |-> -1, data |-> <<>>] /\ OpenMap' = OpenMap
           \/ \E h \in Handles :
                /\ ret' = [val |-> h, data |-> <<>>]
                /\ h \notin DOMAIN OpenMap
                /\ OpenMap' = Service!Put(OpenMap, h, [name |-> NameMap'[i], offset |-> offset])
<1> DEFINE h == FirstFree(MAX_OPEN_FILES, takenHandles)
           Shown(H, T, N) == [g \in H |-> [name |-> N[T[g].of_inumber], offset |-> T[g].of_offset]]
<1>0. /\ OpenMap = Shown(takenHandles, open_file_table, NameMap)
      /\ OpenMap' = Shown(takenHandles', open_file_table', NameMap')
  BY DEF MapFacts
<1>1. h = -1 \/ h \in Handles \ takenHandles
  BY FirstFreeWorks, StateAssumption DEF Handles
<1>2. \A g \in takenHandles : /\ open_file_table[g].of_inumber \in Files
                              /\ g \in Handles
  BY DEF OpenFilesExist, TypeOK
<1> HIDE DEF h
<1>3. CASE h = -1
  BY <1>0, <1>2, <1>3 DEF add_to_open_file_table, Reply, h
<1>4. CASE h # -1
  <2>1. /\ takenHandles' = takenHandles \cup {h}
        /\ open_file_table' = [open_file_table EXCEPT ![h] = [of_inumber |-> i, of_offset |-> offset]]
        /\ ret' = [val |-> h, data |-> <<>>]
    BY <1>4 DEF add_to_open_file_table, Reply, h
  <2>2. /\ open_file_table'[h] = [of_inumber |-> i, of_offset |-> offset]
        /\ \A g \in takenHandles : open_file_table'[g] = open_file_table[g] /\ g # h
    BY <1>1, <1>2, <1>4, <2>1 DEF TypeOK
  <2>3. DOMAIN OpenMap = takenHandles
    BY <1>0
  <2>4. \A g \in takenHandles : OpenMap[g] =
          [name |-> NameMap'[open_file_table'[g].of_inumber], offset |-> open_file_table'[g].of_offset]
    BY <1>0, <1>2, <2>2
  <2>5. OpenMap' = Service!Put(OpenMap, h, [name |-> NameMap'[i], offset |-> offset])
    BY <1>0, <2>1, <2>2, <2>3, <2>4 DEF Service!Put
  <2> QED
    BY <1>1, <1>4, <2>1, <2>3, <2>5
<1> QED
  BY <1>3, <1>4

\* A sequence without elements.
LEMMA EmptyContent ==
    ASSUME NEW q \in Seq(Nat), Len(q) = 0
    PROVE  q = <<>>
BY EmptySeq

\* The file a lookup finds is that of its name.
LEMMA LookupName ==
    ASSUME DirectoryConsistent, NamesUnique, NEW p \in Paths, lookup(p) # -1
    PROVE  lookup(p) \in Files /\ NameMap[lookup(p)] = p.name /\ p.name \in Names
<1>1. PICK e \in UsedEntries :
        valid_pathname(p) /\ dir_entry[e].d_name = p.name /\ dir_entry[e].d_inumber = lookup(p)
  BY LookupFinds
<1>2. NameOf(lookup(p)) = p.name
  BY <1>1, EntryNames
<1>3. lookup(p) \in Files
  BY LookupFile
<1>4. p.name \in Names
  BY <1>1, StateAssumption DEF valid_pathname
<1> QED
  BY <1>2, <1>3, <1>4 DEF NameMap

\* Opening a file that exists opens the service's file of that name.
LEMMA OpenRefines ==
    ASSUME RefInv, RefInv', NEW p \in Paths, NEW flags \in Flags,
           lookup(p) # -1, OpenExisting(lookup(p), flags)
    PROVE  Service!Open(p.name, flags) \/ Service!OpenFails(p.name, flags)
<1> DEFINE i == lookup(p)
           n == p.name
           size == IF "TFS_O_TRUNC" \in flags THEN 0 ELSE inode_table[i].i_size
           offset == IF "TFS_O_APPEND" \in flags THEN size ELSE 0
<1>0. /\ MapFacts /\ MapFacts' /\ TypeOK /\ DirectoryConsistent /\ NamesUnique
      /\ OpenFilesExist
  BY MapFactsHold, MapFactsNext DEF RefInv, StateInv, TypeInv
<1>1. i \in Files /\ NameMap[i] = n /\ n \in Names
  BY <1>0, LookupName
<1> HIDE DEF i
<1>2. /\ inode_table' = [inode_table EXCEPT ![i].i_size = size]
      /\ add_to_open_file_table(i, offset)
      /\ UNCHANGED <<takenInodes, dir_entry, fs_data>>
  BY DEF OpenExisting, i
<1>3. UNCHANGED <<Files, NameMap>>
  BY <1>2, DirectoryKept
<1>4. i \in Inumbers /\ Files \subseteq Inumbers
  BY <1>0, <1>1 DEF Files, TypeOK
<1>5. \A j \in Files \ {i} : ContentMap'[j] = ContentMap[j]
  BY <1>0, <1>2, <1>3, <1>4, ContentKept DEF TypeOK
<1>6. /\ n \in DOMAIN FileMap /\ FileMap[n] = ContentMap[i]
      /\ FileMap' = [FileMap EXCEPT ![n] = ContentMap'[i]]
      /\ ContentMap'[i] = ContentMap[i] => FileMap' = FileMap
  BY <1>0, <1>1, <1>2, <1>5, OneFile
<1>7. /\ ContentMap[i] \in Seq(Nat) /\ Len(ContentMap[i]) = inode_table[i].i_size
      /\ ContentMap'[i] \in Seq(Nat) /\ Len(ContentMap'[i]) = inode_table'[i].i_size
  BY <1>0, <1>1, <1>3 DEF MapFacts
<1>8. inode_table'[i].i_size = size /\ inode_table'[i].i_data_block = inode_table[i].i_data_block
  BY <1>0, <1>2, <1>4 DEF TypeOK
<1> DEFINE content == IF "TFS_O_TRUNC" \in flags THEN <<>> ELSE FileMap[n]
<1>9. ContentMap'[i] = content /\ Len(content) = size
  <2>1. CASE "TFS_O_TRUNC" \in flags
    BY <1>7, <1>8, <2>1, EmptyContent
  <2>2. CASE "TFS_O_TRUNC" \notin flags
    BY <1>1, <1>2, <1>3, <1>6, <1>7, <1>8, <2>2, ContentKept
  <2> QED
    BY <2>1, <2>2
<1>10. FileMap' = Service!Put(FileMap, n, content)
  <2>1. FileMap' = [z \in DOMAIN FileMap |-> IF z = n THEN content ELSE FileMap[z]]
    BY <1>6, <1>9
  <2> QED
    BY <1>6, <2>1 DEF Service!Put
<1>11. \A j \in Files : NameMap'[j] = NameMap[j]
  BY <1>3
<1>12. \/ ret' = [val |-> -1, data |-> <<>>] /\ OpenMap' = OpenMap
       \/ \E h \in Handles :
            /\ ret' = [val |-> h, data |-> <<>>]
            /\ h \notin DOMAIN OpenMap
            /\ OpenMap' = Service!Put(OpenMap, h, [name |-> NameMap'[i], offset |-> offset])
  BY <1>0, <1>2, <1>11, ServiceHandle
<1>13. CASE ret' = [val |-> -1, data |-> <<>>] /\ OpenMap' = OpenMap
  <2>1. FileMap' = FileMap \/ ("TFS_O_TRUNC" \in flags /\ FileMap' = [FileMap EXCEPT ![n] = <<>>])
    BY <1>6, <1>9
  <2> QED
    BY <1>6, <1>13, <2>1 DEF Service!OpenFails, Service!Returns
<1>14. ASSUME NEW h \in Handles,
              ret' = [val |-> h, data |-> <<>>],
              h \notin DOMAIN OpenMap,
              OpenMap' = Service!Put(OpenMap, h, [name |-> NameMap'[i], offset |-> offset])
       PROVE  Service!Open(n, flags)
  <2>1. OpenMap' = Service!Put(OpenMap, h,
          [name |-> n, offset |-> IF "TFS_O_APPEND" \in flags THEN Len(content) ELSE 0])
    BY <1>1, <1>3, <1>9, <1>14
  <2>2. content = IF n \in DOMAIN FileMap /\ "TFS_O_TRUNC" \notin flags THEN FileMap[n] ELSE <<>>
    BY <1>6
  <2> HIDE DEF content
  <2> QED
    BY <1>6, <1>10, <1>14, <2>1, <2>2 DEF Service!Open, Service!Returns
<1> QED
  BY <1>12, <1>13, <1>14

\* The map without names is the empty sequence.
LEMMA NoElements == ASSUME NEW f, NEW S, S = {}, DOMAIN f = S, f = [x \in S |-> f[x]] PROVE f = <<>>
<1>1. f \in [1 .. 0 -> Nat]
  OBVIOUS
<1>2. f \in Seq(Nat) /\ Len(f) = 0
  BY <1>1, FcnIsSeq
<1> QED
  BY <1>2, EmptySeq

\* Creating a file creates the service's file of that name, empty.
LEMMA CreateRefines ==
    ASSUME PlainNames, RefInv, RefInv', NEW p \in Paths, NEW flags \in Flags,
           "TFS_O_CREAT" \in flags, lookup(p) = -1, NEW i,
           i = FirstFree(INODE_TABLE_SIZE, takenInodes), i # -1, Creates(p.name, i)
    PROVE  Service!Open(p.name, flags) \/ Service!OpenFails(p.name, flags)
<1> DEFINE n == p.name
           e == FreeEntry(n)
<1>0. /\ MapFacts /\ MapFacts' /\ TypeOK /\ DirectoryConsistent /\ NamesUnique
      /\ OpenFilesExist /\ DirectoryConsistent' /\ NamesUnique'
  BY MapFactsHold, MapFactsNext DEF RefInv, StateInv, TypeInv
<1>1. i \in Inumbers \ takenInodes /\ i # ROOT_DIR_INUM
  BY <1>0, FirstFreeWorks, StateAssumption DEF Inumbers, TypeOK
<1>2. e \in Entries \ UsedEntries /\ n \in Names /\ valid_pathname(p)
  <2>1. e \in Entries \ UsedEntries /\ n \in Names
    BY FreeEntryWorks, StateAssumption DEF Creates
  <2> QED
    BY <2>1, StateAssumption DEF valid_pathname, PlainNames
<1>3. n \notin FileNames
  BY <1>2, LookupComplete DEF FileNames
<1>4. /\ inode_table' = [inode_table EXCEPT ![i] = FileInode]
      /\ takenInodes' = takenInodes \cup {i}
      /\ dir_entry' = [dir_entry EXCEPT ![e] = [d_inumber |-> i, d_name |-> n]]
      /\ add_to_open_file_table(i, 0)
      /\ UNCHANGED fs_data
  BY <1>2 DEF Creates, PlainNames
<1> HIDE DEF e
<1>5. Files' = Files \cup {i} /\ i \notin Files /\ Files \subseteq Inumbers
  BY <1>0, <1>1, <1>4 DEF Files, TypeOK
<1>6. /\ UsedEntries' = UsedEntries \cup {e}
      /\ \A d \in UsedEntries : dir_entry'[d] = dir_entry[d]
      /\ dir_entry'[e] = [d_inumber |-> i, d_name |-> n]
  <2>1. i # -1
    OBVIOUS
  <2> QED
    BY <1>0, <1>2, <1>4, <2>1 DEF UsedEntries, TypeOK
<1>7. FileNames' = FileNames \cup {n}
  BY <1>6 DEF FileNames
<1>8. /\ NameMap'[i] = n
      /\ \A j \in Files : NameMap'[j] = NameMap[j]
  <2>1. \A j \in Files : NameMap[j] = NameOf(j)
    BY DEF NameMap
  <2>2. \A j \in Files' : NameMap'[j] = NameOf(j)'
    BY DEF NameMap
  <2>3. \A d \in UsedEntries : NameOf(dir_entry[d].d_inumber) = dir_entry[d].d_name
    BY <1>0, EntryNames
  <2>4. \A d \in UsedEntries' : NameMap'[dir_entry'[d].d_inumber] = dir_entry'[d].d_name
    BY <1>0 DEF MapFacts
  <2>5. NameMap'[i] = n
    BY <1>6, <2>4
  <2>6. ASSUME NEW j \in Files PROVE NameMap'[j] = NameMap[j]
    <3>1. PICK d \in UsedEntries : dir_entry[d].d_inumber = j
      BY <1>0 DEF DirectoryConsistent
    <3> QED
      BY <1>6, <2>1, <2>3, <2>4, <3>1
  <2> QED
    BY <2>5, <2>6
<1>9. /\ \A m \in FileNames : FileAt'[m] = FileAt[m]
      /\ FileAt'[n] = i
  <2>1. ASSUME NEW m \in FileNames PROVE FileAt'[m] = FileAt[m]
    <3>1. FileAt[m] \in Files /\ NameMap[FileAt[m]] = m
      BY <1>0 DEF MapFacts
    <3>2. FileAt'[NameMap'[FileAt[m]]] = FileAt[m]
      BY <1>0, <1>5, <3>1 DEF MapFacts
    <3> QED
      BY <1>8, <3>1, <3>2
  <2>2. FileAt'[NameMap'[i]] = i
    BY <1>0, <1>5 DEF MapFacts
  <2> QED
    BY <1>8, <2>1, <2>2
<1>10. \A j \in Files : ContentMap'[j] = ContentMap[j]
  BY <1>0, <1>4, <1>5, ContentKept DEF TypeOK
<1>11. ContentMap'[i] = <<>>
  <2>1. inode_table'[i].i_size = 0
    BY <1>0, <1>1, <1>4 DEF TypeOK, FileInode
  <2> QED
    BY <1>0, <1>5, <2>1, EmptyContent DEF MapFacts
<1>12. FileMap' = Service!Put(FileMap, n, <<>>) /\ n \notin DOMAIN FileMap
  <2>1. /\ FileMap = [m \in FileNames |-> ContentMap[FileAt[m]]]
        /\ FileMap' = [m \in FileNames \cup {n} |-> ContentMap'[FileAt'[m]]]
    BY <1>0, <1>7 DEF MapFacts
  <2>2. \A m \in FileNames : ContentMap'[FileAt'[m]] = FileMap[m]
    <3>1. \A m \in FileNames : FileAt[m] \in Files
      BY <1>0 DEF MapFacts
    <3> QED
      BY <1>9, <1>10, <2>1, <3>1
  <2> QED
    BY <1>3, <1>9, <1>11, <2>1, <2>2 DEF Service!Put
<1>13. \/ ret' = [val |-> -1, data |-> <<>>] /\ OpenMap' = OpenMap
       \/ \E h \in Handles :
            /\ ret' = [val |-> h, data |-> <<>>]
            /\ h \notin DOMAIN OpenMap
            /\ OpenMap' = Service!Put(OpenMap, h, [name |-> NameMap'[i], offset |-> 0])
  BY <1>0, <1>4, <1>8, ServiceHandle
<1>14. CASE ret' = [val |-> -1, data |-> <<>>] /\ OpenMap' = OpenMap
  BY <1>12, <1>14 DEF Service!OpenFails, Service!Returns
<1>15. ASSUME NEW h \in Handles,
              ret' = [val |-> h, data |-> <<>>],
              h \notin DOMAIN OpenMap,
              OpenMap' = Service!Put(OpenMap, h, [name |-> NameMap'[i], offset |-> 0])
       PROVE  Service!Open(n, flags)
  <2>1. Len(<<>>) = 0
    OBVIOUS
  <2> QED
    BY <1>8, <1>12, <1>15, <2>1 DEF Service!Open, Service!Returns
<1> QED
  BY <1>13, <1>14, <1>15

\* Between tfs_destroy and tfs_init the service is empty.
LEMMA RestartRefines == ASSUME RefInv', tfs_init PROVE Service!Restart
<1>1. /\ UsedEntries' = {} /\ takenHandles' = {} /\ ret' = [val |-> 0, data |-> <<>>]
  BY DEF tfs_init, UsedEntries, EmptyDirectory, Reply
<1>2. FileNames' = {}
  BY <1>1 DEF FileNames
<1>3. FileMap' = <<>> /\ OpenMap' = <<>>
  BY <1>1, <1>2, NoElements DEF FileMap, OpenMap
<1> QED
  BY <1>1, <1>3 DEF Service!Restart, Service!Returns

\* A call that fails and changes no file is CallFails.
LEMMA FailureRefines ==
    ASSUME FileMap' = FileMap, OpenMap' = OpenMap, Reply(-1)
    PROVE  Service!CallFails
BY DEF Service!CallFails, Service!Returns, Reply

\* Closing a handle closes the service's handle.
LEMMA CloseRefines ==
    ASSUME RefInv, RefInv', NEW h \in Handles \cup {-1}, tfs_close(h)
    PROVE  Service!CallFails \/ (h \in DOMAIN OpenMap /\ Service!Close(h))
<1>0. MapFacts /\ MapFacts'
  BY MapFactsHold, MapFactsNext
<1>1. /\ takenHandles' = takenHandles \ {h}
      /\ UNCHANGED <<dir_entry, takenInodes, inode_table, fs_data, open_file_table>>
  BY DEF tfs_close
<1>2. UNCHANGED <<Files, NameMap>>
  BY <1>1, DirectoryKept
<1>3. FileMap' = FileMap
  BY <1>0, <1>1, <1>2, NoFile, ContentKept
<1>4. CASE h \in takenHandles
  <2>1. OpenMap' = [g \in DOMAIN OpenMap \ {h} |-> OpenMap[g]] /\ h \in DOMAIN OpenMap
    BY <1>0, <1>1, <1>2, <1>4 DEF MapFacts
  <2>2. ret' = [val |-> 0, data |-> <<>>]
    BY <1>4 DEF tfs_close, Reply
  <2> QED
    BY <1>3, <2>1, <2>2 DEF Service!Close, Service!Returns
<1>5. CASE h \notin takenHandles
  <2>1. takenHandles' = takenHandles /\ Reply(-1)
    BY <1>1, <1>5 DEF tfs_close
  <2> QED
    BY <1>0, <1>1, <1>3, <2>1, NoHandle, FailureRefines
<1> QED
  BY <1>4, <1>5

\* Where an open handle stands, and what a write through it writes.
LEMMA OpenHandle ==
    ASSUME RefInv, NEW h \in takenHandles
    PROVE  LET i == open_file_table[h].of_inumber
               off == open_file_table[h].of_offset
           IN  /\ i \in Files /\ off \in 0 .. inode_table[i].i_size
               /\ inode_table[i].i_size \in 0 .. BLOCK_SIZE
               /\ h \in DOMAIN OpenMap /\ OpenMap[h] = [name |-> NameMap[i], offset |-> off]
               /\ h \in Handles /\ i \in Inumbers
<1>0. MapFacts /\ HandlesWithinFiles /\ TypeOK
  BY MapFactsHold DEF RefInv, StateInv, TypeInv
<1>1. h \in Handles /\ open_file_table[h] \in [of_inumber : Inumbers, of_offset : Nat]
  BY <1>0 DEF TypeOK
<1>2. inode_table[open_file_table[h].of_inumber].i_size \in 0 .. BLOCK_SIZE
  BY <1>0, <1>1 DEF TypeOK
<1>3. h \in DOMAIN OpenMap /\ OpenMap[h] =
        [name |-> NameMap[open_file_table[h].of_inumber], offset |-> open_file_table[h].of_offset]
  BY <1>0 DEF MapFacts
<1> QED
  BY <1>0, <1>1, <1>2, <1>3, StateAssumption DEF HandlesWithinFiles

\* A write writes what fits in the file.
LEMMA WriteLengthFits ==
    ASSUME RefInv, NEW h \in takenHandles, NEW data \in Contents
    PROVE  LET off == open_file_table[h].of_offset
               n == WriteLength(open_file_table[h], data)
               fits == SubSeq(data, 1, n)
           IN  /\ n = Service!Least(Len(data), BLOCK_SIZE - off)
               /\ n \in 0 .. BLOCK_SIZE - off
               /\ fits \in Seq(Nat) /\ Len(fits) = n
               /\ \A k \in 1 .. n : fits[k] = data[k]
<1> DEFINE off == open_file_table[h].of_offset
           n == WriteLength(open_file_table[h], data)
           m == Len(data)
<1>1. /\ off \in 0 .. BLOCK_SIZE /\ BLOCK_SIZE \in Nat
      /\ SizeModulus \in Nat \ {0} /\ SizeModulus > BLOCK_SIZE
      /\ data \in Seq(Nat) /\ m \in Nat
  <2>1. /\ BLOCK_SIZE \in Nat /\ SizeModulus \in Nat \ {0} /\ SizeModulus > BLOCK_SIZE
        /\ data \in Seq(Nat) /\ m \in Nat
    BY StateAssumption
  <2>2. off \in 0 .. BLOCK_SIZE
    <3> DEFINE size == inode_table[open_file_table[h].of_inumber].i_size
    <3>1. off \in 0 .. size /\ size \in 0 .. BLOCK_SIZE
      BY OpenHandle
    <3> HIDE DEF off, size
    <3> QED
      BY <2>1, <3>1
  <2> QED
    BY <2>1, <2>2
<1>2. n = IF m + off > BLOCK_SIZE THEN BLOCK_SIZE - off ELSE m
  <2> DEFINE left == BLOCK_SIZE - off
  <2>1. left \in 0 .. SizeModulus - 1 /\ left \in Int
    BY <1>1
  <2>2. n = IF m + off > BLOCK_SIZE THEN left % SizeModulus ELSE m
    BY DEF WriteLength
  <2> HIDE DEF left, n, m
  <2>3. left % SizeModulus = left
    BY <1>1, <2>1, Difference
  <2>4. n = IF m + off > BLOCK_SIZE THEN left ELSE m
    BY <2>2, <2>3
  <2> QED
    BY <2>4 DEF left
<1> HIDE DEF n, off
<1>3. /\ n = Service!Least(m, BLOCK_SIZE - off)
      /\ n \in 0 .. BLOCK_SIZE - off /\ n <= m
  <2> HIDE DEF m
  <2> QED
    BY <1>1, <1>2 DEF Service!Least
<1>4. /\ SubSeq(data, 1, n) \in Seq(Nat) /\ Len(SubSeq(data, 1, n)) = n
      /\ \A k \in 1 .. n : SubSeq(data, 1, n)[k] = data[k]
  <2>1. \A k \in 1 .. n : data[k] \in Nat
    BY <1>1, <1>3, ElementOfSeq
  <2> QED
    BY <1>1, <1>3, <2>1, SubSeqProperties
<1> QED
  BY <1>3, <1>4 DEF n, off

\* Moving the offset of a handle moves that of the service's handle.
LEMMA HandleMoves ==
    ASSUME MapFacts, MapFacts', UNCHANGED <<dir_entry, takenInodes, takenHandles>>,
           NEW h \in takenHandles, NEW offset,
           \A g \in takenHandles :
             /\ open_file_table'[g].of_inumber = open_file_table[g].of_inumber
             /\ open_file_table'[g].of_offset = IF g = h THEN offset
                                                ELSE open_file_table[g].of_offset
    PROVE  OpenMap' = [OpenMap EXCEPT ![h].offset = offset]
<1>1. NameMap' = NameMap
  BY DirectoryKept
<1>2. /\ OpenMap = [g \in takenHandles |->
                      [name |-> NameMap[open_file_table[g].of_inumber],
                       offset |-> open_file_table[g].of_offset]]
      /\ OpenMap' = [g \in takenHandles |->
                      [name |-> NameMap[open_file_table'[g].of_inumber],
                       offset |-> open_file_table'[g].of_offset]]
  BY <1>1 DEF MapFacts
<1> QED
  BY <1>2

\* A call that leaves the tables alone changes nothing for the service.
LEMMA StoreKept ==
    ASSUME RefInv, RefInv', UNCHANGED store
    PROVE  FileMap' = FileMap /\ OpenMap' = OpenMap
BY MapFactsHold, MapFactsNext, NoHandle, NoFile, ContentKept, DirectoryKept DEF store

\* A write of no byte.
LEMMA EmptyWriteRefines ==
    ASSUME RefInv, RefInv', NEW h \in takenHandles, NEW data \in Contents,
           WriteLength(open_file_table[h], data) = 0, Reply(0), UNCHANGED store
    PROVE  Service!Write(h, data)
<1> DEFINE i == open_file_table[h].of_inumber
           off == open_file_table[h].of_offset
           old == FileMap[NameMap[i]]
           fits == SubSeq(data, 1, Service!Least(Len(data), BLOCK_SIZE - off))
<1>0. MapFacts /\ MapFacts'
  BY MapFactsHold, MapFactsNext
<1>1. i \in Files /\ off \in 0 .. inode_table[i].i_size /\ inode_table[i].i_size \in Nat
      /\ OpenMap[h] = [name |-> NameMap[i], offset |-> off]
      /\ h \in DOMAIN OpenMap
  BY OpenHandle
<1>2. fits \in Seq(Nat) /\ Len(fits) = 0
  BY WriteLengthFits
<1>3. UNCHANGED <<Files, FileMap, OpenMap>>
  BY StoreKept, DirectoryKept DEF store
<1>4. NameMap[i] \in DOMAIN FileMap /\ old = ContentMap[i]
  BY <1>0, <1>1, <1>3, OneFile, ContentKept, DirectoryKept DEF store
<1>5. old \in Seq(Nat) /\ off \in 0 .. Len(old)
  BY <1>0, <1>1, <1>4 DEF MapFacts
<1> HIDE DEF i, off, old, fits
<1>6. SubSeq(old, 1, off) \o fits \o SubSeq(old, off + Len(fits) + 1, Len(old)) = old
  <2> DEFINE result == SubSeq(old, 1, off) \o fits \o SubSeq(old, off + Len(fits) + 1, Len(old))
  <2>1. /\ result \in Seq(Nat)
        /\ Len(result) = IF off + Len(fits) > Len(old) THEN off + Len(fits) ELSE Len(old)
        /\ \A k \in 1 .. Len(result) :
             result[k] = IF k \in off + 1 .. off + Len(fits) THEN fits[k - off] ELSE old[k]
    BY <1>2, <1>5, Overwrite
  <2> HIDE DEF result
  <2>2. Len(result) = Len(old) /\ \A k \in 1 .. Len(result) : result[k] = old[k]
    BY <1>2, <1>5, <2>1
  <2>3. result = old
    BY <1>5, <2>1, <2>2, SeqEqual
  <2> QED
    BY <2>3 DEF result
<1>7. off + Len(fits) = off
  BY <1>2, <1>5
<1>8. OpenMap' = [OpenMap EXCEPT ![h].offset = off + Len(fits)]
  BY <1>0, <1>7, HandleMoves DEF store, off
<1>9. FileMap' = [FileMap EXCEPT ![NameMap[i]] =
                    SubSeq(old, 1, off) \o fits \o SubSeq(old, off + Len(fits) + 1, Len(old))]
  <2>1. FileMap = [m \in DOMAIN FileMap |-> FileMap[m]]
    BY DEF FileMap
  <2>2. [FileMap EXCEPT ![NameMap[i]] = FileMap[NameMap[i]]] = FileMap
    BY <1>4, <2>1
  <2> QED
    BY <1>3, <1>6, <2>2 DEF old
<1>10. ret' = [val |-> Len(fits), data |-> <<>>]
  BY <1>2 DEF Reply
<1>11. OpenMap[h].name = NameMap[i] /\ OpenMap[h].offset = off
  BY <1>1
<1> QED
  BY <1>8, <1>9, <1>10, <1>11 DEF Service!Write, Service!Returns, old, fits

\* A file that is not empty has a block, its own.
LEMMA OwnBlock ==
    ASSUME StateInv, NEW i \in Files, inode_table[i].i_size > 0
    PROVE  /\ inode_table[i].i_data_block \in Blocks
           /\ inode_table[i].i_data_block \in takenBlocks
           /\ \A j \in Files \ {i} : inode_table[j].i_size > 0 =>
                inode_table[j].i_data_block # inode_table[i].i_data_block
BY DEF StateInv, BlocksAccounted, NonEmpty, TypeInv, TypeOK

\* A write of n bytes into a block.
LEMMA WriteBytesRefines ==
    ASSUME RefInv, RefInv', NEW h \in takenHandles, NEW data \in Contents, NEW block, block # -1,
           LET inode == inode_table[open_file_table[h].of_inumber]
           IN  block = IF inode.i_size = 0 THEN FirstFree(DATA_BLOCKS, takenBlocks)
                       ELSE inode.i_data_block,
           WriteLength(open_file_table[h], data) \in 1 .. BLOCK_SIZE,
           WriteBytes(h, block, data, WriteLength(open_file_table[h], data))
    PROVE  Service!Write(h, data)
<1> DEFINE i == open_file_table[h].of_inumber
           off == open_file_table[h].of_offset
           n == WriteLength(open_file_table[h], data)
           fits == SubSeq(data, 1, n)
           size == inode_table[i].i_size
           first == block * BLOCK_SIZE + off
           old == ContentMap[i]
           result == SubSeq(old, 1, off) \o fits \o SubSeq(old, off + n + 1, Len(old))
<1>0. MapFacts /\ MapFacts' /\ TypeOK /\ StateInv /\ BlocksAccounted /\ BLOCK_SIZE \in Nat
  BY MapFactsHold, MapFactsNext, StateAssumption DEF RefInv, StateInv, TypeInv
<1>1. /\ i \in Files /\ off \in 0 .. size /\ size \in 0 .. BLOCK_SIZE
      /\ h \in DOMAIN OpenMap /\ OpenMap[h] = [name |-> NameMap[i], offset |-> off]
      /\ h \in Handles /\ i \in Inumbers
  BY OpenHandle
<1>2. /\ n = Service!Least(Len(data), BLOCK_SIZE - off)
      /\ n \in 0 .. BLOCK_SIZE - off
      /\ fits \in Seq(Nat) /\ Len(fits) = n
      /\ \A k \in 1 .. n : fits[k] = data[k]
  BY WriteLengthFits
<1>3. /\ fs_data' = Copied(block, off, data, n)
      /\ inode_table' = [inode_table EXCEPT ![i].i_data_block = block,
                                            ![i].i_size = SizeAfterWrite(@, off + n)]
      /\ open_file_table' = [open_file_table EXCEPT ![h].of_offset = off + n]
      /\ Reply(n)
      /\ UNCHANGED <<takenInodes, dir_entry, takenHandles>>
  BY DEF WriteBytes
<1>4. block = IF size = 0 THEN FirstFree(DATA_BLOCKS, takenBlocks) ELSE inode_table[i].i_data_block
  OBVIOUS
<1>5. n \in 1 .. BLOCK_SIZE
  OBVIOUS
<1> HIDE DEF i, off, n, size, old, fits
<1>6. /\ block \in Blocks
      /\ \A j \in Files \ {i} : inode_table[j].i_size > 0 =>
           inode_table[j].i_data_block \in Blocks \ {block}
  <2>1. CASE size = 0
    <3>1. block \in Blocks \ takenBlocks
      <4>1. block = FirstFree(DATA_BLOCKS, takenBlocks) /\ DATA_BLOCKS \in Nat
        BY <1>4, <2>1, StateAssumption
      <4>2. block = -1 \/ block \in (0 .. DATA_BLOCKS - 1) \ takenBlocks
        BY <4>1, FirstFreeWorks
      <4> QED
        BY <4>2 DEF Blocks
    <3> QED
      BY <1>0, <3>1, OwnBlock
  <2>2. CASE size # 0
    <3>1. size > 0
      BY <1>1, <2>2, <1>0
    <3> QED
      BY <1>0, <1>1, <1>4, <2>2, <3>1, OwnBlock DEF size
  <2> QED
    BY <2>1, <2>2
<1>7. block \in Nat /\ off \in Nat /\ size \in Nat /\ n \in Nat /\ off + n <= BLOCK_SIZE
      /\ block * BLOCK_SIZE \in Nat
  <2>1. block \in Nat
    <3>1. block \in Blocks
      BY <1>6
    <3> QED
      BY <3>1 DEF Blocks
  <2>3. BLOCK_SIZE \in Nat
    BY <1>0
  <2>4. block * BLOCK_SIZE \in Nat
    BY <2>1, <2>3
  <2>2. off \in Nat /\ size \in Nat /\ n \in Nat /\ off + n <= BLOCK_SIZE
    BY <1>0, <1>1, <1>2, <1>5
  <2> QED
    BY <2>1, <2>2, <2>4
<1>8. /\ \A j \in Inumbers \ {i} : inode_table'[j] = inode_table[j]
      /\ inode_table'[i].i_data_block = block
      /\ inode_table'[i].i_size = IF off + n > size THEN off + n ELSE size
  <2> DEFINE length == SizeAfterWrite(inode_table[i].i_size, off + n)
  <2>1. inode_table' = [inode_table EXCEPT ![i].i_data_block = block, ![i].i_size = length]
    BY <1>3
  <2>2. length = IF off + n > size THEN off + n ELSE size
    BY DEF SizeAfterWrite, size
  <2> HIDE DEF length
  <2> QED
    BY <1>0, <1>1, <2>1, <2>2 DEF TypeOK
<1>9. UNCHANGED <<Files, NameMap>> /\ Files \subseteq Inumbers
  BY <1>0, <1>3, DirectoryKept DEF TypeOK, Files
\* The bytes of the block, and of the others.
<1>10. ASSUME NEW x \in 0 .. BLOCK_SIZE - 1
       PROVE  fs_data'[block * BLOCK_SIZE + x] =
                IF x \in off .. off + n - 1 THEN data[x - off + 1] ELSE fs_data[block * BLOCK_SIZE + x]
  <2>1. fs_data' = Copied(block, off, data, n) /\ block \in Blocks
    BY <1>3, <1>6
  <2>2. off \in Nat /\ n \in Nat /\ off + n <= BLOCK_SIZE
    BY <1>7
  <2>3. fs_data'[block * BLOCK_SIZE + x] =
          IF block = block /\ x \in off .. off + n - 1 THEN data[x - off + 1]
          ELSE fs_data[block * BLOCK_SIZE + x]
    BY <2>1, <2>2, CopiedBytes
  <2> QED
    BY <2>3
<1>11. ASSUME NEW c \in Blocks \ {block}, NEW x \in 0 .. BLOCK_SIZE - 1
       PROVE  fs_data'[c * BLOCK_SIZE + x] = fs_data[c * BLOCK_SIZE + x]
  <2>1. fs_data' = Copied(block, off, data, n) /\ block \in Blocks /\ c \in Blocks /\ c # block
    BY <1>3, <1>6
  <2>2. off \in Nat /\ n \in Nat /\ off + n <= BLOCK_SIZE
    BY <1>7
  <2>3. fs_data'[c * BLOCK_SIZE + x] =
          IF c = block /\ x \in off .. off + n - 1 THEN data[x - off + 1]
          ELSE fs_data[c * BLOCK_SIZE + x]
    BY <2>1, <2>2, CopiedBytes
  <2> QED
    BY <2>1, <2>3
<1>12. ASSUME NEW j \in Files \ {i} PROVE ContentMap'[j] = ContentMap[j]
  <2> DEFINE c == inode_table[j].i_data_block
             m == inode_table[j].i_size
  <2>1. inode_table'[j] = inode_table[j] /\ j \in Files' /\ m \in 0 .. BLOCK_SIZE
    BY <1>0, <1>8, <1>9 DEF TypeOK
  <2>2. CASE m = 0
    BY <2>1, <2>2, ContentKept
  <2>3. CASE m > 0
    <3>1. c \in Blocks \ {block}
      BY <1>6, <2>3
    <3>2. /\ ContentMap[j] = [k \in 1 .. m |-> fs_data[c * BLOCK_SIZE + k - 1]]
          /\ ContentMap'[j] = [k \in 1 .. m |-> fs_data'[c * BLOCK_SIZE + k - 1]]
      BY <2>1 DEF ContentMap, ContentOf
    <3> HIDE DEF c, m
    <3>3. ASSUME NEW k \in 1 .. m
          PROVE  fs_data'[c * BLOCK_SIZE + k - 1] = fs_data[c * BLOCK_SIZE + k - 1]
      <4> DEFINE start == c * BLOCK_SIZE
      <4>1. start \in Nat
        BY <1>0, <3>1 DEF Blocks
      <4>2. k - 1 \in 0 .. BLOCK_SIZE - 1
        BY <1>0, <2>1
      <4>3. fs_data'[start + (k - 1)] = fs_data[start + (k - 1)]
        BY <1>11, <3>1, <4>2
      <4> HIDE DEF start
      <4>4. start + (k - 1) = start + k - 1
        BY <4>1
      <4>5. fs_data'[start + k - 1] = fs_data[start + k - 1]
        BY <4>3, <4>4
      <4> QED
        BY <4>5 DEF start
    <3> QED
      BY <3>2, <3>3
  <2> QED
    BY <1>0, <2>1, <2>2, <2>3
\* The content of the file.
<1>13. old \in Seq(Nat) /\ Len(old) = size
  BY <1>0, <1>1 DEF MapFacts, old, size
<1>14. /\ result \in Seq(Nat)
       /\ Len(result) = IF off + n > size THEN off + n ELSE size
       /\ \A k \in 1 .. Len(result) :
            result[k] = IF k \in off + 1 .. off + n THEN data[k - off] ELSE old[k]
  <2>1. off \in 0 .. Len(old)
    BY <1>1, <1>13
  <2>2. /\ result \in Seq(Nat)
        /\ Len(result) = IF off + n > size THEN off + n ELSE size
        /\ \A k \in 1 .. Len(result) :
             result[k] = IF k \in off + 1 .. off + n THEN fits[k - off] ELSE old[k]
    <3> DEFINE written == SubSeq(old, 1, off) \o fits \o SubSeq(old, off + Len(fits) + 1, Len(old))
    <3>1. result = written
      BY <1>2
    <3>2. fits \in Seq(Nat) /\ old \in Seq(Nat)
      BY <1>2, <1>13
    <3>3. /\ written \in Seq(Nat)
          /\ Len(written) = IF off + Len(fits) > Len(old) THEN off + Len(fits) ELSE Len(old)
          /\ \A k \in 1 .. Len(written) :
               written[k] = IF k \in off + 1 .. off + Len(fits) THEN fits[k - off] ELSE old[k]
      BY <2>1, <3>2, Overwrite
    <3> HIDE DEF result, written
    <3>4. /\ result \in Seq(Nat)
          /\ Len(result) = IF off + Len(fits) > Len(old) THEN off + Len(fits) ELSE Len(old)
          /\ \A k \in 1 .. Len(result) :
               result[k] = IF k \in off + 1 .. off + Len(fits) THEN fits[k - off] ELSE old[k]
      BY <3>1, <3>3
    <3> QED
      BY <1>2, <1>13, <3>4
  <2> HIDE DEF result
  <2>3. \A k \in off + 1 .. off + n : k - off \in 1 .. n
    BY <1>7
  <2> QED
    BY <1>2, <2>2, <2>3
<1> HIDE DEF result
<1>15. ContentMap'[i] = result
  <2> DEFINE new == ContentMap'[i]
             start == block * BLOCK_SIZE
             m == inode_table'[i].i_size
  <2>1. new \in Seq(Nat) /\ Len(new) = m
    BY <1>0, <1>1, <1>9 DEF MapFacts
  <2>2. new = [k \in 1 .. m |-> fs_data'[start + k - 1]]
    BY <1>1, <1>8, <1>9 DEF ContentMap, ContentOf
  <2>3. size > 0 => old = [k \in 1 .. size |-> fs_data[start + k - 1]]
    <3>1. CASE size > 0
      <4>1. old = [k \in 1 .. size |-> fs_data[inode_table[i].i_data_block * BLOCK_SIZE + k - 1]]
        BY <1>1 DEF ContentMap, ContentOf, old, size
      <4>2. inode_table[i].i_data_block = block
        BY <1>4, <3>1
      <4> QED
        BY <4>1, <4>2
    <3> QED
      BY <3>1
  <2>4. start \in Nat /\ m = Len(result) /\ m \in Nat /\ m <= BLOCK_SIZE
    BY <1>0, <1>1, <1>7, <1>8, <1>14
  <2>5. \A x \in 0 .. BLOCK_SIZE - 1 :
          fs_data'[start + x] = IF x \in off .. off + n - 1 THEN data[x - off + 1] ELSE fs_data[start + x]
    BY <1>10
  <2> HIDE DEF new, start, m
  <2>6. ASSUME NEW k \in 1 .. m PROVE new[k] = result[k]
    <3>1. /\ k - 1 \in 0 .. BLOCK_SIZE - 1
          /\ start + (k - 1) = start + k - 1
          /\ (k - 1) - off + 1 = k - off
          /\ k - 1 \in off .. off + n - 1 <=> k \in off + 1 .. off + n
      BY <1>0, <1>7, <2>4
    <3>2. fs_data'[start + (k - 1)] =
            IF k - 1 \in off .. off + n - 1 THEN data[(k - 1) - off + 1] ELSE fs_data[start + (k - 1)]
      BY <2>5, <3>1
    <3>3. new[k] = IF k \in off + 1 .. off + n THEN data[k - off] ELSE fs_data[start + k - 1]
      BY <2>2, <3>1, <3>2
    <3>4. k \notin off + 1 .. off + n => k \in 1 .. size
      BY <1>1, <1>7, <1>14, <2>4
    <3>5. k \in 1 .. size => old[k] = fs_data[start + k - 1]
      BY <1>7, <2>3
    <3> QED
      BY <1>14, <2>4, <3>3, <3>4, <3>5
  <2>7. new = result
    BY <1>14, <2>1, <2>4, <2>6, SeqEqual
  <2> QED
    BY <2>7 DEF new
<1>16. /\ FileMap' = [FileMap EXCEPT ![NameMap[i]] = result]
       /\ FileMap[NameMap[i]] = old
  BY <1>0, <1>1, <1>3, <1>12, <1>15, OneFile DEF old
<1>17. OpenMap' = [OpenMap EXCEPT ![h].offset = off + n]
  <2>1. \A g \in takenHandles :
          /\ open_file_table'[g].of_inumber = open_file_table[g].of_inumber
          /\ open_file_table'[g].of_offset = IF g = h THEN off + n ELSE open_file_table[g].of_offset
    BY <1>0, <1>3 DEF TypeOK
  <2> QED
    BY <1>0, <1>3, <2>1, HandleMoves
<1>18. ret' = [val |-> Len(fits), data |-> <<>>]
  BY <1>2, <1>3 DEF Reply
<1>19. OpenMap[h].name = NameMap[i] /\ OpenMap[h].offset = off
  BY <1>1
<1>20. fits = SubSeq(data, 1, Service!Least(Len(data), BLOCK_SIZE - off)) /\ Len(fits) = n
  BY <1>2 DEF fits
<1> QED
  BY <1>16, <1>17, <1>18, <1>19, <1>20 DEF Service!Write, Service!Returns, result

\* A read reads what is left of the file.
LEMMA ReadRefines ==
    ASSUME RefInv, RefInv', NEW h \in takenHandles, NEW len \in 0 .. BLOCK_SIZE + 1,
           tfs_read(h, len)
    PROVE  Service!Read(h, len)
<1> DEFINE i == open_file_table[h].of_inumber
           off == open_file_table[h].of_offset
           n == ReadLength(open_file_table[h], len)
           size == inode_table[i].i_size
           block == inode_table[i].i_data_block
           first == block * BLOCK_SIZE + off
           old == ContentMap[i]
           end == Service!Least(off + len, Len(old))
           got == SubSeq(old, off + 1, end)
<1>0. MapFacts /\ MapFacts' /\ TypeOK /\ StateInv /\ BLOCK_SIZE \in Nat /\ len \in Nat
  BY MapFactsHold, MapFactsNext, StateAssumption DEF RefInv, StateInv, TypeInv
<1>1. /\ i \in Files /\ off \in 0 .. size /\ size \in 0 .. BLOCK_SIZE
      /\ h \in DOMAIN OpenMap /\ OpenMap[h] = [name |-> NameMap[i], offset |-> off]
      /\ h \in Handles /\ i \in Inumbers
  BY OpenHandle
<1>2. old \in Seq(Nat) /\ Len(old) = size
  BY <1>0, <1>1 DEF MapFacts
<1>3. n = IF size - off > len THEN len ELSE size - off
  <2> DEFINE left == size - off
  <2>1. left \in 0 .. SizeModulus - 1 /\ left \in Int /\ SizeModulus \in Nat \ {0}
    BY <1>0, <1>1, StateAssumption
  <2>2. n = IF left % SizeModulus > len THEN len ELSE left % SizeModulus
    BY DEF ReadLength
  <2> HIDE DEF left, n
  <2>3. left % SizeModulus = left
    BY <2>1, Difference
  <2> QED
    BY <2>2, <2>3 DEF left
<1>4. \/ n = 0 /\ Reply(0) /\ UNCHANGED store
      \/ n > 0 /\ block = -1
      \/ /\ n > 0 /\ block # -1
         /\ ret' = [val |-> n, data |-> [k \in 1 .. n |-> Memory(first + k - 1)]]
         /\ open_file_table' = [open_file_table EXCEPT ![h].of_offset = @ + n]
         /\ UNCHANGED <<inode_table, takenInodes, dir_entry, fs_data, takenBlocks, takenHandles>>
  BY DEF tfs_read
<1>5. size > 0 => block \in Blocks
  BY <1>0, <1>1, OwnBlock
<1>6. old = [k \in 1 .. size |-> fs_data[block * BLOCK_SIZE + k - 1]]
  BY <1>1 DEF ContentMap, ContentOf
<1> HIDE DEF i, off, n, size, block, old
<1>7. n \in Nat /\ n <= size - off /\ off \in Nat /\ size \in Nat /\ end = off + n
  BY <1>0, <1>1, <1>2, <1>3 DEF Service!Least
<1>8. /\ got \in Seq(Nat) /\ Len(got) = n
      /\ \A k \in 1 .. n : got[k] = old[off + k]
  <2>1. \A k \in off + 1 .. end : old[k] \in Nat
    BY <1>2, <1>7, ElementOfSeq
  <2>2. off + 1 \in Int /\ end \in Int
    BY <1>7
  <2> HIDE DEF end
  <2>3. /\ got \in Seq(Nat) /\ Len(got) = IF off + 1 <= end THEN end - (off + 1) + 1 ELSE 0
        /\ \A k \in 1 .. end - (off + 1) + 1 : got[k] = old[off + 1 + k - 1]
    BY <2>1, <2>2, SubSeqProperties
  <2> HIDE DEF got
  <2>4. Len(got) = n
    BY <1>7, <2>3
  <2>5. ASSUME NEW k \in 1 .. n PROVE got[k] = old[off + k]
    <3>1. k \in 1 .. end - (off + 1) + 1 /\ off + 1 + k - 1 = off + k
      BY <1>7
    <3> QED
      BY <2>3, <3>1
  <2> QED
    BY <2>3, <2>4, <2>5
<1> HIDE DEF got, end
<1>9. OpenMap[h].name = NameMap[i] /\ OpenMap[h].offset = off
  BY <1>1
<1>10. UNCHANGED <<dir_entry, takenInodes, inode_table, fs_data, takenHandles>>
  <2>1. n > 0 => block # -1
    BY <1>5, <1>7 DEF Blocks
  <2> QED
    BY <1>4, <2>1 DEF store
<1>11. FileMap' = FileMap /\ FileMap[NameMap[i]] = old
  <2>1. \A j \in Files : j \in Files' /\ ContentMap'[j] = ContentMap[j]
    BY <1>10, DirectoryKept, ContentKept
  <2> QED
    BY <1>0, <1>1, <1>10, <2>1, OneFile DEF old
<1>12. CASE n = 0 /\ Reply(0) /\ UNCHANGED store
  <2>1. got = <<>>
    BY <1>8, <1>12, EmptyContent
  <2>2. OpenMap' = [OpenMap EXCEPT ![h].offset = off + n]
    <3>1. off + n = off
      BY <1>7, <1>12
    <3> QED
      BY <1>0, <1>12, <3>1, HandleMoves DEF store, off
  <2>3. ret' = [val |-> Len(got), data |-> got]
    BY <1>8, <1>12, <2>1 DEF Reply
  <2> QED
    BY <1>8, <1>9, <1>11, <2>2, <2>3 DEF Service!Read, got, end
<1>13. CASE /\ n > 0 /\ block # -1
            /\ ret' = [val |-> n, data |-> [k \in 1 .. n |-> Memory(first + k - 1)]]
            /\ open_file_table' = [open_file_table EXCEPT ![h].of_offset = @ + n]
            /\ UNCHANGED <<inode_table, takenInodes, dir_entry, fs_data, takenBlocks, takenHandles>>
  <2>1. block \in Blocks
    BY <1>5, <1>7, <1>13
  <2> DEFINE start == block * BLOCK_SIZE
  <2>2. start \in Nat
    BY <1>0, <2>1 DEF Blocks
  <2>3. ASSUME NEW k \in 1 .. n PROVE Memory(first + k - 1) = got[k]
    <3> DEFINE x == off + k - 1
    <3>1. x \in 0 .. BLOCK_SIZE - 1
      BY <1>0, <1>1, <1>7
    <3>2. start + x \in Addresses
      BY <2>1, <3>1, BlockAddress
    <3>3. /\ first + k - 1 = start + x
          /\ off + k \in 1 .. size
          /\ start + (off + k) - 1 = start + x
      <4>1. first = start + off
        OBVIOUS
      <4> HIDE DEF first, start
      <4> QED
        BY <1>7, <2>2, <4>1
    <3>4. old[off + k] = fs_data[start + (off + k) - 1]
      BY <1>6, <3>3
    <3> HIDE DEF first, x, start
    <3> QED
      BY <1>8, <3>2, <3>3, <3>4 DEF Memory
  <2>4. [k \in 1 .. n |-> Memory(first + k - 1)] = got
    <3> DEFINE data == [k \in 1 .. n |-> Memory(first + k - 1)]
    <3>1. \A k \in 1 .. n : Memory(first + k - 1) \in Nat
      BY <1>8, <2>3, ElementOfSeq
    <3>2. data \in Seq(Nat) /\ Len(data) = n
      BY <1>7, <3>1, FcnIsSeq
    <3>3. \A k \in 1 .. n : data[k] = got[k]
      BY <2>3
    <3> HIDE DEF data
    <3>4. data = got
      BY <1>8, <3>2, <3>3, SeqEqual
    <3> QED
      BY <3>4 DEF data
  <2>5. OpenMap' = [OpenMap EXCEPT ![h].offset = off + n]
    <3>1. \A g \in takenHandles :
            /\ open_file_table'[g].of_inumber = open_file_table[g].of_inumber
            /\ open_file_table'[g].of_offset = IF g = h THEN off + n ELSE open_file_table[g].of_offset
      BY <1>0, <1>13 DEF TypeOK, off
    <3> QED
      BY <1>0, <1>13, <3>1, HandleMoves
  <2> QED
    BY <1>8, <1>9, <1>11, <1>13, <2>4, <2>5 DEF Service!Read, got, end
<1> QED
  <2>1. n > 0 => block # -1
    BY <1>5, <1>7 DEF Blocks
  <2> QED
    BY <1>4, <1>12, <1>13, <2>1

\* A lookup is the service's lookup.
LEMMA LookupRefines ==
    ASSUME RefInv, RefInv', NEW p \in Paths, tfs_lookup(p)
    PROVE  Service!CallFails \/ (p.name \in Names /\ Service!Lookup(p.name))
<1>0. MapFacts /\ DirectoryConsistent /\ NamesUnique /\ TypeOK
  BY MapFactsHold DEF RefInv, StateInv, TypeInv
<1>1. FileMap' = FileMap /\ OpenMap' = OpenMap /\ Reply(lookup(p))
  BY StoreKept DEF tfs_lookup
<1>2. CASE lookup(p) = -1
  BY <1>1, <1>2, FailureRefines
<1>3. CASE lookup(p) # -1
  <2>1. lookup(p) \in Files /\ NameMap[lookup(p)] = p.name /\ p.name \in Names
    BY <1>0, <1>3, LookupName
  <2>2. lookup(p) \in Inumbers /\ p.name \in DOMAIN FileMap
    BY <1>0, <2>1 DEF MapFacts, Files, TypeOK
  <2> QED
    BY <1>1, <2>1, <2>2 DEF Service!Lookup, Service!Returns, Reply
<1> QED
  BY <1>2, <1>3

\* A creation that fails for want of a directory entry fails for the service.
LEMMA UndoneRefines ==
    ASSUME RefInv, RefInv', NEW n, NEW i,
           i = FirstFree(INODE_TABLE_SIZE, takenInodes), i # -1, CreationUndone(n, i)
    PROVE  Service!CallFails
<1>0. MapFacts /\ MapFacts' /\ TypeOK
  BY MapFactsHold, MapFactsNext DEF RefInv, StateInv, TypeInv
<1>1. i \in Inumbers \ takenInodes
  BY FirstFreeWorks, StateAssumption DEF Inumbers
<1>2. /\ inode_table' = [inode_table EXCEPT ![i] = FileInode]
      /\ Reply(-1)
      /\ UNCHANGED <<takenInodes, dir_entry, fs_data, takenBlocks, open_file_table, takenHandles>>
  BY DEF CreationUndone
<1>3. Files' = Files /\ \A j \in Files : inode_table'[j] = inode_table[j]
  BY <1>0, <1>1, <1>2, DirectoryKept DEF Files, TypeOK
<1>4. FileMap' = FileMap
  BY <1>0, <1>2, <1>3, NoFile, ContentKept
<1> QED
  BY <1>0, <1>2, <1>4, NoHandle, FailureRefines

\* A write that finds no free block fails for the service.
LEMMA WriteFailsRefines ==
    ASSUME RefInv, RefInv', NEW h \in takenHandles,
           inode_table[open_file_table[h].of_inumber].i_size = 0,
           WriteFails(open_file_table[h].of_inumber)
    PROVE  Service!CallFails
<1> DEFINE i == open_file_table[h].of_inumber
<1>0. MapFacts /\ MapFacts' /\ TypeOK
  BY MapFactsHold, MapFactsNext DEF RefInv, StateInv, TypeInv
<1>1. i \in Inumbers /\ inode_table[i].i_size = 0 /\ Files \subseteq Inumbers
  BY <1>0, OpenHandle DEF Files, TypeOK
<1> HIDE DEF i
<1>2. /\ inode_table' = [inode_table EXCEPT ![i].i_data_block = -1]
      /\ Reply(-1)
      /\ UNCHANGED <<takenInodes, dir_entry, fs_data, takenBlocks, open_file_table, takenHandles>>
  BY DEF WriteFails, i
<1>3. \A j \in Files : /\ inode_table'[j].i_size = inode_table[j].i_size
                       /\ j # i => inode_table'[j] = inode_table[j]
  BY <1>0, <1>1, <1>2 DEF TypeOK
<1>4. Files' = Files
  BY <1>2, DirectoryKept
<1>5. FileMap' = FileMap
  BY <1>0, <1>1, <1>2, <1>3, <1>4, NoFile, ContentKept
<1> QED
  BY <1>0, <1>2, <1>5, NoHandle, FailureRefines

\* A write through an open handle is the service's write, and stays in memory.
LEMMA WriteRefines ==
    ASSUME RefInv, NEW h \in takenHandles, NEW data \in Contents, tfs_write(h, data)
    PROVE  crashed' = crashed /\ (RefInv' => Service!Write(h, data) \/ Service!CallFails)
<1> DEFINE i == open_file_table[h].of_inumber
           n == WriteLength(open_file_table[h], data)
           block == IF inode_table[i].i_size = 0 THEN FirstFree(DATA_BLOCKS, takenBlocks)
                    ELSE inode_table[i].i_data_block
<1>1. n \in Nat /\ n <= BLOCK_SIZE /\ i \in Files
  <2> DEFINE off == open_file_table[h].of_offset
             size == inode_table[i].i_size
  <2>1. n \in 0 .. BLOCK_SIZE - off
    BY WriteLengthFits
  <2>2. off \in 0 .. size /\ size \in 0 .. BLOCK_SIZE /\ i \in Files
    BY OpenHandle
  <2>3. BLOCK_SIZE \in Nat
    BY StateAssumption
  <2> HIDE DEF n, off, size, i
  <2> QED
    BY <2>1, <2>2, <2>3
<1>2. \/ n = 0 /\ Reply(0) /\ UNCHANGED <<store, crashed>>
      \/ n > 0 /\ block = -1 /\ WriteFails(i) /\ UNCHANGED crashed
      \/ n \in 1 .. BLOCK_SIZE /\ block # -1 /\ WriteBytes(h, block, data, n) /\ UNCHANGED crashed
      \/ n > BLOCK_SIZE
  BY DEF tfs_write
<1>3. ~(n > BLOCK_SIZE)
  <2> HIDE DEF n
  <2> QED
    BY <1>1, StateAssumption
<1>4. CASE n = 0 /\ Reply(0) /\ UNCHANGED <<store, crashed>>
  <2>1. UNCHANGED store
    BY <1>4
  <2> QED
    BY <1>4, <2>1, EmptyWriteRefines
<1>5. CASE n > 0 /\ block = -1 /\ WriteFails(i) /\ UNCHANGED crashed
  <2>1. inode_table[i].i_size = 0
    <3>1. inode_table[i].i_size > 0 => inode_table[i].i_data_block \in Blocks
      BY <1>1, OwnBlock DEF RefInv
    <3>2. inode_table[i].i_size \in 0 .. BLOCK_SIZE
      BY OpenHandle
    <3>3. -1 \notin Blocks
      BY DEF Blocks
    <3> HIDE DEF i
    <3> QED
      BY <1>5, <3>1, <3>2, <3>3, StateAssumption
  <2> QED
    BY <1>5, <2>1, WriteFailsRefines
<1>6. CASE n \in 1 .. BLOCK_SIZE /\ block # -1 /\ WriteBytes(h, block, data, n) /\ UNCHANGED crashed
  BY <1>6, WriteBytesRefines
<1> QED
  BY <1>2, <1>3, <1>4, <1>5, <1>6

\* tfs_open is an Open of the service or a failure of it.
LEMMA OpenCallRefines ==
    ASSUME PlainNames, RefInv, RefInv', NEW p \in Paths, NEW flags \in Flags, tfs_open(p, flags)
    PROVE  \/ Service!CallFails
           \/ p.name \in Names /\ (Service!Open(p.name, flags) \/ Service!OpenFails(p.name, flags))
<1>0. DirectoryConsistent /\ NamesUnique
  BY DEF RefInv, StateInv
<1>1. CASE lookup(p) # -1 /\ OpenExisting(lookup(p), flags)
  BY <1>0, <1>1, OpenRefines, LookupName
<1>2. CASE Reply(-1) /\ UNCHANGED store
  BY <1>2, StoreKept, FailureRefines
<1> DEFINE i == FirstFree(INODE_TABLE_SIZE, takenInodes)
<1>3. CASE lookup(p) = -1 /\ "TFS_O_CREAT" \in flags /\ i # -1 /\ Creates(p.name, i)
  <2>1. p.name \in Names
    BY <1>3, FreeEntryWorks, StateAssumption DEF Creates
  <2> QED
    BY <1>3, <2>1, CreateRefines
<1>4. CASE i # -1 /\ CreationUndone(p.name, i)
  BY <1>4, UndoneRefines
<1> QED
  BY <1>1, <1>2, <1>3, <1>4 DEF tfs_open, OpenNew

\* The service starts with no file and no handle.
LEMMA InitRefines == Init => Service!Init
<1> SUFFICES ASSUME Init PROVE Service!Init
  OBVIOUS
<1>1. UsedEntries = {} /\ takenHandles = {} /\ ret = [val |-> 0, data |-> <<>>]
  BY DEF Init, UsedEntries, EmptyDirectory
<1>2. FileNames = {}
  BY <1>1 DEF FileNames
<1>3. FileMap = <<>> /\ OpenMap = <<>>
  BY <1>1, <1>2, NoElements DEF FileMap, OpenMap
<1> QED
  BY <1>1, <1>3 DEF Service!Init

\* Every step is a step of the service or a stutter.
LEMMA StepRefines ==
    ASSUME ~ClosedHandles, PlainNames, RefInv, RefInv', [Next]_vars
    PROVE  [Service!Next]_Service!vars
<1>1. CASE UNCHANGED vars
  <2>1. UNCHANGED <<store, ret>>
    BY <1>1 DEF vars
  <2> QED
    BY <2>1, StoreKept DEF Service!vars
<1>2. ASSUME NEW p \in Paths, tfs_lookup(p) PROVE Service!Next
  BY <1>2, LookupRefines DEF Service!Next
<1>3. ASSUME NEW p \in Paths, NEW flags \in Flags, tfs_open(p, flags) PROVE Service!Next
  <2>1. flags \in Service!Flags
    BY DEF Flags, Service!Flags
  <2> QED
    BY <1>3, <2>1, OpenCallRefines DEF Service!Next
<1>4. ASSUME NEW h \in Handles \cup {-1}, tfs_close(h) PROVE Service!Next
  BY <1>4, CloseRefines DEF Service!Next
<1>5. ASSUME NEW h \in Handles, NEW len \in 0 .. BLOCK_SIZE + 1, tfs_read(h, len) PROVE Service!Next
  <2>1. h \in takenHandles
    BY <1>5 DEF tfs_read, Usable
  <2>2. h \in DOMAIN OpenMap
    BY <2>1, OpenHandle
  <2> QED
    BY <1>5, <2>1, <2>2, ReadRefines DEF Service!Next
<1>6. ASSUME NEW h \in Handles, NEW data \in Contents, tfs_write(h, data) PROVE Service!Next
  <2>1. h \in takenHandles
    BY <1>6 DEF tfs_write, Usable
  <2>2. h \in DOMAIN OpenMap
    BY <2>1, OpenHandle
  <2> QED
    BY <1>6, <2>1, <2>2, WriteRefines DEF Service!Next
<1>7. CASE tfs_init
  BY <1>7, RestartRefines DEF Service!Next
<1> QED
  BY <1>1, <1>2, <1>3, <1>4, <1>5, <1>6, <1>7 DEF Next

\* The invariant that the refinement needs holds.
LEMMA RefInvariant == ASSUME ~SharedTruncate, PlainNames PROVE Spec => []RefInv
BY HandlesInvariant, NamesCorrect, PTL DEF RefInv

\* The tables, blocks and i-nodes implement FileService, for callers that keep
\* to open handles and do not truncate a file that is open, whose names fit in
\* a directory entry: what is read is what was last written there, through
\* whichever handle, and no call touches a file other than its own
\* (operations.c:42-240).
THEOREM ServiceImplemented ==
    ASSUME ~SharedTruncate, ~ClosedHandles, PlainNames
    PROVE  Spec => ImplementsService
<1>1. RefInv /\ RefInv' /\ [Next]_vars => [Service!Next]_Service!vars
  BY StepRefines
<1> QED
  BY <1>1, InitRefines, RefInvariant, PTL DEF Spec, ImplementsService, Service!Spec

\* Such callers never make a write run out of the memory of the process
\* (operations.c:169-184).
THEOREM NeverCrashes ==
    ASSUME ~SharedTruncate, ~ClosedHandles, PlainNames
    PROVE  Spec => [](crashed = FALSE)
<1>1. Init => crashed = FALSE
  BY DEF Init
<1>2. RefInv /\ crashed = FALSE /\ [Next]_vars => (crashed = FALSE)'
  <2> SUFFICES ASSUME RefInv, crashed = FALSE, [Next]_vars PROVE crashed' = FALSE
    OBVIOUS
  <2>1. ASSUME NEW h \in Handles, NEW data \in Contents, tfs_write(h, data) PROVE crashed' = FALSE
    <3>1. h \in takenHandles
      BY <2>1 DEF tfs_write, Usable
    <3> QED
      BY <2>1, <3>1, WriteRefines
  <2> QED
    BY <2>1 DEF Next, vars
<1> QED
  BY <1>1, <1>2, RefInvariant, PTL DEF Spec

-----------------------------------------------------------------------------
(* What callers that truncate shared files or use closed handles still have. *)

\* A file whose i-node and whose block's bytes a step leaves alone.
LEMMA FileUntouched ==
    ASSUME NEW j \in Files, inode_table'[j] = inode_table[j], StateInv,
           inode_table[j].i_size > 0 =>
             \A x \in 0 .. BLOCK_SIZE - 1 :
               fs_data'[inode_table[j].i_data_block * BLOCK_SIZE + x] =
                 fs_data[inode_table[j].i_data_block * BLOCK_SIZE + x]
    PROVE  ContentOf(j)' = ContentOf(j)
<1> DEFINE m == inode_table[j].i_size
           start == inode_table[j].i_data_block * BLOCK_SIZE
<1>1. m \in 0 .. BLOCK_SIZE /\ BLOCK_SIZE \in Nat /\ start \in Int
  <2>1. j \in Inumbers /\ TypeOK
    BY DEF StateInv, TypeInv, TypeOK, Files
  <2>2. inode_table[j].i_data_block \in Int /\ m \in 0 .. BLOCK_SIZE /\ BLOCK_SIZE \in Nat
    BY <2>1, StateAssumption DEF TypeOK, Blocks
  <2> QED
    BY <2>2
<1>2. /\ ContentOf(j) = [k \in 1 .. m |-> fs_data[start + k - 1]]
      /\ ContentOf(j)' = [k \in 1 .. m |-> fs_data'[start + k - 1]]
  BY DEF ContentOf
<1>3. m > 0 => \A x \in 0 .. BLOCK_SIZE - 1 : fs_data'[start + x] = fs_data[start + x]
  OBVIOUS
<1> HIDE DEF m, start
<1>4. ASSUME NEW k \in 1 .. m PROVE fs_data'[start + k - 1] = fs_data[start + k - 1]
  <2>1. k - 1 \in 0 .. BLOCK_SIZE - 1 /\ m > 0 /\ start + (k - 1) = start + k - 1
    BY <1>1
  <2>2. fs_data'[start + (k - 1)] = fs_data[start + (k - 1)]
    BY <1>3, <2>1
  <2> QED
    BY <2>1, <2>2
<1> QED
  BY <1>2, <1>4

\* A write of n bytes touches, of the bytes that files have, only those of the
\* handle's own file that it passes over.
LEMMA WriteKeepsBytes ==
    ASSUME StateInv, StateInv', NEW h \in Handles, NEW data \in Contents, Usable(h),
           NEW block, block # -1,
           LET inode == inode_table[open_file_table[h].of_inumber]
           IN  block = IF inode.i_size = 0 THEN FirstFree(DATA_BLOCKS, takenBlocks)
                       ELSE inode.i_data_block,
           WriteLength(open_file_table[h], data) \in 1 .. BLOCK_SIZE,
           WriteBytes(h, block, data, WriteLength(open_file_table[h], data)),
           NEW j \in Files
    PROVE  KeepsBytes(j)
<1> DEFINE i == open_file_table[h].of_inumber
           off == open_file_table[h].of_offset
           n == WriteLength(open_file_table[h], data)
           size == inode_table[i].i_size
<1>0. TypeOK /\ TypeOK' /\ BLOCK_SIZE \in Nat /\ OpenFilesExist
  BY StateAssumption DEF StateInv, TypeInv
<1>1. i \in Files /\ i \in Inumbers /\ j \in Inumbers /\ off \in Nat /\ size \in 0 .. BLOCK_SIZE
  BY <1>0 DEF Usable, OpenFilesExist, Files, TypeOK
<1>2. off + n <= BLOCK_SIZE /\ n \in 1 .. BLOCK_SIZE
  <2>1. off <= MaxOffset + BLOCK_SIZE + 1
    BY DEF StateInv, TypeInv, OffsetsBounded
  <2> QED
    BY <1>0, <2>1, WriteFits
<1>3. /\ fs_data' = Copied(block, off, data, n)
      /\ inode_table' = [inode_table EXCEPT ![i].i_data_block = block,
                                            ![i].i_size = SizeAfterWrite(@, off + n)]
      /\ open_file_table' = [open_file_table EXCEPT ![h].of_offset = off + n]
  BY DEF WriteBytes
<1>4. block = IF size = 0 THEN FirstFree(DATA_BLOCKS, takenBlocks) ELSE inode_table[i].i_data_block
  OBVIOUS
<1> HIDE DEF i, off, n, size
<1>5. /\ block \in Blocks
      /\ \A l \in Files \ {i} : inode_table[l].i_size > 0 =>
           inode_table[l].i_data_block \in Blocks \ {block}
  <2>1. CASE size = 0
    <3>1. block = FirstFree(DATA_BLOCKS, takenBlocks) /\ DATA_BLOCKS \in Nat
      BY <1>4, <2>1, StateAssumption
    <3>2. block \in Blocks \ takenBlocks
      BY <3>1, FirstFreeWorks DEF Blocks
    <3> QED
      BY <3>2, OwnBlock
  <2>2. CASE size # 0
    <3>1. size > 0
      BY <1>0, <1>1, <2>2
    <3> QED
      BY <1>1, <1>4, <2>2, <3>1, OwnBlock DEF size
  <2> QED
    BY <2>1, <2>2
<1>6. \A c \in Blocks, x \in 0 .. BLOCK_SIZE - 1 :
        fs_data'[c * BLOCK_SIZE + x] =
          IF c = block /\ x \in off .. off + n - 1 THEN data[x - off + 1]
          ELSE fs_data[c * BLOCK_SIZE + x]
  <2>1. fs_data' = Copied(block, off, data, n) /\ block \in Blocks
    BY <1>3, <1>5
  <2>2. off \in Nat /\ n \in Nat /\ off + n <= BLOCK_SIZE
    BY <1>0, <1>1, <1>2
  <2>3. ASSUME NEW c \in Blocks, NEW x \in 0 .. BLOCK_SIZE - 1
        PROVE  fs_data'[c * BLOCK_SIZE + x] =
                 IF c = block /\ x \in off .. off + n - 1 THEN data[x - off + 1]
                 ELSE fs_data[c * BLOCK_SIZE + x]
    BY <2>1, <2>2, CopiedBytes
  <2> QED
    BY <2>3
<1>7. /\ \A l \in Inumbers \ {i} : inode_table'[l] = inode_table[l]
      /\ inode_table'[i].i_data_block = block
      /\ inode_table'[i].i_size = IF off + n > size THEN off + n ELSE size
  <2> DEFINE length == SizeAfterWrite(inode_table[i].i_size, off + n)
  <2>1. inode_table' = [inode_table EXCEPT ![i].i_data_block = block, ![i].i_size = length]
    BY <1>3
  <2>2. length = IF off + n > size THEN off + n ELSE size
    BY DEF SizeAfterWrite, size
  <2> HIDE DEF length
  <2> QED
    BY <1>0, <1>1, <2>1, <2>2 DEF TypeOK
<1>8. CASE j # i
  <2>1. inode_table'[j] = inode_table[j]
    BY <1>1, <1>7, <1>8
  <2>2. ContentOf(j)' = ContentOf(j)
    BY <1>5, <1>6, <1>8, <2>1, FileUntouched
  <2> QED
    BY <2>2 DEF KeepsBytes
<1>9. CASE j = i
  <2> DEFINE m == inode_table'[i].i_size
             start == block * BLOCK_SIZE
  <2>1. /\ m \in Nat /\ m >= size /\ m <= BLOCK_SIZE /\ size \in Nat
        /\ start \in Nat
    BY <1>0, <1>1, <1>2, <1>5, <1>7 DEF Blocks
  <2>2. ASSUME NEW k \in 1 .. m, ~(k \in 1 .. size /\ k \notin off + 1 .. off + n)
        PROVE  k \in Writes(h, i)
    <3>1. open_file_table'[h].of_offset = off + n
      <4>1. open_file_table' = [open_file_table EXCEPT ![h].of_offset = off + n]
        BY <1>3
      <4> QED
        BY <1>0, <4>1 DEF TypeOK
    <3>2. off + n # off /\ k \in 1 .. off + n /\ (k > off \/ k > size)
      BY <1>1, <1>2, <1>7, <2>1, <2>2
    <3> QED
      BY <3>1, <3>2 DEF Writes, i, off, size
  <2>3. ASSUME NEW k \in 1 .. size, k \notin off + 1 .. off + n
        PROVE  ContentOf(j)'[k] = ContentOf(j)[k]
    <3>1. inode_table[i].i_data_block = block
      BY <1>1, <1>4, <2>1
    <3>2. /\ ContentOf(j) = [l \in 1 .. size |-> fs_data[start + l - 1]]
          /\ ContentOf(j)' = [l \in 1 .. m |-> fs_data'[start + l - 1]]
      BY <1>7, <1>9, <3>1 DEF ContentOf, size
    <3> HIDE DEF start, m
    <3>3. /\ k - 1 \in 0 .. BLOCK_SIZE - 1 /\ k \in 1 .. m
          /\ start + (k - 1) = start + k - 1
      BY <1>0, <1>1, <2>1, <2>3
    <3>4. k - 1 \notin off .. off + n - 1
      BY <1>1, <1>2, <2>3
    <3>5. fs_data'[start + (k - 1)] = fs_data[start + (k - 1)]
      BY <1>5, <1>6, <3>3, <3>4 DEF start
    <3> QED
      BY <3>2, <3>3, <3>5
  <2>4. \A k \in 1 .. m :
          \/ k <= size /\ ContentOf(j)'[k] = ContentOf(j)[k]
          \/ \E g \in Handles : k \in Writes(g, j)
    BY <1>9, <2>1, <2>2, <2>3
  <2> QED
    BY <1>9, <2>1, <2>4 DEF KeepsBytes, size
<1> QED
  BY <1>8, <1>9

\* So does every other step.
LEMMA StepKeepsBytes ==
    ASSUME StateInv, StateInv', [Next]_vars, NEW j \in Files \cap Files'
    PROVE  KeepsBytes(j)
<1>0. TypeOK /\ j \in Inumbers /\ j \in takenInodes /\ j # ROOT_DIR_INUM
  BY DEF StateInv, TypeInv, TypeOK, Files
<1>1. CASE UNCHANGED <<inode_table, fs_data>>
  BY <1>1 DEF KeepsBytes, ContentOf
<1>2. ASSUME NEW p \in Paths, NEW flags \in Flags, AnyOpen(lookup(p), flags)
      PROVE  KeepsBytes(j)
  <2> DEFINE inum == lookup(p)
             size == IF "TFS_O_TRUNC" \in flags THEN 0 ELSE inode_table[inum].i_size
  <2>1. inum \in Inumbers
    BY <1>0, <1>2, LookupFinds DEF AnyOpen, UsedEntries, TypeOK
  <2>2. inode_table' = [inode_table EXCEPT ![inum].i_size = size] /\ fs_data' = fs_data
    BY <1>2 DEF AnyOpen, OpenExisting
  <2>3. CASE j = inum /\ size = 0
    BY <1>0, <2>1, <2>2, <2>3 DEF KeepsBytes, TypeOK
  <2>4. CASE j # inum \/ size = inode_table[inum].i_size
    <3>1. inode_table'[j] = inode_table[j]
      BY <1>0, <2>1, <2>2, <2>4 DEF TypeOK
    <3> QED
      BY <2>2, <3>1, FileUntouched DEF KeepsBytes
  <2> QED
    BY <2>3, <2>4
<1>3. ASSUME NEW p \in Paths, AnyCreation(p.name) PROVE KeepsBytes(j)
  <2> DEFINE inum == FirstFree(INODE_TABLE_SIZE, takenInodes)
  <2>1. inum \in Inumbers \ takenInodes
    BY <1>3, FirstFreeWorks, StateAssumption DEF AnyCreation, Inumbers
  <2> HIDE DEF inum
  <2>2. inode_table' = [inode_table EXCEPT ![inum] = FileInode] /\ fs_data' = fs_data
    BY <1>3 DEF AnyCreation, Creates, CreationUndone, inum
  <2>3. inode_table'[j] = inode_table[j]
    BY <1>0, <2>1, <2>2 DEF TypeOK
  <2> QED
    BY <2>2, <2>3, FileUntouched DEF KeepsBytes
<1>4. ASSUME NEW h \in Handles, NEW data \in Contents, Usable(h), AnyWrite(h, data)
      PROVE  KeepsBytes(j)
  <2> DEFINE i == open_file_table[h].of_inumber
             n == WriteLength(open_file_table[h], data)
             block == IF inode_table[i].i_size = 0 THEN FirstFree(DATA_BLOCKS, takenBlocks)
                      ELSE inode_table[i].i_data_block
  <2>1. i \in Files /\ i \in Inumbers
    BY <1>0, <1>4 DEF Usable, StateInv, TypeInv, OpenFilesExist, Files, TypeOK
  <2>2. CASE block = -1 /\ WriteFails(i)
    <3>1. ~(inode_table[i].i_size > 0)
      BY <2>1, <2>2, OwnBlock, StateAssumption DEF Blocks
    <3>2. inode_table' = [inode_table EXCEPT ![i].i_data_block = -1] /\ fs_data' = fs_data
      BY <2>2 DEF WriteFails
    <3>3. inode_table[i].i_size = 0
      BY <1>0, <2>1, <3>1, StateAssumption DEF TypeOK
    <3>4. j = i => inode_table'[j].i_size = 0
      BY <1>0, <2>1, <3>2, <3>3 DEF TypeOK
    <3>5. j # i => inode_table'[j] = inode_table[j]
      BY <1>0, <2>1, <3>2 DEF TypeOK
    <3> QED
      BY <3>2, <3>4, <3>5, FileUntouched DEF KeepsBytes
  <2>3. CASE n \in 1 .. BLOCK_SIZE /\ block # -1 /\ WriteBytes(h, block, data, n)
    BY <1>4, <2>3, WriteKeepsBytes
  <2> QED
    BY <1>4, <2>2, <2>3 DEF AnyWrite
<1>5. CASE tfs_init
  BY <1>0, <1>5 DEF tfs_init, Files
<1> QED
  BY <1>0, <1>1, <1>2, <1>3, <1>4, <1>5, StepCases DEF store, tfs_close, AnyRead

\* A byte of a file is lost only by a truncation of this file, and changes only
\* when a write through a handle that leads to it passes over it, whoever else
\* truncates, writes through closed handles or takes the blocks that were freed
\* (operations.c:83-90 and 167-190, state.c:254-281 and 329-339).
THEOREM BytesStay == Spec => BytesKept
<1>1. StateInv /\ StateInv' /\ [Next]_vars
        => [\A i \in Files \cap Files' : KeepsBytes(i)]_<<inode_table, fs_data>>
  BY StepKeepsBytes
<1> QED
  BY <1>1, StateInvariant, PTL DEF Spec, BytesKept

\* A write whose length is a wrapped difference, which would leave the memory of
\* the process, can only be one through a handle that stands beyond the block:
\* the subtraction of operations.c:169 is right everywhere else, the end of a block
\* and handles that stand beyond the end of their file included.
THEOREM WildWriteFarOnly ==
    Spec => [][crashed' => crashed \/ \E h \in Handles :
                 Usable(h) /\ open_file_table[h].of_offset > BLOCK_SIZE]_vars
<1>1. ASSUME TypeOK, NEW h \in Handles, NEW data \in Contents, tfs_write(h, data), crashed' # crashed
      PROVE  Usable(h) /\ open_file_table[h].of_offset > BLOCK_SIZE
  <2> DEFINE off == open_file_table[h].of_offset
             n == WriteLength(open_file_table[h], data)
  <2>1. n > BLOCK_SIZE /\ Usable(h)
    BY <1>1 DEF tfs_write
  <2>2. /\ off \in Nat /\ Len(data) \in Nat /\ BLOCK_SIZE \in Nat
        /\ SizeModulus \in Nat \ {0} /\ SizeModulus > BLOCK_SIZE
    BY <1>1, StateAssumption DEF TypeOK
  <2>3. CASE Len(data) + off <= BLOCK_SIZE
    BY <2>1, <2>2, <2>3 DEF WriteLength
  <2>4. CASE Len(data) + off > BLOCK_SIZE /\ off <= BLOCK_SIZE
    <3>1. n = BLOCK_SIZE - off
      BY <2>2, <2>4, Difference DEF WriteLength
    <3> QED
      BY <2>1, <2>2, <3>1
  <2> QED
    BY <2>1, <2>2, <2>3, <2>4
<1>2. TypeOK /\ [Next]_vars =>
        [crashed' => crashed \/ \E h \in Handles :
           Usable(h) /\ open_file_table[h].of_offset > BLOCK_SIZE]_vars
  <2> SUFFICES ASSUME TypeOK, [Next]_vars, crashed' # crashed
               PROVE  \E h \in Handles : Usable(h) /\ open_file_table[h].of_offset > BLOCK_SIZE
    BY DEF TypeOK
  <2>1. PICK h \in Handles, data \in Contents : tfs_write(h, data)
    BY DEF Next, vars
  <2> QED
    BY <1>1, <2>1
<1> QED
  BY <1>2, TypeCorrect, PTL DEF Spec

=============================================================================
