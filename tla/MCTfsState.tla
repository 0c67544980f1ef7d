----------------------------- MODULE MCTfsState -----------------------------
(* Values of TfsState's constants for TLC: three names that fit an entry of *)
(* the directory and one too long for it, which is cut to the first; paths  *)
(* that are absolute, the path "/", and a path without the '/'.             *)
EXTENDS TfsState, TLC

CONSTANTS a, b, c, a_too_long

ShortNames == {a, b, c}
AllNames == {a, a_too_long}
Uncut == [n \in ShortNames |-> n]
Cut == [n \in AllNames |-> a]

PlainPaths == [absolute : {TRUE}, name : ShortNames \cup {NoName}]
AllPaths == [absolute : {TRUE}, name : AllNames \cup {NoName}]
              \cup [absolute : {FALSE}, name : {a}]

MCContents == {<<1>>, <<2, 1>>}
\* Bytes that change what they overwrite, new blocks being zeros.
LongContents == {<<0>>, <<1, 1, 1>>}

\* The short names differ in nothing where none is cut.
Symmetry == Permutations(ShortNames)

\* What a later call can depend on: not the last result; not what is left in a
\* free i-node, which taking it overwrites; of the block that an empty file had,
\* only whether it had one; and of an offset beyond MaxOffset, only that it is,
\* for no read starts there and every write fails or wraps.
Observable ==
    <<[i \in takenInodes |->
         IF inode_table[i].i_size = 0 /\ inode_table[i].i_data_block # -1
         THEN [inode_table[i] EXCEPT !.i_data_block = 0] ELSE inode_table[i]],
      dir_entry, fs_data, takenBlocks, takenHandles,
      [h \in Handles |->
         IF open_file_table[h].of_offset > MaxOffset
         THEN [open_file_table[h] EXCEPT !.of_offset = MaxOffset + 1] ELSE open_file_table[h]],
      crashed>>

\* While no handle stands beyond the end of its file, what is left in a block
\* after the end of the file, in a free block, or in a handle that is closed, is
\* not read either.
ObservableFiles ==
    <<[i \in takenInodes |-> inode_table[i]], dir_entry,
      [i \in Files |-> ContentOf(i)], takenBlocks,
      [h \in takenHandles |-> open_file_table[h]], crashed>>
=============================================================================
