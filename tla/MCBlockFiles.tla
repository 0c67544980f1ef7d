---------------------------- MODULE MCBlockFiles ----------------------------
(***************************************************************************)
(* Constants of BlockFiles for TLC that a configuration cannot express.    *)
(***************************************************************************)
EXTENDS BlockFiles, TLC

\* Files are opened as they are, emptied, or extended.
MCFlagSets == {{"TFS_O_CREAT"}, {"TFS_O_TRUNC"}, {"TFS_O_CREAT", "TFS_O_APPEND"}}
\* The same, with fewer combinations.
MCFewFlagSets == {{"TFS_O_CREAT", "TFS_O_TRUNC"}, {"TFS_O_APPEND"}}

\* Files are created, to be extended or not; none is emptied.
MCCreatingFlagSets == {{"TFS_O_CREAT"}, {"TFS_O_CREAT", "TFS_O_APPEND"}}

\* Three bytes, in blocks of two, and two, in blocks of one.
MCLongContents == {<<7, 8, 9>>}
MCShortContents == {<<7, 8>>}
\* Two buffers that differ in every byte, so that who overwrote what shows.
MCDistinctContents == {<<1>>, <<7, 8>>}

MCSymmetry == Permutations(Threads) \cup Permutations(Names)

=============================================================================
