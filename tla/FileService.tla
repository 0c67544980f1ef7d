---------------------------- MODULE FileService ----------------------------
(***************************************************************************)
(* What TecnicoFS promises the caller of tfs_open, tfs_close, tfs_write,   *)
(* tfs_read and tfs_lookup: a map from names to contents and a map from    *)
(* handles to positions.  There are no i-nodes, blocks or tables here:     *)
(* that they run out shows only as a call that may fail.                   *)
(***************************************************************************)
EXTENDS Integers, Sequences

CONSTANTS
    Names,        \* names of files
    Handles,      \* file handles
    Inumbers,     \* what tfs_lookup answers for a file that exists
    Contents,     \* the byte sequences a caller may write, and <<>>
    MaxSize       \* largest size of a file

VARIABLES
    files,        \* content of each file that exists
    open,         \* name and offset of each open handle
    ret           \* value and data that the last call returned

vars == <<files, open, ret>>

Returns(v) == ret' = [val |-> v, data |-> <<>>]

Restart ==
    /\ Returns(0)
    /\ open' = <<>>
    /\ files' = <<>>

Init ==
    /\ files = <<>>
    /\ open = <<>>
    /\ ret = [val |-> 0, data |-> <<>>]

Least(a, b) == IF a < b THEN a ELSE b

Put(f, x, y) == [z \in DOMAIN f \cup {x} |-> IF z = x THEN y ELSE f[z]]

Lookup(n) ==
    /\ \E i \in IF n \in DOMAIN files THEN Inumbers ELSE {-1} : Returns(i)
    /\ UNCHANGED <<files, open>>

\* Opening empties the file, creates it, or keeps it; where it starts to read
\* and write, the beginning or the end, comes after that.
Open(n, flags) ==
    LET kept == n \in DOMAIN files /\ "TFS_O_TRUNC" \notin flags
        content == IF kept THEN files[n] ELSE <<>>
    IN  \E h \in Handles :
          /\ Returns(h)
          /\ h \notin DOMAIN open
          /\ open' = Put(open, h,
               [name |-> n,
                offset |-> IF "TFS_O_APPEND" \in flags THEN Len(content) ELSE 0])
          /\ n \in DOMAIN files \/ "TFS_O_CREAT" \in flags
          /\ files' = Put(files, n, content)

\* An open that fails opens nothing, but may have emptied or created the file.
OpenFails(n, flags) ==
    /\ Returns(-1)
    /\ UNCHANGED open
    /\ \/ UNCHANGED files
       \/ /\ n \in DOMAIN files /\ "TFS_O_TRUNC" \in flags
          /\ files' = [files EXCEPT ![n] = <<>>]
       \/ /\ n \notin DOMAIN files /\ "TFS_O_CREAT" \in flags
          /\ files' = Put(files, n, <<>>)

Close(h) ==
    /\ Returns(0)
    /\ h \in DOMAIN open
    /\ open' = [g \in DOMAIN open \ {h} |-> open[g]]
    /\ UNCHANGED files

\* What fits in the file is written over its content at the offset.
Write(h, data) ==
    LET n == open[h].name
        off == open[h].offset
        fits == SubSeq(data, 1, Least(Len(data), MaxSize - off))
        old == files[n]
    IN  /\ Returns(Len(fits))
        /\ open' = [open EXCEPT ![h].offset = off + Len(fits)]
        /\ files' = [files EXCEPT ![n] =
                       SubSeq(old, 1, off) \o fits
                         \o SubSeq(old, off + Len(fits) + 1, Len(old))]

\* What is left of the file, at most len bytes of it.
Read(h, len) ==
    LET n == open[h].name
        off == open[h].offset
        got == SubSeq(files[n], off + 1, Least(off + len, Len(files[n])))
    IN  /\ open' = [open EXCEPT ![h].offset = off + Len(got)]
        /\ ret' = [val |-> Len(got), data |-> got]
        /\ UNCHANGED files

\* A call on a handle that is not open, or a write with the disk full.
CallFails == Returns(-1) /\ UNCHANGED <<files, open>>

Flags == SUBSET {"TFS_O_CREAT", "TFS_O_TRUNC", "TFS_O_APPEND"}

Next ==
    \/ Restart
    \/ CallFails
    \/ \E h \in DOMAIN open :
         \/ Close(h)
         \/ \E data \in Contents : Write(h, data)
         \/ \E len \in 0 .. MaxSize + 1 : Read(h, len)
    \/ \E n \in Names : Lookup(n)
    \/ \E n \in Names, flags \in Flags : Open(n, flags) \/ OpenFails(n, flags)

Spec == Init /\ [][Next]_vars

=============================================================================
