---------------------------- MODULE FileStreams ----------------------------
(***************************************************************************)
(* What TecnicoFS of Parte 1 promises to threads that share files and      *)
(* handles: a write or a read takes effect at one instant, a write through *)
(* an appending handle at the end of the file at that instant.  An open is *)
(* not one instant: it creates or empties the file first, and hands out    *)
(* the handle later.  There are no blocks, tables or locks here.           *)
(*                                                                         *)
(* Another open may empty a file under a handle that has moved.  Nothing   *)
(* is promised of the bytes between the end of the file and the position   *)
(* of such a handle: NoByte is one that cannot be read.                    *)
(***************************************************************************)
EXTENDS Integers, Sequences

CONSTANTS
    Names,        \* names of files
    Handles,      \* file handles
    Contents,     \* the byte sequences a caller may write
    NoByte,       \* stands for a byte of a file that was never stored
    MaxSize       \* largest size of a file

VARIABLES
    files,        \* content of each file that exists
    open,         \* name, offset and mode of each open handle
    ret           \* value and data that the last call returned

vars == <<files, open, ret>>

Put(f, x, y) == [z \in DOMAIN f \cup {x} |-> IF z = x THEN y ELSE f[z]]

Least(a, b) == IF a < b THEN a ELSE b

Returns(call, v) == ret' = [call |-> call, val |-> v, data |-> <<>>]

Init ==
    /\ files = <<>>
    /\ open = <<>>
    /\ ret = [call |-> "tfs_init", val |-> 0, data |-> <<>>]

Restart == files' = <<>> /\ open' = <<>> /\ Returns("tfs_init", 0)

\* The first instant of an open: the file comes to exist, or is emptied.
Prepare(n) ==
    /\ files' = Put(files, n, <<>>)
    /\ UNCHANGED <<open, ret>>

\* The last one.
Open(n, h) ==
    /\ n \in DOMAIN files /\ h \notin DOMAIN open
    /\ \E appends \in BOOLEAN :
         open' = Put(open, h, [name |-> n, offset |-> 0, appends |-> appends])
    /\ Returns("tfs_open", h)
    /\ UNCHANGED files

OpenFails == Returns("tfs_open", -1) /\ UNCHANGED <<files, open>>

Close(h) ==
    /\ open' = [g \in DOMAIN open \ {h} |-> open[g]]
    /\ Returns("tfs_close", 0)
    /\ UNCHANGED files

\* The first k bytes of data are stored, at the end of the file or at the
\* position of the handle; between the two lies what is not promised.
Write(h, data, k) ==
    LET n == open[h].name
        old == files[n]
        new == files'[n]
        off == IF open[h].appends THEN Len(old) ELSE open[h].offset
    IN  /\ Returns("tfs_write", k)
        /\ off + k <= MaxSize
        /\ open' = [open EXCEPT ![h].offset =
                      IF open[h].appends THEN 0 ELSE off + k]
        /\ \/ k = 0 /\ UNCHANGED files
           \/ /\ files' = [files EXCEPT ![n] = new]
              /\ Len(new) = IF off + k > Len(old) THEN off + k ELSE Len(old)
              /\ SubSeq(new, off + 1, off + k) = SubSeq(data, 1, k)
              /\ \A i \in DOMAIN old \ (off + 1 .. off + k) : new[i] = old[i]

\* What is left of the file, at most len bytes of it; nothing through a
\* handle that appends.
Read(h, len) ==
    LET f == files[open[h].name]
        off == open[h].offset
        got == IF open[h].appends THEN <<>>
               ELSE SubSeq(f, off + 1, Least(off + len, Len(f)))
    IN  /\ off <= Len(f)
        /\ \A i \in DOMAIN got : got[i] # NoByte
        /\ open' = [open EXCEPT ![h].offset = off + Len(got)]
        /\ ret' = [call |-> "tfs_read", val |-> Len(got), data |-> got]
        /\ UNCHANGED files

\* From a position the file ends before, or over a byte that was never stored.
ReadPast(h, len) ==
    LET f == files[open[h].name]
        off == open[h].offset
    IN  \/ /\ \/ off > Len(f)
              \/ \E i \in off + 1 .. Least(off + len, Len(f)) : f[i] = NoByte
           /\ Returns("tfs_read", -1)
           /\ UNCHANGED <<files, open>>
        \/ /\ off > Len(f)
           /\ ret'.call = "tfs_read"
           /\ ret'.val \in 1 .. len
           /\ open' = [open EXCEPT ![h].offset = off + ret'.val]
           /\ UNCHANGED files

\* Bytes that were never stored become bytes of whatever value.
Settle(n) ==
    LET old == files[n]
        new == files'[n]
    IN  /\ files' = [files EXCEPT ![n] = new]
        /\ DOMAIN new = DOMAIN old
        /\ \A i \in DOMAIN old : old[i] # NoByte => new[i] = old[i]
        /\ UNCHANGED <<open, ret>>

Next ==
    \/ Restart
    \/ OpenFails
    \/ \E n \in Names : Prepare(n) \/ \E h \in Handles : Open(n, h)
    \/ \E n \in DOMAIN files : Settle(n)
    \/ \E h \in DOMAIN open :
         \/ Close(h)
         \/ \E data \in Contents, k \in 0 .. MaxSize :
              k <= Len(data) /\ Write(h, data, k)
         \/ \E len \in 1 .. MaxSize + 1 : Read(h, len) \/ ReadPast(h, len)

Spec == Init /\ [][Next]_vars

=============================================================================
