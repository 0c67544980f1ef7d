# TecnicoFS in TLA+

TecnicoFS is a small file system kept in the memory of one process. The
repository holds two versions. `Parte1/tecnicofs-v2` is a library whose files
have several blocks and whose threads are synchronised by fine-grained locks.
`Parte2/tecnicofs_ex2` has one-block files and one global mutex, and puts the
file system behind a server that talks to client processes over named pipes.
The modules here model both. All paths below are relative to
`src/Parte2/tecnicofs_ex2` unless they name Parte 1, which
is `src/Parte1/tecnicofs-v2`.

## Inventory

| Component | State | Operations | What makes it correct |
|---|---|---|---|
| File system calls and their synchronisation, `fs/operations.c` | `single_global_lock`, `condVar`, the signed counter `openFiles` | `tfs_init`, `tfs_destroy_after_all_closed`, `tfs_lookup`, `tfs_open`, `tfs_close`, `tfs_write`, `tfs_read` | the counter is the number of open files; nothing is destroyed while a file is open; no wakeup is lost; every call returns |
| File system state, `fs/state.c` and the unsynchronised bodies in `operations.c` | i-node table, root directory, data blocks, open file table, their allocation maps | creation, truncation, allocation and release of i-nodes, entries, blocks and handles | a block belongs to at most one file; the directory and the i-node map agree; handles stay within their file; together they are a map from names to contents |
| Server, `fs/tfs_server.c` | the server's pipe, `clientsFHandle[S]`, one `threadBuffers` entry, mutex and condition variable per session | receiver thread, S worker threads, `handle_tfs_*` | a session belongs to one client; each request is executed once and answered to who sent it; mounts are refused only when all sessions are taken; the process ends only by a shutdown, with no file open |
| Client library, `client/tecnicofs_client_api.c` | `session_id`, the two pipe descriptors | `tfs_mount`, `tfs_unmount`, the four file calls, `tfs_shutdown_after_all_closed` | every call returns with the reply to its own request |
| Parte 1 library, `Parte1/tecnicofs-v2/fs` | i-nodes with direct and indirect blocks, an rwlock per i-node, a mutex per open file entry, three global locks | as above, and `tfs_copy_to_external_fs` | blocks stay accounted for; no deadlock; two creations of one name make one file; writes, reads and truncations are atomic; an append overwrites nothing |
| Tests and build files | none | | |

How they interact. A client writes a request into the server's pipe, then opens
or reads its own pipe. The receiver takes requests one at a time; a mount gets
a session from the table, everything else carries its session. The receiver
leaves the request in the one-place buffer of that session under the session's
mutex and signals its worker, which executes it by calling `tfs_*` (each a
critical section of `single_global_lock`) and writes the reply into the
client's pipe. The session table is written by the receiver and by the workers
under `openClientSessionMutex`; the handlers read it without. A worker that
executes `tfs_shutdown_after_all_closed` sleeps with its session's mutex until
another worker closes the last file, and then ends the process.

What is hard. The condition waits are under an `if` and not in a loop. An
error path returns with the mutex locked. A session is released twice by an
unmount, with the reply in between. Requests, replies and releases of several
clients interleave. A client may die at any moment. Sizes and offsets are
unsigned, and an offset outlives the truncation of its file. Tables are small
and run out half way through an operation. In Parte 1 a handle is looked up under
a mutex and used after it is released, a call takes up to three locks on many
paths, blocks are taken and freed one at a time (freed without the lock under
which they are taken), and the numbers of some lie in a block that is itself
freed. `PROJECT.json` lists each of these
hazards at its line, with the properties that look at it.

## Modules

### TfsOperations, DestroyBarrier, TfsOperations_proofs

`TfsOperations` models the synchronisation of `operations.c`. A call is two
steps. `CallOpen`, `CallClose`, `CallAccess` and `CallDestroy` put the thread in
front of `pthread_mutex_lock`; `tfs_open`, `tfs_close`, `tfs_access` and
`tfs_destroy_after_all_closed` take the mutex, run the body and unlock in one
step. That is sound because nothing reads or writes this state without the
mutex. The one place that cuts a critical section, `pthread_cond_wait`, is a
stage of its own (`cond_wait`, then `signalled`). The bodies are reduced to
whether they succeed and to the handle they take: the set `taken`.
`tfs_access` stands for `tfs_lookup`, `tfs_read` and `tfs_write`, which do not
touch this state. The mutex is held across steps in one case only, the return
of `tfs_open` at line 129 without an unlock (`OpenRefused`).

`DestroyBarrier` is what the protocol promises: once a destruction is
requested nothing is opened, what is open can be closed, and the destruction
happens exactly when the last file is closed. `TfsOperations` implements it
with `open <- taken` and a phase read off the sign of the counter and the
waiters.

Three constants are the envelope of use. `SpuriousWakeups` lets
`pthread_cond_wait` return unsignalled, as POSIX allows. `RepeatedDestroys` lets
a destruction be requested when one is pending or done. `LateOpens` lets
`tfs_open` be called after the request.

### TfsState, FileService, MCTfsState, TfsState_proofs

`TfsState` models `state.c` with the `_unsynchronized` bodies of
`operations.c`; a call is one step. The allocation maps are sets of taken
indices. `FirstFree` is the search from index 0 that every allocator makes.
The root directory's entries, which lie in block 0, are kept apart from
`fs_data`; nothing else writes block 0 as long as `BlocksAccounted` holds. Sizes
and offsets are subtracted modulo `SizeModulus` (2 to the width of `size_t`).
A path is whether it starts with `/` and what follows its first character;
`Clip` is the cut to `MAX_FILE_NAME - 1` characters that `add_dir_entry` makes.
A failed `data_block_alloc` leaves -1 in the i-node, a creation that finds no
directory entry gives its i-node back, and an `open` that finds no table entry
has already created or truncated its file: all as in the code. `crashed` is a
copy of more bytes than there are in the address space, which
`tfs_write` attempts when the offset is beyond `BLOCK_SIZE`
(`operations.c:169` and 182). In the code that copy writes over what follows the
block until the process is stopped; the model stops there, with the tables as they
were, and says nothing of what the copy destroyed. So every result about the
contents of the tables is about the time before. With `SharedTruncate` and
`ClosedHandles` such a write can happen: a read whose handle stands beyond the end
of its file (`operations.c:218`) takes the handle there.

`tfs_init` in `Next` is a destruction followed by a new start; it clears the
maps and leaves the tables as they are.

`FileService` is a map from names to contents and a map from handles to (name,
offset), in which resources running out shows as a call that may fail.
`SharedTruncate` says whether a file that is open may be truncated by another
`tfs_open`; the refinement holds only without it.

`MCTfsState` gives the names, paths and contents, and the `VIEW`s.
`ClosedHandles` lets a handle be read and written after it was closed, which
`get_open_file_entry` accepts (`Usable`).

### TfsSessions, SessionService, TfsSessions_proofs

`TfsSessions` models the receiver, the workers and the sequential clients of
the library. Each step ends where another thread or process can see or change
something: a pipe operation, a mutex, a condition variable, a write to the
session table. The worker holds its session's mutex from its start to its end
except while it waits, so `writeToBufferPC` is enabled when the worker has not
started, waits, or has been signalled and has not woken. The signal is sent
after the mutex is released (`Signal`), and `Wakes` reads the buffer without
looking at `readable`, as `threadSender` does. `handle_tfs_unmount` is three
steps: `UnmountFinishes` (first `finishClientSession`), `UnmountReplies`,
`UnmountFinishesAgain`. `getAvailableSession` is one step, for it holds `openClientSessionMutex`, under
which all writes to the table are made.

A client is one use of the library from `tfs_mount` to the return of
`tfs_unmount`. The four file calls are one request, `call`; what they do to the
file system is in `TfsOperations` and `TfsState`.

`SessionService` is what the clients see: a session is granted only if nobody
owns it, refused only if all are owned, and released only when its owner left
or died.

Three constants are the envelope. With `SettledStart` all workers sleep before
the first request is read. With `QuietHandover` no mount is read while a worker
is between the two `finishClientSession` of an unmount. `Deaths` lets clients
die at any moment.

### TfsServer, TfsServer_proofs, TfsServerEnd_proofs

`TfsServer` is the two together: an instance `Sess` of `TfsSessions`, and an
instance `Ops` of `TfsOperations` whose threads are the workers. The request
`call` becomes `open`, `close`, `access` (read and write) and `shutdown`, and its
execution several steps: `Enters` reads the client's pipe from the session table
and calls the library, `Executes` is each step of the call, the sleep in
`tfs_destroy_after_all_closed` included, and `Replies` writes the answer. After
the reply to a shutdown the worker unlinks the server's pipe (`Unlinks`) and ends
the process (`Exits`). What is left to the clients is then modelled too: a mount
that does not find the pipe (`MountFails`), SIGPIPE (`WriteBreaks`) and end of
file (`ReadEnds`), at which a call returns whatever its variable held.

`Coarse` maps this back to `TfsSessions`: a call under way is a request not
executed yet. That it is a refinement is what makes the results about
`TfsSessions` hold for the server, although its calls are not instants.

`Orderly` is the envelope: one client asks for the shutdown, once, with no
`tfs_open` under way, and none is sent later. Without it the server hangs, as
`ops_late_open` shows of the library.

### BlockFiles, FileStreams, MCBlockFiles, and the proofs in BlockFiles_proofs, BlockFilesBlocks_proofs, BlockFilesSteps_proofs

`BlockFiles` is Parte 1: any number of threads in the calls of
`operations.c`, on the tables of `state.c`. `rwlock` and `file_entry_mutex` are
variables. A thread's record says how far its call is (`stage`) and holds the
call's local variables. A step ends where another thread could see or change
something:

| Call | Steps |
|---|---|
| `tfs_open` | `CallOpen` (the first lookup), `Creates` (all of `newFileMutex`), `LocksToTruncate`, `FreesBlock` for each block, `Truncates`, `Positions` (the size, read without a lock), `TakesEntry` (all of `addFileEntryMutex`), `FillsEntry` |
| `tfs_close` | `CallClose` |
| `tfs_write` | `CallWrite` (`get_open_file_entry`, and `of_inumber` after it), `LocksToWrite`, `LocksEntryToWrite`, `AllocsBlock`, `AllocsIndirect` and `ReleasesIndirect` for each block, `Writes` |
| `tfs_read` | `CallRead`, `ChecksAppend`, `LocksToRead`, `Reads` |
| `tfs_copy_to_external_fs` | those of an open, then `CopyReads`, those of a read, again and again, and `CopyCloses` |

Some steps merge what the code does separately. A call and its first lookup
are one step, since the thread holds nothing before. The critical sections of
`newFileMutex`, `addFileEntryMutex` and `allocBlock` are one step each: what they
write is not read elsewhere, or is written so that a reader without the lock
sees the old or the new state (`add_dir_entry` writes the name before the
i-number, `Parte1/tecnicofs-v2/fs/state.c:288-289`). The copies of bytes in `Writes` and `Reads`
are one step each under the i-node's lock. `data_block_free` takes no lock but
writes one byte, so it is a step.

A cell of `fs_data` is a byte or, in an indirect block, a block number.
`data_block_alloc` clears nothing. A byte of a file that was never written since
its block was taken (there is one only in a gap, where a write starts past the
end) is what the last owner of the block left there; in the model it is 0. These
bytes are given to a caller only where `FileStreams` promises nothing of them, no
step depends on them, and `blocks_append`, the one run where what is overwritten
decides, has no gaps.

`FileStreams` is what callers may rely on. A write, read, truncation or
creation takes effect at one instant; an open is several. A write through an
appending handle goes to the end of the file at that instant. Two things the
code does make it weaker than a map of byte sequences. After a truncation by
somebody else a handle stands past the end: a read from there fails or returns
bytes that mean nothing (`ReadPast`), and a write leaves a gap with no promise
(`NoByte`, `Settle`). And a disk that fills makes a write shorter.

`HandleReuse` is the envelope: without it a handle is not closed while another
thread uses it, and not used after it was closed.

## Runs

| Run | Shows |
|---|---|
| `ops_quiet` | With one destruction at a time, no open after it is requested and no spurious wakeups: types, no lost wakeup, nothing destroyed while a file is open, every call returns, the destruction terminates, and the protocol implements `DestroyBarrier` with its liveness. |
| `ops_count` | With repeated destructions, late opens and spurious wakeups: the signed counter is still the number of open files. |
| `ops_late_open` (violation) | `operations.c:129` keeps the mutex: the destruction never ends. |
| `state_files` | Without truncation of open files: `HandlesWithinFiles`, `NamesUnique`, and the refinement of `FileService`. |
| `state_shared` | With such truncations, names that are cut, paths without `/` and reads and writes through closed handles: no block is lost or shared (`BlocksAccounted`), the directory and the i-node map agree (`DirectoryConsistent`), and a byte of a file is lost only when this file is truncated, and changed only by a write through a handle that leads to it (`BytesKept`). |
| `sess_quiet` | Without deaths: every call returns, every session is given back, and the server implements `SessionService` with its liveness. |
| `sess_deaths` | With deaths: `SessionExclusive`, `RepliesMatch`, `NoRequestOverwritten` and the safety of `SessionService`. |
| `sess_handover` (violation) | The second `finishClientSession` of an unmount undoes a reservation made in between: the session of a client that has mounted is given to another whose mount is under way. |
| `server_shutdown` | The server with the library below it: the process ends with no file open and the shutdown answered (`ExitsInOrder`), a shutdown happens once no file is open (`ShutdownHappens`), a worker asleep in it stops nobody else (`OthersServed`), and sessions behave as in `TfsSessions` (`ImplementsSessions`). |
| `blocks_streams` | Parte 1 with handles used by their owners: it implements `FileStreams`; no block is lost (`BlocksAccounted`), no lock is kept (`LocksHeld`), only a copy whose read fails loses a handle (`OnlyFailedCopyLoses`). |
| `blocks_reuse` | Parte 1 with handles closed and opened again under their users, and more names than i-nodes and entries: blocks stay accounted for, one entry and one i-node per name (`NamesUnique`), no deadlock (`Progress`), a file changes only under its lock (`FilesApart`), an append overwrites nothing (`AppendsExtend`). |
| `blocks_append` (violation) | A file created with `TFS_O_CREAT` and `TFS_O_APPEND` is not opened to append: its creator's write, at offset 0, overwrites a byte that another handle has written since. |

### Bounds

- Operations: two handles and three threads, two of which may destroy. Two
  handles are the least with which a close may be, or not be, the last one;
  three threads are a waiter, a second requester and one that opens and closes.
- State: four i-nodes (the root and three files), three directory entries, three
  blocks (one is the root's, so the disk is full with two of the three files
  non-empty), two handles, blocks of two bytes, writes of one to three bytes.
  Each table is full in some state and each allocator fails in some state: the
  path `/` asks for a fourth i-node, a path without `/` for a fourth entry, the
  third file for a third block. Two handles on one file and on two files both
  occur. `SizeModulus` is 256: only that it is much larger than any offset
  matters. `MaxOffset` is the one bound in a guard: no read starts beyond it.
  It is not reached as long as `HandlesWithinFiles` holds, and it stops the
  offsets from growing after a wrapped subtraction in `state_shared`.
- The two contents of `state_shared`, `<<0>>` and `<<1, 1, 1>>`, differ in every
  byte, so that a byte that changes shows; that 0 is also what a block holds at
  the start hides nothing, as both are written over each other.
- `VIEW Observable` leaves out the last result and the contents of free i-nodes,
  which no guard or value of a later call depends on: an i-node is overwritten
  when taken, and `ret` is only written. Of an empty file it keeps only whether
  its i-node has a block number, for the first write takes a block and overwrites
  the number, and of an offset beyond `MaxOffset` only that it is beyond: no read
  starts there, and `MaxOffset` is `BLOCK_SIZE` in this run, so that every write there
  wraps. `VIEW ObservableFiles`, in `state_files`,
  leaves out also closed handles, which are not used there, and the bytes of
  `fs_data` that are in no file, which no call reads while `HandlesWithinFiles`
  holds, an invariant of the same run. TLC still evaluates invariants and step properties
  on the full states it visits. `Symmetry` permutes the names in `state_files`,
  where none is cut and nothing orders them.
- Sessions: three clients for two sessions, so a mount may be refused, and a
  session may be released to a client that waits. Each client mounts once; it
  may make any number of calls.
- Server: two clients for two sessions and one handle: one client that shuts
  down, one that opens, closes, unmounts or asks for something at any moment of it.
  Refusals, a third client and deaths are in the session runs; several
  handles in `ops_quiet`.
- Parte 1, `blocks_streams`: two threads, one file and the root, two handles,
  four blocks of two cells (one is the root's), files of at most one direct and
  two indirect blocks. So one file with an indirect block fills the disk, the
  allocation can stop at the first direct block, before the indirect block,
  between it and its first data block, and after it; a write of three bytes spans
  blocks, starts in the middle of one, and is cut by the largest size.
- Parte 1, `blocks_reuse`: three names and three i-nodes for two entries, so that
  a creation takes an i-node, finds the directory full and gives it back; blocks of one byte so that two files compete for three blocks, and one handle,
  so that it is the one that is closed and opened again.
- Parte 1, `blocks_append`: one file, opened with `TFS_O_CREAT` and perhaps
  `TFS_O_APPEND`, two buffers that differ in every byte, `<<1>>` and `<<7, 8>>`. No
  open truncates, so no handle stands past the end of a file, and every byte that
  is overwritten was written by some call.
- `VIEW view` leaves out `ret`, the bytes of free blocks, and in
  `blocks_streams` the entries that are not open: all are written before they are
  read. `MCSymmetry` permutes threads and names, which nothing orders. Both runs
  have no liveness property.

`CHECK_DEADLOCK FALSE` is used where the system may stop: in `ops_count` and
`ops_late_open` a mutex is never unlocked, in `state_shared` every read may be at the bound, and in the session runs and
`server_shutdown` all clients may have left or the server has ended.

### Fairness

- `TfsOperations`: weak fairness of each thread's step in the library. The
  mutex is never held across steps unless `OpenRefused` leaked it, so a thread
  in front of it is enabled until it goes. Strong fairness of the close of each
  open handle: that applications close their files is the premise of a
  call that waits until they do.
- `TfsSessions`: weak fairness of the receiver, of each worker and of a client
  blocked in `read`. Clients are never obliged to send anything.
- `TfsServer`: as in `TfsSessions`; a client blocked in `read` also goes on at end
  of file. A worker's step includes those of the library call it executes.
- Spurious wakeups, deaths and new calls have no fairness.
- `BlockFiles` has none: pthread locks promise no thread its turn. That nobody
  waits for ever in a circle is the invariant `Progress`.

## Proofs

`TfsOperations_proofs` holds for any set of threads, any set of destroyers and
any size of the open file table. From `OperationsAssumption` alone:

- `TypeCorrect`: `Spec => []TypeOK`.
- `CounterCorrect`: `Spec => []CountMatches`, which is inductive with `TypeOK`
  and needs the cardinality of a set with an element added or removed
  (`TakenCardinality`).

Under `Disciplined` (no spurious wakeups, no request while one is pending or
done):

- `DestroyInvariant`: `Spec => []DestroyInv`. `NoLostWakeup` is not inductive: it
  says nothing of a thread that is about to wait or has been signalled, nor of
  a second destroyer. `DestroyInv` says that there is at most one thread in
  the destruction, and for each of its stages where the counter is: not
  negative before it gets the mutex, below -1 while it sleeps, -1 when it has
  been signalled.
- `WakeupNotLost` and `DestroySafe` (`NoLostWakeup` and `DestroyOnlyWhenAllClosed` of
  `ops_quiet`) follow from it and `CountMatches`, and so does `BarrierRefinement`: each
  step is one of `DestroyBarrier` or a stutter. That is `ImplementsBarrier` without its
  liveness, which is left to the run. Late opens are included (`LateOpens` is free in
  the proofs).

`Disciplined` is necessary. Without its second half a second request turns the
counter positive again, and the last close signals nobody. Without its first half the
waiter of line 44, which does not look at the counter again, goes on to destroy
with a file open after a spurious return of `pthread_cond_wait`.

### TfsState_proofs

For any sizes of the tables, names, paths, contents, and `Clip`. From
`StateAssumption` alone, so with open files truncated, names cut, and closed
handles used:

- `TypeCorrect`: `Spec => []TypeOK`, the types, and that no i-node has a size
  larger than its block. A write that wraps is outside it: it ends in `crashed` with
  the tables unchanged. It is inductive with `OffsetsBounded`: an
  offset is at most `MaxOffset + BLOCK_SIZE + 1`, because no read starts beyond
  `MaxOffset` and none is longer than `BLOCK_SIZE + 1`. The modulus of `size_t`
  has to be larger than that (`StateAssumption`): with a smaller one the
  subtraction of `tfs_write` could wrap to a small number where the program's does
  not.
- `DirectoryCorrect`: `DirectoryConsistent`, inductive with the types.
- `BlocksCorrect`: `BlocksAccounted`. A write through a handle whose i-node is free
  would take a block for nobody, and one through a handle on the root would take
  one for the directory; so the invariant (`StateInv`) says also that open handles
  lead to files (`OpenFilesExist`).
- `BytesStay`: `BytesKept`. A write changes the cells that its copy covers
  (`CopiedBytes`), which lie in the one block of its file, after the position of its
  handle; by `BlocksAccounted` no other file has them, and a block that is taken was
  nobody's. `FileUntouched` is the case of a step that leaves the file's i-node and
  block alone.
- `WildWriteFarOnly`: a step that ends the process (`crashed`) is a write through a
  handle that stood beyond `BLOCK_SIZE`. The clipping of `operations.c:168-170` is
  right at and before the end of the block, also past the end of the file.

Under `PlainNames` (no name is cut, paths start with `/`): `NamesCorrect`, that
is `NamesUnique`. Two names cut to one are found by neither; a path without `/`
is created again at each call.

Without `SharedTruncate`: `HandlesCorrect`, that is `HandlesWithinFiles`.

With `PlainNames` and without `SharedTruncate` and `ClosedHandles`, the envelope of
`state_files`:

- `ServiceImplemented`: `Spec => ImplementsService`, the refinement of `FileService`.
  The proof first describes `FileMap` and `OpenMap` name by name and handle by
  handle (`MapFacts`), then shows of each way through each call that it changes the
  one file and the one handle as the service says. Most of the work is the
  write: bytes of `fs_data` before, in and after what is written, and those of
  other blocks, which are other files' by `BlocksAccounted`.
- `NeverCrashes`: no unsigned subtraction of `tfs_write` wraps.

### TfsSessions_proofs

For any number of clients and sessions and with clients that die, under
`Orderly`: `SettledStart` and `QuietHandover`. Both are necessary: `sess_handover`
shows what happens without the second, and without the first a late signal makes
a worker execute a request twice.

`SessInv` is the invariant. Nothing weaker that was tried is inductive: whether a
reply goes to the right client depends on the request having been the only one of
that client, on its way through the pipe, the receiver, the buffer and the worker.
It has a part for each place a request can be in (`PipeOK`, `ReceiverInv`,
`SessionOK`), which says that its client waits for it, has no other request
anywhere and no reply, and has the session or is the one it is reserved for; a
part for sessions that are reserved (`ReservedInv`: a mount is on its way to
them); one for what a client may find in its pipe (`ClientOK`); and one for the
start (`StartInv`). TLC checked it on the instance of `sess_deaths` before it was
proved. `ReceiveStep`, `SessionStep`, `IdleStep` and `RefusalStep` are what the
actions have in common.

- `TypeCorrect`, `SessionsSafe`, `RepliesSafe`: `TypeOK`, `SessionExclusive` and
  `RepliesMatch` follow from it.
- `BuffersSafe`: `NoRequestOverwritten`, a step property. The session of a request
  that the receiver is about to store has no request.
- `ServiceKept`: `ServiceSafety`. A session that is reserved belongs to the client
  of the mount that is on its way (`MountOf`); a mount is refused only when every
  session has an owner in this sense.

### BlockFiles_proofs

For any number of threads and any sizes of the tables, with copies, with every
combination of flags, and with handles that are closed and opened again while
others use them (`HandleReuse`): the theorems about Parte 1 assume no more than
`BlocksAssumption`.

The invariant is `Inv == TypeInv /\ LockInv /\ NamesInv /\ RoomInv`; it cannot be
proved one part at a time. `TypeInv` says which locals a thread has at each stage
(`StageOK`). That `blocksAlloc` stays in its range depends on `RoomInv`: a write
that has given its file an indirect block and not yet the block behind it still
finds the file full of direct blocks. No other thread changed it in between
because the writer has the i-node's lock, which is `LockInv`; and the i-node it
has the lock of is in use, which is `NamesInv`.

- `TypeCorrect`: `TypeOK`.
- `LocksCorrect`: `LocksHeld`. `LockInv` says who holds each lock at each stage: a
  step cannot forget to release one on a way out of a call.
- `DeadlockFree`: `Progress`. Threads take the i-node's lock before the entry's
  mutex and never wait for an i-node while they have an entry, so a thread with
  an entry goes on, and without one a thread that has an i-node does.
- `NamesCorrect`: `NamesUnique`. The second lookup inside `newFileMutex` is what
  the step of `Creates` rests on.

### BlockFilesBlocks_proofs

- `BlocksCorrect`: `BlocksAccounted`. The property compares the taken blocks with
  the sequence of those that i-nodes name. It is not inductive. `BlockInv` says it
  place by place: an i-node's place `k` is its indirect block (0) or its `k`-th data
  block, direct or behind the indirect block; a place is in use unless a
  truncation under way has freed it (`FreePos` is its turn in
  `deleteInodeDataBlocks`) or while a write stands between the indirect block and
  the block behind it; every place in use has a taken block, no two have the
  same, and no taken block is without one. `FileInv` says that no thread
  or handle takes the root directory for a file, else a write would give blocks to it.
  The proof of a truncation needs that the indirect block is freed after the blocks
  whose numbers it holds (`BlocksFreed`): another thread may take it, and write zeros
  over those numbers, before the truncation is done. There is a lemma for each way an
  allocation goes: a direct block, the indirect block, a block behind it, none left
  for that, and the return of the indirect block (`BlocksDirect`, `BlocksAhead`,
  `BlocksBehind`, `BlocksUnlucky`, `BlocksReleased`).

`AllInv == Inv /\ FileInv /\ BlockInv` is what the step properties below start
from. TLC checked `FileInv`, `BlockInv`, `HandleInv` and `AppendInv` on the instances
of `blocks_reuse` and `blocks_streams` before they were proved.

### BlockFilesSteps_proofs

- `HandlesKept`: `OnlyFailedCopyLoses`, with `HandleInv`: a call takes a handle
  only when it has none. `Tidy` says of each step which handles it takes, gives
  to the caller, or drops.
- `FilesKeptApart`: `FilesApart`. The bytes of a file are those of its places in
  use; a step that changes cells changes those of its own file's places or of
  blocks that were free, and `BlockInv` keeps the two apart. This covers a write
  that goes on through a handle which meanwhile leads to another file: it changes the
  file whose lock it has.
- `AppendsKeepBytes`: `AppendsExtend`. A thread that writes through a handle that
  appends stands at the end of the file (`AppendInv`): it goes there when it has both
  locks, and until it releases them nobody moves the offset or changes the size.
  So the write only adds bytes, after the last one.

### TfsServer_proofs

- `SessionsImplemented`: `ImplementsSessions`, for any number of clients, sessions
  and handles, with deaths and without `Orderly`, under the assumptions of
  `TfsSessions_proofs` (`SettledStart` and `QuietHandover`).

`TfsSessions_proofs` is instantiated with the mapping (`SP`), so that the mapped
step also carries `SP!TypeInv` and `SP!SessInv` from one state to the next, and
these are then facts about the server. The invariant (`Running`) adds
`CallInv`: a worker is in the library exactly while its stage is `executing`, and
the pipe that it looked up before the call is still the one of its session. This
is what makes a call that lasts look like one that is done and answered at once:
for as long as it lasts, nobody gives back the session (`SP!SessInv`). There is a
lemma for each action, named after it (`ReceiveCoarse`, `WakesCoarse`, ...); those of
calls under way and of the end map to stutters.

### TfsServerEnd_proofs

- `EndsInOrder`: `ExitsInOrder`, with deaths, under `Orderly` in addition.

`TfsOperations_proofs` is instantiated too (`OP`), for a library whose destruction
is requested once: the server's own instance `Ops` has no such restriction, and
that the requests of its workers keep to it (`NoneRequested`) is part of what is
proved. A request can be in the pipe, with the receiver, in a buffer, or with a
worker that has not begun it (`Pends`). `AskedInv` says that it is what its client
last asked; `OnceInv` that one client at most has asked for the shutdown, and that
none is pending once the counter is negative. Both rest on `OneRequest`: the
client of a request that a worker has in hand has no other anywhere, which is
read off `SP!SessInv`. So every step of the library is one of `OP!Next`
(`LibraryStep`), and `LibraryInv` (`OP!CountMatches`, `OP!DestroyInv`) holds until
the exit. `EndInv` says that from the return of the shutdown on no file is open,
and from its reply on nobody waits for it. It is the one part that has to hold
after the exit too, when only the clients go on (`ExitedNext`). TLC checked
these invariants, with deaths too, before they were proved.

### Only model-checked

- Liveness, which the prover cannot do: `CallsReturn`, `SessionsReturn`,
  `ShutdownHappens`, `OthersServed`, the termination of the destruction, and the
  liveness of `DestroyBarrier` and `SessionService`.
- `BlockFiles`: `ImplementsStreams`. The same invariants are needed, and what
  a read returns and a write stores, byte by byte, as in `ServiceImplemented`, with
  places instead of one block; it has not been tried. `AppendModeExtends` is false.

## Divergences from the documentation

The three violation runs (`ops_late_open`, `sess_handover`, `blocks_append`) are
listed as findings in `PROJECT.json`, each with the line it contradicts. Others
have no run of their own:

- `operations.c:42`: a second request for the destruction flips the sign of the
  counter back (`RepeatedDestroys` in `TfsOperations`): two clients that ask for a
  shutdown sleep for ever, with no file open.
- `operations.c:44` and `tfs_server.c:455` wait under an `if`. A spurious wakeup
  of the first destroys with files open (`SpuriousWakeups` in `TfsOperations`);
  one of the second executes an old request again. So does the late signal of a
  request that was stored before its worker first took its mutex (`SettledStart`
  rules it out).
- `operations.c:218`: after another handle truncated the file, the unsigned
  difference of size and offset wraps and `tfs_read` reads beyond the end
  (`SharedTruncate` in `TfsState`). The same in Parte 1, where
  `FileStreams!ReadPast` describes what is returned.
- `tfs_server.c:469`: the close that ends a shutdown's wait, like any call of
  another session, may have been executed and not answered when the process
  exits; its caller gets end of file and an undefined result. A mount whose pipe
  the server has not opened by then blocks for ever.
- Names of `MAX_FILE_NAME` characters or more are stored cut (`state.c:210`) and
  compared whole (`state.c:243`): never found again, created again at each
  `TFS_O_CREAT`. `state_shared` explores them; `NamesUnique` is false there.
- A path without a leading `/` is refused by the lookup and accepted by the
  creation, which drops its first character (`operations.c:107`).

## Not modelled

- End of file on the server's pipe, where `readFromPipe` opens it again and
  leaks a descriptor, and the exhaustion of descriptors.
- A dead client whose pipe the server opens for writing: the open blocks. The
  models keep the thread blocked (`OpensPipe` is not enabled), which is why
  liveness is claimed only without deaths. A client that dies or leaves
  with a file open leaves it open, and a shutdown waits for ever.
- Some handles that `get_open_file_entry` accepts, for it asks only that they are in
  range (`TfsState!Usable`). Those never returned by `tfs_open`: their entry leads to
  the root directory's i-node, which a write would overwrite. And those that are not
  open and are older than a `tfs_init`, which clears the maps and not the entries, as
  long as the i-node they lead to is free: a write would take a block for no file.
- What a write that wraps (`operations.c:169`) destroys before the process is
  stopped: see `crashed`.
- `session_id` is not reset by `tfs_unmount`, though the header says it is set to
  none (`client/tecnicofs_client_api.h:28-29`); the library is used from mount
  to unmount here, where this does not show.
- Parte 1: the file that a copy writes outside, its buffer without a final
  zero when a read fills it, and the memory and `FILE` it leaks; names of
  `MAX_FILE_NAME` characters or more, and handles that lead to the root's i-node.
- `insert_delay`, printing, and errors of `mkfifo`, `malloc` and the mutex calls.
- `Parte2/tecnicofs_ex2.zip`, a copy of the tree, and the test programs.

## Plan

1. Done: `TfsOperations` with `DestroyBarrier` and its proofs, `TfsState` with
   `FileService`, `TfsSessions` with `SessionService`, `TfsServer`, `BlockFiles`
   with `FileStreams`.
2. Done: proofs of `TfsState`, with its refinement of `FileService`, and of
   `TfsSessions`, with that of `SessionService`.
3. Done: proofs of `BlockFiles`: types, locks, deadlock, names, blocks, and the step
   properties `OnlyFailedCopyLoses`, `FilesApart` and `AppendsExtend`.
4. Done: proofs of `TfsServer`: its refinement of `TfsSessions`, and `ExitsInOrder`.
5. The refinement of `FileStreams` by `BlockFiles`.
