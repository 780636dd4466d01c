# A TLA+ model of the FUSE/gRPC file system

`src/Client_Server` holds a network file system: a FUSE client
(`NFS_Client_FS.cc`) that turns every callback into a blocking gRPC call, and a
server (`NFS_Server.cc`) that runs the call on an exported directory. The client
caches file handles by path and survives a server that goes away. This directory
models both, checks the composed system with TLC, and proves results about it
with TLAPS.

## The system

| component | state | operations |
|---|---|---|
| NFS server (`NFS_Server.cc`) | the exported tree, which its kernel keeps; nothing of its own (`file_open_map_` is never filled) | Lookup, Read, Write, Write_Async, Fsync, Readdir, Getattr, CreateFile, DeleteFile, CreateDirectory, DeleteDirectory, RenameFile, Ping; start and exit |
| RPC stubs (`NFS_Client`) | the call in flight | one stub for each RPC; `Reconnect_To_Server` |
| FUSE callbacks (`ClientFS`) | `file_handle_map_`, shared by all threads, without a lock | getattr, readdir, open, read, write, create, unlink, mkdir, rmdir, rename, fsync, flush, release |
| RPC interface (`NFS.proto`) | - | the messages |
| data path of the server (`NFS_Server.cc`) | descriptors, queued aio requests, contents of files and of their disk | Read, Write, Write_Async and Fsync, one system call at a time |
| Fuse wrapper and libfuse's headers (`include/Fuse.h`, `fuse.h`, `fuse_common.h`, `fuse_kernel.h`) | the table of callbacks, fixed at mount | which callbacks exist, which capabilities are on, what open tells the kernel |
| kernel and libfuse (external) | dentries, open files, pages, locks on paths | decide which callbacks run |
| the rest of `src/` | | the low-level headers of libfuse, gRPC sample protocols, a web site with its Python environment, build files, two small test programs: not modelled |

How they interact. A FUSE thread runs a callback, which reads or changes
`file_handle_map_` and blocks in a stub. The server serves a call in a thread of
its own pool and changes the tree with one system call. An error status makes the
stub translate it: UNAVAILABLE starts the pings of `Reconnect_To_Server`,
INVALID_ARGUMENT becomes error 116, stale handle, on which read, write and fsync
drop their entry, open the path again and start over. A reply that is not OK has
no body: the client keeps a default-constructed message.

What is hard: callbacks of one client interleave at their RPCs and share the map;
several clients share the tree, and learn nothing of each other's changes except
through stale handles; connections break before or after a call has run; both
sides crash; pings are counted; errors travel in a reply that may not exist. On the data path
handlers share one table of descriptors, with aio requests that outlive the
handler that queued them; a handler whose client has given up goes on; the
kernel of a client keeps pages of files that others write; and what a file holds
is not what its disk holds.

What makes each part correct:

- handle map: an entry is a handle the server gave out, for the file that is at
  its path now or for one that is gone; a file that is open has an entry; an
  iterator that is erased still points into the map;
- callbacks: success and ENOENT are told when they are true; every callback
  returns;
- server: no call of a correct client ends the process; a change of the tree is
  made at most once and whole, also by a handler whose caller has given up;
- data path: no handler loses its descriptor to another, and each returns what it
  opened; a write is executed once; a synchronous write that was acknowledged
  stays; an open sees the writes acknowledged before it; what fsync covers is on
  disk when it returns (the last one does not hold).

## Modules

| module | what it is |
|---|---|
| `NFS_Proto` | constants, paths, handles, the record of an RPC (`NFS.proto`) |
| `NFS_Server` | the server: `entry`, `dirs`, `born` are the tree, `up` the process, `rpc[t]` the call thread `t` has in flight, `late` the requests whose callers are gone. One action for each handler (`ServeLate` for those of `late`), with the failures of gRPC and of the process |
| `NFS_Client_FS` | the clients, composed with the server: `file_handle_map_[c]`, and `call[t]`, the callback thread `t` runs and where it is in it. One action for each callback, one operator for each stub, `Reconnect_To_Server`. Kernel and libfuse are `Kernel` and `Finish`, over `dentry` and `opened`. Holds the properties |
| `NFS_Namespace` | abstract: what the system promises of the names in the tree. A mutation takes effect at most once and in one step, between call and return unless it was given up on |
| `NFS_Client_FS_inv` | the inductive invariants of the composed system: `TInv`, `HInv` and `CInv` (which is `RInv` while the client lives) |
| `NFS_Client_FS_proofs` | theorems: types, and handles of open files |
| `NFS_Namespace_proofs` | theorem: the composed system implements `NFS_Namespace` |
| `NFS_Coherence_proofs` | theorems about a client that is alone: cache, success, and the server's life |
| `MC_Client` | workloads and symmetries of the small instances |
| `NFS_AsyncIO` | the data path of the server: `fds`, `aio`, `content` and `disk`, `hd[h]`, a handler with its local variables and where it is. One action for each group of system calls after which another thread can see a difference |
| `Fuse` | constants only: the table of callbacks that `load_operations_` fills in, the capabilities and the open file that result, the callbacks a system call leads to |
| `NFS_File_IO` | applications, kernel pages and ClientFS on top of `NFS_AsyncIO` and `Fuse`: `app[c]` is the system call of a client with the callbacks still to come, `handle[c]` its entry in `file_handle_map_`, `page[c]` the kernel's pages. One action for each callback. Holds the properties of the data path |
| `NFS_File_IO_inv` | the inductive invariants of the data path: `FInv`, `OnceInv`, `DurableInv`, `OpenInv`, and `FileInv`, all of them |
| `NFS_File_IO_proofs` | theorems: types, descriptors |
| `NFS_Write_proofs` | theorem: a write is executed at most once |
| `NFS_Durable_proofs` | theorem: synchronous writes stay |
| `NFS_Open_proofs` | theorem: close-to-open |
| `MC_File_IO` | programs of the applications and symmetries |

There are two compositions because they ask different questions of the same
handlers. `NFS_Client_FS` with `NFS_Server` is about names and handles: a handler
is one step, many paths, several threads. `NFS_File_IO` with `NFS_AsyncIO` is
about data: a handler is up to six steps, one path, one thread per client.

How the code is read:

- *Steps.* Between two RPCs a callback runs as one action. A callback holding an
  iterator across its RPC is where that matters, and the model keeps the iterator
  (`itr`). The map has no lock, so two threads inside it at the same instant are
  a data race of their own; that race is not modelled.
- *Undefined behaviour.* `erase` of an iterator that no longer points into the map
  removes another element, or stops the process (`DropStale`): then the client is gone
  (`Abort`) and its mount answers nothing, until somebody mounts again, which
  costs a fault as any crash of a client does. In `rename`,
  `operator[]` may rehash while `itr` is held; in the standard library the
  project builds with, an iterator of an `unordered_map` is a pointer to its
  node, so `erase(itr)` still works, and the model has it so. `Read_File` reads the first four
  bytes of an empty handle as its length; they are zero in the static empty string of
  protobuf.
- *Handles* are inodes with a generation: an inode number is never born again.
  `open_by_handle_at` fails with ESTALE when the inode has no name. The tree has
  no hard links, for there is no call that makes one, and starts without.
- *Replies.* `data` is 0 for every number that is not negative (creat's
  descriptor included), as the client only tests the sign, zero or 116.
  Error 116 is the status itself.
- *Data.* A file is a few blocks; a write replaces one and is identified with the
  data it carries. `Int32` is what `set_offset` makes of an `off_t`, with
  `Int32Blocks` for the 2^31 bytes an int32 addresses: the next 2^31 bytes become
  negative, and `lseek` refuses them (Write then answers OK and 0 bytes, Read
  CANCELLED). `disk` is what is sure to survive a loss of power; at a loss each block that
  was not synced may or may not have been written back.
- *Descriptors.* `open` takes the lowest free number. The moment that `fopen` of the
  list of mounts needs one is part of the step, and a full table ends the process
  there. The error returns leave open what they leave open in the code; the two `close` calls
  of a handler are two steps.
- *aio.* A request keeps a number, not a file: it runs on whatever the number stands for
  by then, and fails if that is nothing or not open for writing. Requests on one number keep
  their order.
- *One path.* Other clients and the server's host are `Replace`: now and then a
  new file comes to the path, the old one has no name left, and handles on it are
  stale. The path is never empty; what happens then is the run `shared_server`.
- *The synchronous write.* `ClientFS::write` calls `Write_File` under `#if 0`.
  `SyncClients` are the clients built with it; both kinds may share a server.
- *Pages.* The kernel keeps what it read or wrote, and drops it when a file is
  opened, unless open asked otherwise; it may drop it any time. A failed read
  returns 0 bytes and leaves no page, a write that did not return its full size neither.
- *Errors.* `Refuse` is a system call that fails for a reason of its own;
  `LoseRpc` a connection that breaks before or after the handler has run;
  `ServerCrash`, `ClientCrash` the processes; they cost one unit of `MaxFaults`
  each. In `NFS_AsyncIO` any system call may fail (`Fault`), `LoseRpc` leaves the handler
  running with nobody to answer, and `PowerLoss` takes the host with the process. A server that exits by itself (`open_mount_path_by_id`, `readdir(NULL)`)
  costs nothing.
- *Handlers outlive their calls.* No handler looks at its `ServerContext`. When a connection
  breaks under a request (`LoseRpc`) or its client dies (`Die`), the callback goes on or is gone,
  and the request moves to `late`, from where its handler runs at any later time
  (`ServeLate`), also after the callback returned and the application made other calls, or never.
  `late` keeps the requests that leave something behind: changes of the tree, a listing that can end the server,
  and the empty handle, which does. Bound: a thread has each such request in it once.
- *Kernel and libfuse.* The kernel opens and removes names it believes in and
  creates names it does not; libfuse serialises callbacks that change a path with
  every other on it, and looks a name up after create and mkdir. It never removes
  a name that is open (without `hard_remove`, it renames it away first). Bounds: a
  file is open once per client, a directory is not removed or replaced while a
  file below it is open, and there is an inode number left for every create.

## Properties and runs

`one_client` (one client, two FUSE threads, two files, three inodes, no fault).
`CacheCoherent`: through any sequence of creates, unlinks, renames and opens a
cached handle is one the server gave out and names the file now at its path, or
no file at all. `ServerSurvives`: no callback sends what makes the server exit.
`SuccessIsReal`: a callback that reports success has succeeded. `CachedOpenIsCurrent`: an open
that is answered from the map gets the handle of the file at its path, or one that is stale.
`CInv` is the invariant from which the four are proved (below). Two threads are
what it takes to interleave callbacks on two paths, and to find one handle stale
twice, after which the client may be gone for good, so this run does not look for deadlocks; three inodes let a rename replace a file and the old name be created again.

`faults` (one client, two files, three inodes, two faults). `OpenFileHasHandle`:
an open file always keeps an entry in the map outside callbacks, though handles go
stale, lookups fail, and server and client crash. Read, write and fsync return -1
for ever on a file without one. `HInv` is the strengthened, inductive form of it,
`TypeOK` the type invariant. `MutationsAtMostOnce`: the system implements
`NFS_Namespace`: a mutation happens at most once and whole, also when its callback
has returned and its handler still runs. Two faults allow a crash during a reconnect, a second failure
of the callback that recovers from the first, or two handlers left behind.

`two_clients` (two clients on one file, two inodes, a fault): the same while another client
removes and replaces the file, the only way (besides rename over an open name) to make
handles stale. The callbacks are those that act on the map; fsync behaves as read does.

`directories` (two directories below the root, a file name, an inode, a fault):
`MutationsAtMostOnce` when a client makes, removes and renames directories, or one of these
calls is left behind and meets the tree that later calls have made. A rename of a
directory moves the files in it, and no call loses any. One file is enough for
that, and the callbacks are those that change the tree, with getattr and release.

`liveness` (one client, two threads, one file, one fault): under `FairSpec` every callback
returns or ends with its process, even when the server never comes back. Symmetry is not used. The callbacks are
those on a file; a client that is gone stays away when the fault is spent, so deadlocks are not looked for.

`file_io` (two clients, two handlers, two files, two writes, one fault). One client
writes synchronously; the other opens, reads, closes, and opens and reads again,
or writes asynchronously to the same path; between any two steps a file may be replaced.
`HandlersKeepTheirDescriptors`: no `close` takes a number that has been given to
another handler, though numbers are reused at once. `DescriptorsReturned`: as
long as handlers return OK nothing leaks; it says exactly where the leaks are, in
the error returns. `SyncWritesDurable`: an acknowledged synchronous write is on the disk of its
file at its offset, or under a later write, whatever fails afterwards.
`WriteAtMostOnce`: a write reaches a file once, though `write` starts over after
a stale handle and handlers outlive their connection. `CloseToOpen`: what the kernel has of
an open file is not older than what was acknowledged before the open. `FileInv` is the
invariant from which these five are proved. The programs end, so TLC does not look for
deadlocks. One program reads before it has opened the file, as a process does after the
mount was made again: it gets EBADF and makes no callback.

Its bounds. Two handlers and one aio queue are what it takes to reuse a number
under a request. Two files: one that goes stale while a handle, a page or an aio
request still refers to it, and one that replaces it. Block 1 of two, with
`Int32Blocks = 1`, is the offset that becomes negative. `MaxFd = 4` is what two handlers
use, so that the first leak is felt. One fault, anywhere; the reader's second open
is where an invalidation that is missing shows.

The remaining runs are violations, each the shortest behaviour TLC finds in which
the code contradicts a comment of its own or the contract of libfuse
(`PROJECT.json`, findings):

| run | property | what happens |
|---|---|---|
| `rmdir_full` | `SuccessIsReal` | a reply that is not OK has no body, `data()` is 0, and a failed rmdir is a success |
| `lost_getattr` | `EnoentIsReal` | a stat that the server refuses (CANCELLED), and in the same way a lost connection, is reported as ENOENT |
| `shared_server` | `ServerSurvives` | a file another client removed is opened from a dentry that is out of date: the failed Lookup is cached as an empty handle, the open succeeds, and the first read sends the handle, which ends the server |
| `dir_rename` | `CachedOpenIsCurrent` | after a directory was renamed, a new file under the old path gets the handle of the moved one |
| `stale_iterator` | `StaleIteratorIsValid` | two threads erase the same entry |
| `fsync_async` | `FsyncCovers` | fsync returns 0 while the write it should cover is queued on a descriptor that is closed |

This is why the passing run of `ServerSurvives`, `CacheCoherent` and
`SuccessIsReal` has one client, no fault and no directories:
beyond these bounds they fail. With directories `ServerSurvives` fails for one client and no fault,
as soon as there are two names: with d/b and e/a on the server, rename(d, e) fails
with ENOTEMPTY, `data()` is 0 and the callback reports success, the kernel believes in e/b,
open caches the empty handle of the failed Lookup, and read sends it. `OpenFileHasHandle`
fails with two threads (the erased iterator takes another path's entry), with
renamed directories and with RENAME_EXCHANGE (which the server ignores,
`RenameFlagsHonoured`), for the same reasons. `SyncWritesDurable` excuses a file one of
whose fsyncs failed: Write ignores what fsync returns. It says nothing of offsets from 2^32
bytes on, which wrap around and overwrite the start of the file. Asynchronous writes
promise nothing that holds: the request may find its descriptor closed (EBADF), or
another file behind it.

Bounds that are not the program's: `RETRY_TIMEOUT` is 1 where the code has 300 (the
loop is the same for every ping; the boundary `iterations++ >= RETRY_TIMEOUT` is kept), `MaxFaults`, the
numbers of names and inodes, two levels of paths. Each passing run explores its
whole state space.

Fairness (`Fairness`): a thread in a callback keeps running (`Callback`, `Finish`), and a
request that arrived is served or its connection fails. Nothing is assumed of
`RunServer`, `Kernel` and the faults: nobody has to restart the server, and no
application has to make another call. gRPC's synchronous server serves each call
on a thread of its pool, and a call to a server that is away fails at once, as the stubs never ask to
wait for ready.

## Proofs

Every theorem holds for all values of the constants that satisfy the named assumptions of
the modules (`ProtoAssumption`, `ServerAssumption`, `WorkloadAssumption`,
`AsyncIOAssumption`, ...), which only say what kind of value a constant has and that
the special ones (`NoInode`, `EmptyHandle`, `NoEntry`) are not ordinary ones. So they hold
for any number of clients, threads, files, inodes, handlers, writes and faults. What
a theorem assumes beyond that stands in its own ASSUME, and is discussed here.

Each is proved in the same way: `Init` gives an inductive invariant, one lemma for each way a
step can go shows that the step keeps it, and the invariant gives the property. TLC checks
each invariant on a run (`HInv` in `faults` and `two_clients`, `CInv` in `one_client`,
`FileInv` in `file_io`).

| module | theorem | property | assumes | invariant |
|---|---|---|---|---|
| `NFS_Client_FS_proofs` | `TypeCorrect` | `TypeOK` | | `TInv` |
| | `OpenFileHasHandleCorrect` | `OpenFileHasHandle` | `OneWorker`, `FlatTree`, no exchange | `HInv` |
| `NFS_Namespace_proofs` | `NamespaceImplemented` | `MutationsAtMostOnce` | | `TInv` |
| `NFS_Coherence_proofs` | `CacheIsCoherent` | `CacheCoherent` | `Alone` | `CInv` |
| | `ServerOutlivesItsClient` | `ServerSurvives` | `Alone` | `CInv` |
| | `SuccessIsWhatItSays` | `SuccessIsReal` | `Alone` | `CInv` |
| | `EnoentIsWhatItSays` | `EnoentIsReal` | `Alone` | `CInv` |
| | `OpensTheFileAtThePath` | `CachedOpenIsCurrent` | `Alone` | `CInv` |
| `NFS_File_IO_proofs` | `FileIOTypeCorrect` | `TypeOK` | | `FInv`, `DownInv` |
| | `DescriptorsKept` | `HandlersKeepTheirDescriptors` | | the same |
| | `NoLeakWithoutError` | `DescriptorsReturned` | | the same, with itself |
| `NFS_Write_proofs` | `WrittenAtMostOnce` | `WriteAtMostOnce` | | and `OnceInv` |
| `NFS_Durable_proofs` | `SyncWritesSurvive` | `SyncWritesDurable` | | and `DurableInv` |
| `NFS_Open_proofs` | `CloseToOpenHolds` | `CloseToOpen` | no `kernel_cache`, no `auto_cache` (`PagesDropped`) | `FileInv` |

`HandlesKnownAlways`, `ReliedUponAlways` and `FileInvariant` state the invariants themselves.

### Names and handles

- *Types.* `TypeOK` alone is not inductive: that Lookup may index `entry` with the path of
  a request, or that rename moves a file to a file, depends on which callback sent it.
  `TInv` adds `CallShape`, what each callback can act on, and `RpcShape`, that a call in
  flight is one its callback makes, for its own paths. Server steps keep both because a
  reply changes neither operation nor paths (`AnsweredShape`); client steps change one
  thread (`OneThread`).
- *Mutations at most once.* The mapping to `NFS_Namespace` takes a callback that changes
  the tree as pending from its entry until the server has answered its call, and as over
  until it returns (`Unsettled`, `Mutating`). With `TInv` a call the server executes belongs to a
  callback that is pending, and has its arguments; the callback does not send again what was
  answered, for every stub returns after a reconnect without repeating its call. So a
  step of the system is one of the abstract one, or changes nothing that it sees. A handler that changes
  the tree is the mutation, and a call that fails ends it without effect. A lost connection, and a client
  that dies, give it up (`Abandon`, `Vanish`): the request is in `late` (`LateWishes`), and its handler may
  still be the mutation (`TakeEffectLate`), but no other request is. No assumption is needed: directories, exchanges, several threads and all faults are included.
- *Open files keep a handle.* One FUSE thread per client, no directory but the root
  and no RENAME_EXCHANGE. None of the three is a convenience: two threads of one client can
  interleave so that one erases the entry the other has just made, a renamed directory
  leaves the entries of the files below it under their old paths, and an exchange drops
  the target's entry. `OpenFileHasHandle` speaks of moments when no callback is at work on the file,
  so it is not inductive. `HandleInv` says what is true in between. `OpenEntry`: an open
  file without an entry is the file the only thread is working on, and that thread is either
  looking the handle up again or has just renamed the file. `CallKnows`: what the
  thread in each callback can rely on: read, write and fsync hold their iterator across the
  RPC, the getattr that follows create finds an entry, and a rename that succeeded has
  put the entry under the new path before the kernel is told (`Moved`).
- *A client alone.* `Alone` is one client, with any number of FUSE threads, a tree without
  directories, no fault, and no RENAME_EXCHANGE. Each of the four is needed:
  a second client refutes `ServerSurvives` (`shared_server`), a directory refutes `SuccessIsReal`
  (`rmdir_full`) and `CachedOpenIsCurrent` (`dir_rename`), a fault refutes `EnoentIsReal`
  (`lost_getattr`), and after an exchange, which the server executes as a plain rename, the
  kernel believes in a name that is gone, whose open caches the empty handle. Within it the threads interleave freely, and what makes the code
  right is not in the code: it is the locks that the kernel and libfuse hold for a callback.
  `CInv` says what they give. `LocksHeld`: callbacks that exclude each other do not run
  together. `TreeSound`: a file has one name, and an inode that has a name was allocated. `CallRelies`: what
  a callback knows of its path until it returns: create's name is not in the kernel's
  dentries and is in the tree exactly when its call has taken effect (`Over`), unlink's is the reverse,
  open, read, write and fsync have a file at their path, and a getattr is answered with what is still
  true. `RpcRelies`: an answer is still true when it is read. `NamesRely`: the kernel
  believes in the names of the tree, but for those that a callback is at work on.
  `HandleRelies`: a cached handle is of the file at its path, or of no path, or follows a rename
  that has been executed and has not yet moved the entry (`Following`). Then a Lookup never
  fails, so the empty handle is never cached nor sent. The one thing that can go wrong is the erased iterator of `stale_iterator`,
  which may end the client: from then on `Gone` holds, and what its requests in
  `late` still do ends no server. `CInv` is therefore `RInv`, with all of the above, or `Gone`. The proof first says what
  the locks exclude (`LockedOut`, `OwnNames`), then that each handler, stub, callback and
  return of a callback keeps what every other callback relies on.

### The data path

- *Descriptors.* `FInv` is the shape of a handler at each point of its code
  (`HandlerShape`: which variables are set), the tie between a handler and the call it
  answers (`Linked`), the shapes of calls and of applications, and the ownership property itself: the descriptors
  that handlers still have to close are disjoint and are what they were opened
  for. `DownInv` says that no handler survives its process. The queue of aio matters because
  its requests write through numbers that others own by then; `FInv` shows that they change no
  ownership.
- *Writes at most once.* `OnceInv`: a write is in one place (`Places`): with its client
  that will send it, with the handler that will make it, in the queue, or in `landed`. A
  retry after ESTALE is the delicate step: the write goes back to the client, and no handler has it
  any more. A lost connection is the other: the handler keeps it, and the client does not.
- *Synchronous writes stay.* `DurableInv` follows a write: after `write` it is in the content or under
  a later write; after `fsync` it is on the disk in the same sense, or the file had an fsync that failed; the reply and the
  acknowledgement say so. That the disk is never ahead of the content, and that
  each block of it was once written (the first two conjuncts), is what a loss of power needs.
- *Close-to-open.* `OpenInv`: a page of an open file owes nothing to the acknowledgements before
  the open, because it came from a read whose answer was in the file then
  (`NotOlder`, which `DurableInv` starts), or is the client's own later write. `kernel_cache` is the mount option with which libfuse asks
  the kernel to keep the pages of the last open, whatever other clients wrote meanwhile, and
  `auto_cache` the one that keeps them unless size or modification time tell that the file has changed,
  which a write of the same size within the grain of the clock does not. The
  file system does not need them, and with either the promise is not made (mutant `KeptFileInfo`).

### What is only model-checked

- Liveness (`EveryCallbackReturns`) needs `ENABLED`, which is out of the prover's reach.
- The counterexamples: the six violation runs are behaviours.
- Capabilities: the proofs only use that open leads to the callback `open`, and every other system
  call to callbacks of its kind, at most one of them a write and that one last (`Opcodes` to
  `CallbacksType`), so they hold for any `InitFlags`; which callbacks a system call really leads to is
  checked for a kernel that offers everything.

No operator of the models is recursive, and no proof needs induction over data: sequences (the
queue, the history `landed`, the callbacks to come) are handled by what Append, Head, Tail
and concatenation do to their elements. The least free descriptor exists because the naturals are well
founded (`MinMember`, from the library's `WFMin`).

## The plan

1. `CacheCoherent` with directories that are made and never renamed nor removed: `CInv` with `dentry` closed
   under `Parent`. (`ServerSurvives` does not hold with directories, see above.)
2. `SuccessIsReal` in such a tree (a rmdir or rename that fails refutes it).
3. `OpenFileHasHandle` with several threads when no handle goes stale (`Alone`), from `CInv` and `CallKnows`.
4. What faults leave of `CacheCoherent`: an entry is `EmptyHandle` or what `HandleRelies` says.

## Not modelled

- Contents of attributes and directories, printing, and memory: the buffers of aio requests
  are never freed.
- Sizes of files. So nothing is said of the end of a file, of a read cut short by an error
  (the client returns 0 bytes), or of O_TRUNC and O_APPEND, which `ClientFS::open` ignores:
  libfuse leaves the truncation to open by default, so it never reaches the server.
- Data and names together: that CreateFile truncates a file another client has just
  created and written.
- Several FUSE threads of one client on the data path; their races on
  `file_handle_map_` are in `NFS_Client_FS`.
- The parts of libfuse's headers that the client does not use, the library behind them
  (not in the repository), and the unrelated parts of `src/`.
