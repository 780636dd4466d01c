----------------------------- MODULE NFS_AsyncIO -----------------------------
(***************************************************************************)
(* The data path of the server, one system call at a time: the handlers of *)
(* Read, Write, Write_Async and Fsync with the descriptors they open, the  *)
(* aio requests that outlive their handler, and what is in a file against  *)
(* what is on its disk.                                                    *)
(*                                                                         *)
(* All clients use one path.  Now and then something else (a client that   *)
(* creates a file and renames it, or the server's host) puts another file  *)
(* there, so that handles go stale.  A file is a few blocks; a write       *)
(* replaces one block and is identified with the data it carries.          *)
(***************************************************************************)
EXTENDS Integers, Sequences, FiniteSets, SequencesExt, FiniteSetsExt

CONSTANTS
  Clients,      \* the client processes, each with one call at a time
  Handlers,     \* threads of the gRPC server
  Inodes,       \* inode numbers, each with its generation: never used again
  EmptyHandle,  \* a FileHandle message that no server ever filled in
  Writes,       \* the writes of applications
  NoWrite,      \* the contents of a block before any write
  Offsets,      \* the offsets (in blocks) applications use
  Int32Blocks,  \* the blocks an int32 can address: 2^31 bytes
  MaxFd,        \* the server's descriptor limit
  MaxFaults     \* bound on the faults of a behaviour

Fds    == 0..(MaxFd - 1)
Blocks == 0..(Int32Blocks - 1)
Cells  == Inodes \X Blocks

NoFd     == -1
NoFile   == [i |-> EmptyHandle, mode |-> "none"]
MountDir == [i |-> EmptyHandle, mode |-> "mount"]
OpenFiles == {MountDir} \cup [i : Inodes, mode : {"O_RDONLY", "O_WRONLY"}]

DataOps == {"Read", "Write", "Write_Async", "Fsync"}

\* The call a client has outstanding.  n is actual_bytes_written in units of
\* the size asked for, or the return value of Fsync; v the data of a Read.
Rpc == [st     : {"none", "sent", "replied"},
        op     : DataOps \cup {"Lookup"},
        fh     : Inodes \cup {EmptyHandle},
        off    : Offsets,
        w      : Writes \cup {NoWrite},
        status : {"OK", "CANCELLED", "INVALID_ARGUMENT", "UNAVAILABLE"},
        n      : {-1, 0, 1},
        v      : Writes \cup {NoWrite}]

\* A handler: a copy of its request, and its local variables mount_fd and fd.
\* "orphan" is a handler whose connection is gone.
Handler == [pc : {"idle", "open", "io", "sync", "close", "close2"},
            c  : Clients \cup {"none", "orphan"},
            op : DataOps, fh : Inodes \cup {EmptyHandle}, off : Offsets,
            w  : Writes \cup {NoWrite},
            mount_fd : Fds \cup {NoFd}, fd : Fds \cup {NoFd},
            n  : {-1, 0, 1}, v : Writes \cup {NoWrite}]

Off0 == Min(Offsets)

NoRpc == [st |-> "none", op |-> "Lookup", fh |-> EmptyHandle, off |-> Off0,
          w |-> NoWrite, status |-> "OK", n |-> 0, v |-> NoWrite]

Idle == [pc |-> "idle", c |-> "none", op |-> "Read", fh |-> EmptyHandle,
         off |-> Off0, w |-> NoWrite, mount_fd |-> NoFd, fd |-> NoFd,
         n |-> 0, v |-> NoWrite]

ASSUME AsyncIOAssumption ==
  /\ EmptyHandle \notin Inodes
  /\ NoWrite \notin Writes
  /\ {"none", "orphan"} \cap Clients = {}
  /\ Offsets \subseteq Nat /\ Offsets # {}
  /\ Int32Blocks \in Nat \ {0}
  /\ MaxFd \in Nat /\ MaxFaults \in Nat

VARIABLES
  here,     \* the inode at the path
  used,     \* every inode that was ever there
  content,  \* the blocks of each inode, as a read finds them
  disk,     \* the blocks that are sure to survive a loss of power
  fds,      \* the server's descriptors
  aio,      \* the requests the aio threads have not run yet
  hd,       \* the handlers
  up,       \* the server process is running
  faults,   \* how many faults have happened
  rpc,      \* the call each client has outstanding
  landed,   \* history: the writes that reached a file, and the block of each
  clean,    \* history: every handler of this process returned OK
  bad       \* history: the inodes for which an fsync failed

files      == <<here, used, content, disk>>
process    == <<fds, aio, hd, up, clean>>
serverVars == <<here, used, content, disk, fds, aio, hd, up, faults, rpc, landed, clean, bad>>

ServerTypeOK ==
  /\ here \in used /\ used \in SUBSET Inodes
  /\ content \in [Cells -> Writes \cup {NoWrite}]
  /\ disk \in [Cells -> Writes \cup {NoWrite}]
  /\ fds \in [Fds -> OpenFiles \cup {NoFile}]
  /\ aio \in Seq([fd : Fds, off : Int, w : Writes])
  /\ hd \in [Handlers -> Handler]
  /\ up \in BOOLEAN
  /\ faults \in 0..MaxFaults
  /\ rpc \in [Clients -> Rpc]
  /\ landed \in Seq([w : Writes, cell : Cells])
  /\ clean \in BOOLEAN
  /\ bad \in SUBSET Inodes

ServerInit ==
  /\ here \in Inodes /\ used = {here}
  /\ content = [x \in Cells |-> NoWrite] /\ disk = content
  /\ fds = [n \in Fds |-> NoFile] /\ aio = <<>>
  /\ hd = [h \in Handlers |-> Idle]
  /\ up = TRUE /\ faults = 0
  /\ rpc = [c \in Clients |-> NoRpc]
  /\ landed = <<>> /\ clean = TRUE /\ bad = {}

-----------------------------------------------------------------------------
(* The descriptor table.                                                   *)

Free    == {n \in Fds : fds[n] = NoFile}
Lowest  == Min(Free)
Full    == Free = {}
Opened(file) == [fds EXCEPT ![Lowest] = file]

\* close(2); closing -1 or a number that is not open is EBADF.
Closed(N) == [n \in Fds |-> IF n \in N THEN NoFile ELSE fds[n]]

\* off_t to the int32 of a request, and back to off_t at the server.
Int32(off) == ((off + Int32Blocks) % (2 * Int32Blocks)) - Int32Blocks

Mode(op) == IF op = "Read" THEN "O_RDONLY" ELSE "O_WRONLY"

\* A block of inode i is overwritten.
Land(w, i, off) ==
  /\ content' = [content EXCEPT ![<<i, off>>] = w]
  /\ landed' = Append(landed, [w |-> w, cell |-> <<i, off>>])

Flushed(i) == [x \in Cells |-> IF x[1] = i THEN content[x] ELSE disk[x]]

Fault == faults < MaxFaults /\ faults' = faults + 1

-----------------------------------------------------------------------------
(* gRPC (external).                                                        *)

\* The body of a reply reaches the client only with an OK status.
Answer(c, status, fh, n, v) ==
  [rpc EXCEPT ![c].st = "replied", ![c].status = status,
              ![c].fh = IF status = "OK" THEN fh ELSE @,
              ![c].n  = IF status = "OK" THEN n ELSE 0,
              ![c].v  = IF status = "OK" THEN v ELSE NoWrite]

\* Handler h returns: nobody hears it if its connection is gone.
Return(h, status) ==
  LET k == hd[h] IN
  /\ hd' = [hd EXCEPT ![h] = Idle]
  /\ rpc' = IF k.c = "orphan" THEN rpc ELSE Answer(k.c, status, k.fh, k.n, k.v)
  /\ clean' = (clean /\ status = "OK")

\* A request that arrived and that no handler has taken yet.
Arrived(c) == up /\ rpc[c].st = "sent" /\ \A h \in Handlers : hd[h].c # c

-----------------------------------------------------------------------------
(* The handlers.                                                           *)

Goto(h, pc) == hd' = [hd EXCEPT ![h].pc = pc]

\* name_to_handle_at, which needs no descriptor.
Lookup(c) ==
  /\ Arrived(c) /\ rpc[c].op = "Lookup"
  /\ rpc' = Answer(c, "OK", here, 0, NoWrite)
  /\ UNCHANGED <<files, process, faults, landed, bad>>

\* The process is gone with its descriptors, its aio requests and its calls;
\* the files are the kernel's.
Exit ==
  /\ up' = FALSE
  /\ fds' = [n \in Fds |-> NoFile] /\ aio' = <<>>
  /\ hd' = [h \in Handlers |-> Idle]
  /\ clean' = TRUE
  /\ rpc' = [c \in Clients |->
              IF rpc[c].st = "sent"
                THEN [rpc[c] EXCEPT !.st = "replied", !.status = "UNAVAILABLE"]
                ELSE rpc[c]]

\* fopen of the list of mounts needs a descriptor, for a moment, and the mount
\* has to be in the list: else the process exits.  Opening the mount itself can
\* fail, and -1 is the mount_fd that open_by_handle_at gets.
open_mount_path_by_id(h, c) ==
  LET r == rpc[c]
      k == [Idle EXCEPT !.pc = "open", !.c = c, !.op = r.op, !.fh = r.fh,
                        !.off = r.off, !.w = r.w]
  IN
  /\ Arrived(c) /\ r.op \in DataOps /\ hd[h].pc = "idle"
  /\ \/ /\ Full \/ r.fh = EmptyHandle
        /\ Exit /\ UNCHANGED faults
     \/ /\ ~Full /\ r.fh # EmptyHandle
        /\ fds' = Opened(MountDir)
        /\ hd' = [hd EXCEPT ![h] = [k EXCEPT !.mount_fd = Lowest]]
        /\ UNCHANGED <<aio, up, clean, rpc, faults>>
     \/ /\ ~Full /\ r.fh # EmptyHandle
        /\ Fault
        /\ hd' = [hd EXCEPT ![h] = k]
        /\ UNCHANGED <<fds, aio, up, clean, rpc>>
  /\ UNCHANGED <<files, landed, bad>>

\* The handler gives up; Write and Write_Async close mount_fd unless the handle
\* was stale, Read and Fsync never do.
FailedOpen(h, status) ==
  /\ Return(h, status)
  /\ fds' = IF status = "CANCELLED" /\ hd[h].op \in {"Write", "Write_Async"}
              THEN Closed({hd[h].mount_fd}) ELSE fds

\* ESTALE for an inode without a name, EMFILE for a full table, and whatever
\* else the file system says.
open_by_handle_at(h) ==
  LET k == hd[h]
      stale == k.mount_fd # NoFd /\ k.fh # here
  IN
  /\ k.pc = "open"
  /\ \/ ~stale /\ (k.mount_fd = NoFd \/ Full) /\ FailedOpen(h, "CANCELLED") /\ UNCHANGED faults
     \/ ~stale /\ k.mount_fd # NoFd /\ ~Full /\ Fault /\ FailedOpen(h, "CANCELLED")
     \/ stale /\ FailedOpen(h, "INVALID_ARGUMENT") /\ UNCHANGED faults
     \/ /\ ~stale /\ k.mount_fd # NoFd /\ ~Full
        /\ fds' = Opened([i |-> k.fh, mode |-> Mode(k.op)])
        /\ hd' = [hd EXCEPT ![h].fd = Lowest, ![h].pc = "io"]
        /\ UNCHANGED <<rpc, clean, faults>>
  /\ UNCHANGED <<files, aio, up, landed, bad>>

AtIO(h, op) == hd[h].pc = "io" /\ hd[h].op = op

\* lseek and read; an error of either leaves both descriptors open.
Read(h) ==
  LET off == Int32(hd[h].off) IN
  /\ AtIO(h, "Read")
  /\ \/ off < 0 /\ Return(h, "CANCELLED") /\ UNCHANGED faults
     \/ off >= 0 /\ Fault /\ Return(h, "CANCELLED")
     \/ /\ off >= 0
        /\ hd' = [hd EXCEPT ![h].pc = "close", ![h].v = content[<<fds[hd[h].fd].i, off>>]]
        /\ UNCHANGED <<rpc, clean, faults>>
  /\ UNCHANGED <<files, fds, aio, up, landed, bad>>

\* A mutant of Write: nobody looks at what lseek returned.
WriteUnseeked(h) ==
  /\ AtIO(h, "Write")
  /\ Land(hd[h].w, fds[hd[h].fd].i, Int32(hd[h].off))
  /\ hd' = [hd EXCEPT ![h].pc = "sync", ![h].n = 1]
  /\ UNCHANGED <<here, used, disk, fds, aio, up, faults, rpc, clean, bad>>

\* A mutant of Write: the reply is sent before the data is on disk.
WriteUnsynced(h) ==
  LET off == Int32(hd[h].off) IN
  /\ AtIO(h, "Write") /\ off >= 0
  /\ Land(hd[h].w, fds[hd[h].fd].i, off)
  /\ hd' = [hd EXCEPT ![h].pc = "close", ![h].n = 1]
  /\ UNCHANGED <<here, used, disk, fds, aio, up, faults, rpc, clean, bad>>

\* lseek and write; whatever happens the status is OK, and fsync follows only
\* a write that succeeded.
Write(h) ==
  LET off == Int32(hd[h].off) IN
  /\ AtIO(h, "Write")
  /\ \/ /\ off < 0
        /\ Goto(h, "close")
        /\ UNCHANGED <<content, landed, faults>>
     \/ /\ off >= 0 /\ Fault
        /\ hd' = [hd EXCEPT ![h].pc = "close", ![h].n = -1]
        /\ UNCHANGED <<content, landed>>
     \/ /\ off >= 0
        /\ Land(hd[h].w, fds[hd[h].fd].i, off)
        /\ hd' = [hd EXCEPT ![h].pc = "sync", ![h].n = 1]
        /\ UNCHANGED faults
  /\ UNCHANGED <<here, used, disk, fds, aio, up, rpc, clean, bad>>

\* fsync(2) of the open file of h, with what it returns.
SyncFile(h, n) ==
  LET i == fds[hd[h].fd].i IN
  \/ n = 0 /\ disk' = Flushed(i) /\ UNCHANGED <<bad, faults>>
  \/ n = -1 /\ Fault /\ bad' = bad \cup {i} /\ UNCHANGED disk

\* The fsync inside Write: nobody looks at what it returns.
WriteSync(h) ==
  /\ hd[h].pc = "sync"
  /\ \E n \in {0, -1} : SyncFile(h, n)
  /\ Goto(h, "close")
  /\ UNCHANGED <<here, used, content, fds, aio, up, rpc, landed, clean>>

\* aio_write queues the request, or does not (EAGAIN); the reply is the full
\* size in either case.
Write_Async(h) ==
  LET k == hd[h]
      request == [fd |-> k.fd, off |-> Int32(k.off), w |-> k.w]
  IN
  /\ AtIO(h, "Write_Async")
  /\ \/ aio' = Append(aio, request) /\ UNCHANGED faults
     \/ Fault /\ UNCHANGED aio
  /\ hd' = [hd EXCEPT ![h].pc = "close", ![h].n = 1]
  /\ UNCHANGED <<files, fds, up, rpc, landed, clean, bad>>

\* The file was opened again for this, and none of the queued requests is
\* waited for.
Fsync(h) ==
  /\ AtIO(h, "Fsync")
  /\ \E n \in {0, -1} :
       SyncFile(h, n) /\ hd' = [hd EXCEPT ![h].pc = "close", ![h].n = n]
  /\ UNCHANGED <<here, used, content, fds, aio, up, rpc, landed, clean>>

\* Mutants of CloseOrder: fd is closed twice, and mount_fd is never closed.
FdTwice(k)  == <<k.fd, k.fd>>
FdOnly(k)   == <<k.fd, NoFd>>

\* The two calls of close(2) at the end of a handler that got that far.
CloseOrder(k) == IF k.op = "Write" THEN <<k.mount_fd, k.fd>> ELSE <<k.fd, k.mount_fd>>

Close(h) ==
  /\ \/ /\ hd[h].pc = "close"
        /\ fds' = Closed({CloseOrder(hd[h])[1]})
        /\ Goto(h, "close2")
        /\ UNCHANGED <<rpc, clean>>
     \/ /\ hd[h].pc = "close2"
        /\ fds' = Closed({CloseOrder(hd[h])[2]})
        /\ Return(h, "OK")
  /\ UNCHANGED <<files, aio, up, faults, landed, bad>>

Serve(h) ==
  \/ \E c \in Clients : open_mount_path_by_id(h, c)
  \/ open_by_handle_at(h)
  \/ Read(h) \/ Write(h) \/ WriteSync(h) \/ Write_Async(h) \/ Fsync(h)
  \/ Close(h)

-----------------------------------------------------------------------------
(* The aio threads of the C library (external): the requests on one number *)
(* run in their order, on whatever the number stands for when they run.    *)

AioRun(k) ==
  LET q == aio[k]
      file == fds[q.fd]
  IN
  /\ \A j \in 1..(k - 1) : aio[j].fd # q.fd
  /\ aio' = RemoveAt(aio, k)
  /\ IF file.mode = "O_WRONLY" /\ q.off >= 0
       THEN Land(q.w, file.i, q.off)
       ELSE UNCHANGED <<content, landed>>
  /\ UNCHANGED <<here, used, disk, fds, hd, up, faults, rpc, clean, bad>>

-----------------------------------------------------------------------------
(* Failures and the outside world.                                         *)

\* Another file comes to the path; the one that was there has no name left.
Replace ==
  /\ \E i \in Inodes \ used : here' = i /\ used' = used \cup {i}
  /\ UNCHANGED <<content, disk, process, faults, rpc, landed, bad>>

\* The connection breaks before, while or after the handler runs; a handler
\* that runs finishes.
LoseRpc(c) ==
  /\ rpc[c].st = "sent" \/ (rpc[c].st = "replied" /\ rpc[c].status # "UNAVAILABLE")
  /\ Fault
  /\ rpc' = Answer(c, "UNAVAILABLE", EmptyHandle, 0, NoWrite)
  /\ hd' = [h \in Handlers |-> IF hd[h].c = c THEN [hd[h] EXCEPT !.c = "orphan"] ELSE hd[h]]
  /\ UNCHANGED <<files, fds, aio, up, landed, clean, bad>>

RpcUnavailable(c) ==
  /\ ~up /\ rpc[c].st = "sent"
  /\ rpc' = Answer(c, "UNAVAILABLE", EmptyHandle, 0, NoWrite)
  /\ UNCHANGED <<files, process, faults, landed, bad>>

ServerCrash ==
  /\ up /\ Fault /\ Exit
  /\ UNCHANGED <<files, landed, bad>>

\* The host goes down with the process.  A block that was not synced may have
\* been written back all the same.
PowerLoss ==
  /\ up /\ Fault /\ Exit
  /\ \E lost \in SUBSET {x \in Cells : content[x] # disk[x]} :
       content' = [x \in Cells |-> IF x \in lost THEN disk[x] ELSE content[x]]
  /\ disk' = content'
  /\ UNCHANGED <<here, used, landed, bad>>

RunServer ==
  /\ ~up
  /\ up' = TRUE
  /\ UNCHANGED <<files, fds, aio, hd, clean, faults, rpc, landed, bad>>

ServerStep ==
  \/ \E h \in Handlers : Serve(h)
  \/ \E c \in Clients : Lookup(c) \/ LoseRpc(c) \/ RpcUnavailable(c)
  \/ \E k \in DOMAIN aio : AioRun(k)
  \/ Replace \/ ServerCrash \/ PowerLoss \/ RunServer
=============================================================================
