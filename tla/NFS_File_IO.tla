----------------------------- MODULE NFS_File_IO -----------------------------
(***************************************************************************)
(* Applications, kernels and ClientFS on top of the data path of the       *)
(* server: an application opens the file at the path, reads, writes, syncs *)
(* and closes it; the kernel turns each call into the callbacks of Fuse    *)
(* and keeps the pages it read or wrote; ClientFS sends each callback to   *)
(* the server with the handle it has for the path, and looks the path up   *)
(* again when the handle is stale.                                         *)
(*                                                                         *)
(* A client has one thread.  Losing the connection makes ClientFS connect  *)
(* again, which changes nothing here.                                      *)
(***************************************************************************)
EXTENDS NFS_AsyncIO, Fuse

CONSTANTS
  Workload,     \* the programs of each client: sequences of system calls
  SyncClients,  \* the clients built with the synchronous write (#if 0)
  NoEntry,      \* file_handle_map_ has nothing for the path
  NotCached     \* a block of which the kernel has no page

SystemCalls == {"open", "read", "write", "fsync", "close"}
Calls == [sys : SystemCalls, off : Offsets]

ASSUME FileIOAssumption ==
  /\ SyncClients \subseteq Clients
  /\ Workload \in [Clients -> SUBSET Seq(Calls)]
  /\ NoEntry \notin Inodes \cup {EmptyHandle}

Page == [v : Writes \cup {NoWrite}, i : Inodes]

ASSUME PageAssumption == NotCached \notin Page

\* A client: the system call it is in with the callbacks still to return, the
\* first one running, and the rest of its program.
Application == [sys  : SystemCalls \cup {"none"},
                next : Seq(Calls),
                todo : Seq(fuse_operations),
                off  : Offsets,
                w    : Writes \cup {NoWrite}]

Ready(program) == [sys |-> "none", next |-> program, todo |-> <<>>, off |-> Off0, w |-> NoWrite]

\* A write that was acknowledged, with the file and the offset it was meant for.
Acked == [c : Clients, w : Writes, fh : Inodes, off : Offsets]

VARIABLES
  handle,    \* file_handle_map_[path] of each client
  page,      \* the kernel's pages of the file
  app,       \* the system call of each client
  opened,    \* the clients whose application has the file open
  issued,    \* the writes that applications have made
  acked,     \* history: the writes that returned their full size
  synced,    \* history: those that a successful fsync, flush or release followed
  floor      \* history: what was acknowledged when a client opened the file

clientVars == <<handle, page, app, opened, issued, acked, synced, floor>>
vars == <<serverVars, clientVars>>

TypeOK ==
  /\ ServerTypeOK
  /\ handle \in [Clients -> Inodes \cup {EmptyHandle, NoEntry}]
  /\ page \in [Clients -> [Offsets -> Page \cup {NotCached}]]
  /\ app \in [Clients -> Application]
  /\ opened \in SUBSET Clients
  /\ issued \in SUBSET Writes
  /\ acked \in SUBSET Acked
  /\ synced \in SUBSET acked
  /\ floor \in [Clients -> SUBSET acked]

NoPages == [off \in Offsets |-> NotCached]

Init ==
  /\ ServerInit
  /\ handle = [c \in Clients |-> NoEntry]
  /\ page = [c \in Clients |-> NoPages]
  /\ app \in [Clients -> UNION {{Ready(p) : p \in Workload[c]} : c \in Clients}]
  /\ \A c \in Clients : app[c].next \in Workload[c]
  /\ opened = {} /\ issued = {} /\ acked = {} /\ synced = {}
  /\ floor = [c \in Clients |-> {}]

-----------------------------------------------------------------------------
(* The application and the kernel (external).                              *)

\* A call on a descriptor that is not open is EBADF, and makes no callback.  A
\* read of a page that the kernel has makes none either, but the kernel may have
\* dropped the page.
CallbacksOf(c, sys) == IF sys = "open" \/ c \in opened THEN Callbacks(sys) ELSE <<>>

SysCall(c) ==
  /\ app[c].sys = "none" /\ app[c].next # <<>>
  /\ \E w \in Writes \cup {NoWrite} :
       LET call == Head(app[c].next) IN
       /\ IF call.sys = "write" THEN w \in Writes \ issued ELSE w = NoWrite
       /\ app' = [app EXCEPT ![c] = [sys |-> call.sys, next |-> Tail(app[c].next),
                    todo |-> CallbacksOf(c, call.sys), off |-> call.off, w |-> w]]
       /\ issued' = issued \cup ({w} \ {NoWrite})
  /\ UNCHANGED <<handle, page, opened, acked, synced, floor, rpc>>

\* After the last callback: a file that was opened starts without the pages of
\* earlier opens unless open asked to keep them.
SysReturn(c) ==
  /\ app[c].sys # "none" /\ app[c].todo = <<>>
  /\ app' = [app EXCEPT ![c] = Ready(@.next)]
  /\ CASE app[c].sys = "open" ->
            /\ opened' = opened \cup {c}
            /\ floor' = [floor EXCEPT ![c] = acked]
            /\ page' = IF "FOPEN_KEEP_CACHE" \in open_flags THEN page ELSE [page EXCEPT ![c] = NoPages]
       [] app[c].sys = "close" ->
            opened' = opened \ {c} /\ UNCHANGED <<floor, page>>
       [] OTHER -> UNCHANGED <<opened, floor, page>>
  /\ UNCHANGED <<handle, issued, acked, synced, rpc>>

-----------------------------------------------------------------------------
(* ClientFS.  A callback is a call of the server, or of the cache alone,   *)
(* and what it does with the reply.                                        *)

Running(c, callbacks) == app[c].todo # <<>> /\ Head(app[c].todo) \in callbacks

\* The stub: the handle goes out as it is in file_handle_map_.
Ask(c, op) ==
  /\ rpc[c].st = "none"
  /\ rpc' = [rpc EXCEPT ![c] = [NoRpc EXCEPT !.st = "sent", !.op = op,
               !.fh = IF op = "Lookup" THEN EmptyHandle ELSE handle[c],
               !.off = app[c].off, !.w = app[c].w]]
  /\ UNCHANGED clientVars

Write_File       == "Write"
Write_File_Async == "Write_Async"

Replied(c) == rpc[c].st = "replied"

\* The callback returns, and the kernel makes the next one.
Done(c) ==
  /\ app' = [app EXCEPT ![c].todo = Tail(@)]
  /\ rpc' = [rpc EXCEPT ![c] = NoRpc]
  /\ UNCHANGED <<opened, issued, floor>>

\* Error 116: the entry goes, ClientFS::open fetches another, and the callback
\* starts over.
Stale(c) ==
  /\ Replied(c) /\ rpc[c].status = "INVALID_ARGUMENT"
  /\ handle' = [handle EXCEPT ![c] = NoEntry]
  /\ app' = [app EXCEPT ![c].todo = <<"open">> \o @]
  /\ rpc' = [rpc EXCEPT ![c] = NoRpc]
  /\ UNCHANGED <<page, opened, issued, acked, synced, floor>>

Answered(c) == Replied(c) /\ rpc[c].status # "INVALID_ARGUMENT"

\* Whatever Lookup_File returns is cached, and open succeeds.
open(c) ==
  /\ Running(c, {"open"})
  /\ \/ handle[c] # NoEntry /\ Done(c) /\ UNCHANGED handle
     \/ handle[c] = NoEntry /\ Ask(c, "Lookup")
     \/ /\ Replied(c) /\ Done(c)
        /\ handle' = [handle EXCEPT ![c] = IF rpc[c].status = "OK" THEN rpc[c].fh ELSE EmptyHandle]
  /\ UNCHANGED <<page, acked, synced>>

\* Pages are kept only without direct I/O.
Kept(p) == IF "FOPEN_DIRECT_IO" \in open_flags THEN NotCached ELSE p

\* A call that failed returns 0 bytes, and leaves no page.
read(c) ==
  /\ Running(c, {"read"})
  /\ \/ Ask(c, "Read")
     \/ Stale(c)
     \/ /\ Answered(c) /\ Done(c)
        /\ page' = IF rpc[c].status = "OK"
                     THEN [page EXCEPT ![c][app[c].off] = Kept([v |-> rpc[c].v, i |-> rpc[c].fh])]
                     ELSE page
        /\ UNCHANGED <<handle, acked, synced>>

\* A mutant of write: a call that broke is made again.
WriteResent(c) ==
  /\ Running(c, {"write"})
  /\ \/ Ask(c, IF c \in SyncClients THEN Write_File ELSE Write_File_Async)
     \/ Replied(c) /\ rpc[c].status = "UNAVAILABLE"
        /\ rpc' = [rpc EXCEPT ![c] = NoRpc] /\ UNCHANGED clientVars

\* A call that failed returns 0 bytes written; the kernel keeps the data in its
\* page only when all of it was written.
write(c) ==
  LET a == [c |-> c, w |-> app[c].w, fh |-> handle[c], off |-> app[c].off] IN
  /\ Running(c, {"write"})
  /\ \/ Ask(c, IF c \in SyncClients THEN Write_File ELSE Write_File_Async)
     \/ Stale(c)
     \/ /\ Answered(c) /\ Done(c)
        /\ acked' = IF rpc[c].n = 1 THEN acked \cup {a} ELSE acked
        /\ page' = [page EXCEPT ![c][a.off] =
                     IF rpc[c].n = 1 THEN Kept([v |-> a.w, i |-> a.fh]) ELSE NotCached]
        /\ UNCHANGED <<handle, synced>>

\* fsync, and flush and release that call it: a reply that never came leaves
\* the 0 of an empty Integer.
fsync(c) ==
  /\ Running(c, {"fsync", "flush", "release"})
  /\ \/ Ask(c, "Fsync")
     \/ Stale(c)
     \/ /\ Answered(c) /\ Done(c)
        /\ synced' = IF rpc[c].n = 0
                       THEN synced \cup {a \in acked : a.c = c /\ a.fh = handle[c]}
                       ELSE synced
        /\ UNCHANGED <<handle, page, acked>>

ClientStep(c) == SysCall(c) \/ SysReturn(c) \/ open(c) \/ read(c) \/ write(c) \/ fsync(c)

Next ==
  \/ ServerStep /\ UNCHANGED clientVars
  \/ (\E c \in Clients : ClientStep(c))
     /\ UNCHANGED <<files, process, faults, landed, bad>>

Spec == Init /\ [][Next]_vars

-----------------------------------------------------------------------------
(* Properties.                                                             *)

\* What a handler has still to close.
Holds(h) ==
  LET k == hd[h] IN
  (IF k.pc = "close2" THEN {CloseOrder(k)[2]} ELSE {k.mount_fd, k.fd}) \ {NoFd}

\* Two handlers share no descriptor, and each finds behind its numbers what it
\* opened, until it closes them: no close(2) takes away a number that another
\* handler was given (the closes at the end of Read, Write, Write_Async, Fsync).
HandlersKeepTheirDescriptors ==
  \A h \in Handlers :
    /\ \A g \in Handlers \ {h} : Holds(g) \cap Holds(h) = {}
    /\ hd[h].fd \in Holds(h) => fds[hd[h].fd] = [i |-> hd[h].fh, mode |-> Mode(hd[h].op)]
    /\ hd[h].mount_fd \in Holds(h) => fds[hd[h].mount_fd] = MountDir

\* Descriptors leak on error returns only: while every handler of this process
\* has returned OK, each open descriptor is still to be closed by somebody.
DescriptorsReturned ==
  clean => \A n \in Fds : fds[n] = NoFile \/ \E h \in Handlers : n \in Holds(h)

\* Write w reached cell x, and is there or under a later write.
Reached(w, x, final) ==
  \E j \in DOMAIN landed :
    /\ landed[j] = [w |-> w, cell |-> x]
    /\ \E k \in j..Len(landed) : landed[k].cell = x /\ landed[k].w = final

\* The acknowledgement of a synchronous Write is a promise: the data is on the
\* disk of the file the handle stands for, at the offset the application gave,
\* or under a write that came later, whatever crashes or is lost afterwards;
\* except that nobody looks at the fsync in Write, so a file whose fsync failed
\* is excused.  (Offsets from 2^32 bytes on wrap around and are not covered.)
SyncWritesDurable ==
  \A a \in acked :
    a.c \in SyncClients /\ a.off < 2 * Int32Blocks /\ a.fh \notin bad =>
      Reached(a.w, <<a.fh, a.off>>, disk[<<a.fh, a.off>>])

\* A write is executed at most once: ClientFS repeats it only when the server
\* refused it as stale, never when the connection broke and the handler, or an
\* aio request, may still be at work on it.
WriteAtMostOnce ==
  \A j, k \in DOMAIN landed : landed[j].w = landed[k].w => j = k

\* Close-to-open: what the kernel has of a file that is open is not older than
\* the synchronous writes that were acknowledged when open returned, because
\* open keeps no page of an earlier open (fuse_file_info.keep_cache): a page
\* holds such a write, or a later one, or what this client wrote since.
CloseToOpen ==
  \A c \in opened : \A a \in floor[c] :
    LET p == page[c][a.off] IN
    /\ a.c \in SyncClients /\ a.off < 2 * Int32Blocks /\ a.fh \notin bad
    /\ p # NotCached /\ p.i = a.fh
    => \/ Reached(a.w, <<a.fh, a.off>>, p.v)
       \/ [a EXCEPT !.c = c, !.w = p.v] \in acked \ floor[c]

\* What fsync, flush and release promise (fuse.h, "Synchronize file contents"):
\* once one of them returned 0, the writes that this client had made to the
\* file are on its disk, or under later ones.
FsyncCovers ==
  \A a \in synced :
    a.fh \notin bad => Reached(a.w, <<a.fh, a.off>>, disk[<<a.fh, a.off>>])
=============================================================================
