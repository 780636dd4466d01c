--------------------------- MODULE NFS_File_IO_inv ---------------------------
(***************************************************************************)
(* The inductive invariants behind the safety properties of NFS_File_IO,   *)
(* checked by TLC (MC_File_IO) and proved in the modules on the data path. *)
(* FInv is the shape of the calls on their way and who has which           *)
(* descriptor, OnceInv is where each write is, DurableInv how far it got,  *)
(* OpenInv what the kernel's pages owe to the last open.                   *)
(***************************************************************************)
EXTENDS NFS_File_IO

WriteOps == {"Write", "Write_Async"}

-----------------------------------------------------------------------------
(* Shapes.                                                                 *)

\* What a handler has at each point of its code.
HandlerShape(k) ==
  /\ k.pc = "idle" => k = Idle
  /\ k.pc # "idle" => k.c # "none" /\ k.fh \in Inodes /\ (k.op \in WriteOps => k.w \in Writes)
  /\ k.pc \in {"open", "io"} => k.n = 0
  /\ k.pc = "open" => k.fd = NoFd
  /\ k.pc \in {"io", "sync", "close", "close2"} =>
       k.fd \in Fds /\ k.mount_fd \in Fds /\ k.fd # k.mount_fd
  /\ k.pc = "sync" => k.op = "Write" /\ k.n = 1

\* A handler that somebody waits for works on the call that is outstanding,
\* and is the only one that does.
Linked(h) ==
  LET k == hd[h]
      r == rpc[k.c]
  IN k.c \in Clients =>
       /\ r.st = "sent" /\ r.op = k.op /\ r.fh = k.fh /\ r.off = k.off /\ r.w = k.w
       /\ \A g \in Handlers \ {h} : hd[g].c # k.c

\* The call of the server that a callback makes.
OpOf(c, callback) ==
  CASE callback = "open"  -> "Lookup"
    [] callback = "read"  -> "Read"
    [] callback = "write" -> IF c \in SyncClients THEN Write_File ELSE Write_File_Async
    [] OTHER              -> "Fsync"

\* The outstanding call belongs to the first callback.  n is 1 only in an OK
\* reply for a file.
RpcShape(c) ==
  LET r == rpc[c] IN
  /\ r.st = "none" => r = NoRpc
  /\ r.st # "none" => app[c].todo # <<>> /\ r.op = OpOf(c, Head(app[c].todo))
  /\ r.st # "none" /\ r.op # "Lookup" =>
       r.fh = handle[c] /\ r.off = app[c].off /\ r.w = app[c].w
  /\ r.st = "sent" \/ r.status # "OK" => r.n = 0
  /\ r.st = "replied" /\ r.status = "OK" /\ r.op # "Lookup" => r.fh \in Inodes

\* A write is the last callback of its system call; only a callback that starts
\* with an open finds no handle.
AppShape(c) ==
  LET todo == app[c].todo IN
  /\ app[c].sys = "none" => todo = <<>>
  /\ \A k \in DOMAIN todo : todo[k] = "write" => k = Len(todo) /\ app[c].w \in Writes
  /\ handle[c] = NoEntry =>
       IF todo = <<>> THEN c \notin opened /\ app[c].sys # "open" ELSE Head(todo) = "open"

\* An int32 in units of blocks is below Int32Blocks.
QueueShape == \A j \in DOMAIN aio : aio[j].off < Int32Blocks

\* No handler runs while the process is down.
DownInv == ~up => \A h \in Handlers : hd[h].pc = "idle"

FInv ==
  /\ TypeOK
  /\ \A h \in Handlers : HandlerShape(hd[h]) /\ Linked(h)
  /\ \A c \in Clients : RpcShape(c) /\ AppShape(c)
  /\ QueueShape
  /\ HandlersKeepTheirDescriptors

-----------------------------------------------------------------------------
(* A write is in one place: still to be sent, with a handler, in the queue *)
(* of the aio threads, or in a file.                                       *)

Writing(c) == \E k \in DOMAIN app[c].todo : app[c].todo[k] = "write"

\* The write of c will be sent, is on its way to a handler, or was refused as
\* stale and will be sent again.
ToSend(c) ==
  /\ Writing(c)
  /\ \/ rpc[c].op \notin WriteOps
     \/ rpc[c].st = "sent" /\ \A h \in Handlers : hd[h].c # c
     \/ rpc[c].st = "replied" /\ rpc[c].status = "INVALID_ARGUMENT"

\* A handler that has the write and has not made it yet.
Carrying(h) == hd[h].op \in WriteOps /\ hd[h].pc \in {"open", "io"}

Places(w) ==
  {<<"client", c>>  : c \in {c \in Clients : ToSend(c) /\ app[c].w = w}} \cup
  {<<"handler", h>> : h \in {h \in Handlers : Carrying(h) /\ hd[h].w = w}} \cup
  {<<"aio", j>>     : j \in {j \in DOMAIN aio : aio[j].w = w}} \cup
  {<<"file", j>>    : j \in {j \in DOMAIN landed : landed[j].w = w}}

OnePlace(w) ==
  /\ \A x, y \in Places(w) : x = y
  /\ Places(w) # {} => w \in issued

OnceInv ==
  /\ \A c \in Clients : Writing(c) => app[c].w \in issued
  /\ \A c, d \in Clients : Writing(c) /\ Writing(d) /\ app[c].w = app[d].w => c = d
  /\ \A w \in Writes : OnePlace(w)

-----------------------------------------------------------------------------
(* What a synchronous write has reached by the time each actor knows of    *)
(* it, unless an fsync of the file failed.                                 *)

\* The cell at which the server puts the block of a handler, a call or a write.
Target(k) == <<k.fh, Int32(k.off)>>

Durable(k) == k.fh \in bad \/ Reached(k.w, Target(k), disk[Target(k)])

DurableInv ==
  /\ \A x \in Cells : content[x] = NoWrite \/ Reached(content[x], x, content[x])
  /\ \A x \in Cells : disk[x] = NoWrite \/ Reached(disk[x], x, content[x])
  /\ \A h \in Handlers :
       /\ hd[h].pc = "sync" => Reached(hd[h].w, Target(hd[h]), content[Target(hd[h])])
       /\ hd[h].pc \in {"close", "close2"} /\ hd[h].op = "Write" /\ hd[h].n = 1 => Durable(hd[h])
  /\ \A c \in Clients : rpc[c].op = "Write" /\ rpc[c].n = 1 => Durable(rpc[c])
  /\ \A a \in acked : a.c \in SyncClients => Durable(a)

-----------------------------------------------------------------------------
(* What a page, or a read on its way to become one, owes to the open.      *)

\* v is not older than what was acknowledged for block off of file i when c
\* opened it.
NotOlder(c, i, off, v) ==
  \A a \in floor[c] :
    /\ a.c \in SyncClients /\ a.fh = i /\ a.off = off
    /\ off < 2 * Int32Blocks /\ i \notin bad
    => Reached(a.w, <<i, off>>, v)

OpenInv ==
  /\ \A a \in acked : a.w \in issued
  /\ \A c \in Clients : Writing(c) => \A a \in acked : a.w # app[c].w
  /\ \A h \in Handlers : LET k == hd[h] IN
       k.c \in Clients /\ k.op = "Read" /\ k.pc \in {"close", "close2"} =>
         NotOlder(k.c, k.fh, k.off, k.v)
  /\ \A c \in Clients : LET r == rpc[c] IN
       r.op = "Read" /\ r.st = "replied" /\ r.status = "OK" => NotOlder(c, r.fh, r.off, r.v)
  /\ \A c \in Clients, off \in Offsets : LET p == page[c][off] IN
       p # NotCached =>
         \/ NotOlder(c, p.i, off, p.v)
         \/ [c |-> c, w |-> p.v, fh |-> p.i, off |-> off] \in acked \ floor[c]

-----------------------------------------------------------------------------
\* All of them together, with DescriptorsReturned, is what each step preserves
\* (on a mount without kernel_cache and auto_cache, which OpenInv needs).
FileInv == FInv /\ DownInv /\ DescriptorsReturned /\ OnceInv /\ DurableInv /\ OpenInv
=============================================================================
