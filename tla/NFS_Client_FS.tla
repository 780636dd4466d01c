---------------------------- MODULE NFS_Client_FS ----------------------------
(***************************************************************************)
(* The client processes (ClientFS and NFS_Client), composed with the       *)
(* server of NFS_Server: the FUSE callbacks, the handle map they share,    *)
(* the blocking RPC stubs and Reconnect_To_Server.                         *)
(*                                                                         *)
(* A thread t = <<c, w>> is worker w of client c.  Between two RPCs a      *)
(* callback runs as one step, so callbacks of one client interleave at     *)
(* their RPCs; an iterator into file_handle_map_ is held across the RPC.   *)
(*                                                                         *)
(* The kernel and libfuse are the environment: which callbacks they issue  *)
(* follows from the names they believe in (dentry), the files they hold    *)
(* open (opened) and the locks they take on paths.                         *)
(***************************************************************************)
EXTENDS NFS_Server

CONSTANT Workload    \* per client: the FUSE callbacks its applications provoke

ASSUME WorkloadAssumption == Workload \in [Clients -> SUBSET (PathOps \cup HandleOps)]

VARIABLES
  file_handle_map_,  \* per client: the cached handle of each path, or NoEntry
  call,              \* the callback each thread is running
  dentry,            \* external: the paths the kernel of a client believes in
  opened             \* external: the files the kernel of a client holds open

clientVars == <<file_handle_map_, call, dentry, opened>>
vars       == <<serverVars, clientVars>>

\* pc: "start", at the entry of the callback; "open", at the entry of the
\* ClientFS::open it calls; "rpc", in a stub; "reconnect", in
\* Reconnect_To_Server; "resume", back from it; "done", returned with ret;
\* "gone", its process died.
\* itr: fh_itr still points at an element of the map.
\* chain: the callback is the lookup libfuse makes after a create or a mkdir.
Call == [op    : {"none"} \cup PathOps \cup HandleOps,
         path  : Paths,
         to    : Paths,
         flags : {"none", "noreplace", "exchange"},
         pc    : {"idle", "start", "open", "rpc", "reconnect", "resume", "done", "gone"},
         itr   : BOOLEAN,
         chain : BOOLEAN,
         tries : 0..RETRY_TIMEOUT,
         ret   : {"zero", "count", "EPERM", "ENOENT", "EBADR"}]

Started(op, p, q, flags, chain) ==
  [op |-> op, path |-> p, to |-> q, flags |-> flags, pc |-> "start",
   itr |-> FALSE, chain |-> chain, tries |-> 0, ret |-> "zero"]

IdleCall == [Started("none", Root, Root, "none", FALSE) EXCEPT !.pc = "idle"]

TypeOK ==
  /\ ServerTypeOK
  /\ file_handle_map_ \in [Clients -> [Paths -> Handles \cup {NoEntry}]]
  /\ call \in [Threads -> Call]
  /\ dentry \in [Clients -> SUBSET Paths]
  /\ opened \in [Clients -> SUBSET Files]

Existing == {p \in Paths : Present(p)}

\* A client starts with an empty map, and its kernel has walked the tree.
Init ==
  /\ ServerInit
  /\ file_handle_map_ = [c \in Clients |-> [p \in Paths |-> NoEntry]]
  /\ call = [t \in Threads |-> IdleCall]
  /\ dentry = [c \in Clients |-> Existing]
  /\ opened = [c \in Clients |-> {}]

-----------------------------------------------------------------------------
(* Kernel and libfuse (external): which callbacks run.                     *)

Peers(t) == {u \in Threads \ {t} : ClientOf(u) = ClientOf(t)}

Running(u) == call[u].pc \notin {"idle", "gone"}

DirChanging == {"create", "unlink", "mkdir", "rmdir", "rename"}
TreeLocking == {"unlink", "rmdir", "rename"}

Parent(p)      == IF p \in Dirs THEN Root ELSE Dir(p)
Overlaps(P, Q) == \E p \in P, q \in Q : Under(p, q) \/ Under(q, p)

\* libfuse holds a write lock on the paths that unlink, rmdir and rename
\* remove, and a read lock on every other path in use; the kernel holds the
\* lock of the directory a callback changes, shared by a lookup in it.
Excludes(op, P, op2, P2) ==
  \/ (op \in TreeLocking \/ op2 \in TreeLocking) /\ Overlaps(P, P2)
  \/ /\ op \in DirChanging /\ op2 \in DirChanging
     /\ {Parent(p) : p \in P} \cap {Parent(p) : p \in P2} # {}
  \/ {op, op2} \cap DirChanging # {} /\ "getattr" \in {op, op2} /\ P \cap P2 # {}
  \/ "release" \in {op, op2} /\ {op, op2} \subseteq HandleOps /\ P \cap P2 # {}

Dispatch(t, op, p, q, flags) ==
  /\ call[t].pc = "idle"
  /\ op \in Workload[ClientOf(t)]
  /\ \A u \in Peers(t) :
       Running(u) => ~Excludes(op, {p, q}, call[u].op, {call[u].path, call[u].to})
  /\ call' = [call EXCEPT ![t] = Started(op, p, q, flags, FALSE)]
  /\ UNCHANGED <<serverVars, file_handle_map_, dentry, opened>>

\* The kernel asks for what it has no name for or no longer trusts; it opens
\* and removes what it believes in, creates what it does not, and does I/O on
\* what it holds open.  Bounds: a client holds a file open once, and creates
\* only while there is an inode number left for it.  libfuse (without
\* hard_remove) never removes a name that is open: it renames it away first.
InodeLeft ==
    Cardinality({u \in Threads : call[u].op = "create"})
  + Cardinality({x \in late : x.op = "CreateFile"}) < Cardinality(Inodes \ born)

DispatchFile(t, f) ==
  LET c == ClientOf(t) IN
  /\ Dir(f) \in dentry[c]
  /\ \/ Dispatch(t, "getattr", f, f, "none")
     \/ /\ f \in dentry[c] \ opened[c]
        /\ Dispatch(t, "open", f, f, "none") \/ Dispatch(t, "unlink", f, f, "none")
     \/ /\ f \notin dentry[c] \cup opened[c] /\ InodeLeft
        /\ Dispatch(t, "create", f, f, "none")

DispatchIO(t, f) ==
  /\ f \in opened[ClientOf(t)]
  /\ \E op \in HandleOps : Dispatch(t, op, f, f, "none")

\* Bound: a directory is not removed or replaced while this client holds a file
\* of it open (libfuse would have no path left for that file).
OpenBelow(c, p) == \E f \in opened[c] : Under(f, p)

DispatchDir(t, d) ==
  LET c == ClientOf(t) IN
  \/ d # Root /\ Dispatch(t, "getattr", d, d, "none")
  \/ d \in dentry[c] /\ Dispatch(t, "readdir", d, d, "none")
  \/ d \notin dentry[c] /\ Dispatch(t, "mkdir", d, d, "none")
  \/ /\ d \in dentry[c] \ {Root} /\ ~OpenBelow(c, d)
     /\ Dispatch(t, "rmdir", d, d, "none")

DispatchRename(t, p, q) ==
  LET c == ClientOf(t) IN
  /\ p # q /\ Root \notin {p, q} /\ (p \in Dirs <=> q \in Dirs)
  /\ p \in dentry[c] /\ {Parent(p), Parent(q)} \subseteq dentry[c]
  /\ \E flags \in RenameFlags :
       /\ flags = "noreplace" => q \notin dentry[c]
       /\ flags = "exchange"  => q \in dentry[c]
       /\ flags # "exchange"  => ~OpenBelow(c, q)
       /\ Dispatch(t, "rename", p, q, flags)

Kernel(t) ==
  \/ \E f \in Files : DispatchFile(t, f) \/ DispatchIO(t, f)
  \/ \E d \in Dirs : DispatchDir(t, d)
  \/ \E p, q \in Paths : DispatchRename(t, p, q)

\* What the kernel believes once p was renamed to q.
MovedNames(S, p, q) ==
  {r \in S : ~Under(r, p) /\ ~Under(r, q)} \cup {Image(r, p, q) : r \in {s \in S : Under(s, p)}}

SwappedNames(S, p, q) ==
  MovedNames(S, p, q) \cup {Image(r, q, p) : r \in {s \in S : Under(s, q)}}

Below(S, p) == {r \in S : Under(r, p)}

\* The callback's return value reaches libfuse and the kernel.
Finish(t) ==
  LET c  == ClientOf(t)
      k  == call[t]
      ok == k.ret \in {"zero", "count"}
      Renamed(S) == IF k.flags = "exchange" THEN SwappedNames(S, k.path, k.to)
                                            ELSE MovedNames(S, k.path, k.to)
      \* after a create or a mkdir, libfuse looks the name up
      followUp == k.op \in {"create", "mkdir"} /\ ok
      \* a created file that is not found is released and not opened
      undo     == k.op = "getattr" /\ k.chain /\ ~ok /\ k.path \in Files
  IN
  /\ k.pc = "done"
  /\ call' = [call EXCEPT ![t] =
                IF followUp THEN Started("getattr", k.path, k.path, "none", TRUE)
                ELSE IF undo THEN Started("release", k.path, k.path, "none", FALSE)
                ELSE IdleCall]
  /\ dentry' = [dentry EXCEPT ![c] =
                  IF k.op = "getattr"
                    THEN IF ok THEN @ \cup {k.path} ELSE @ \ Below(@, k.path)
                  ELSE IF k.op \in {"unlink", "rmdir"} /\ ok THEN @ \ Below(@, k.path)
                  ELSE IF k.op = "rename" /\ ok THEN Renamed(@)
                  ELSE @]
  /\ opened' = [opened EXCEPT ![c] =
                  IF (k.op = "open" \/ (k.chain /\ k.path \in Files)) /\ ok
                    THEN @ \cup {k.path}
                  ELSE IF k.op = "release" THEN @ \ {k.path}
                  ELSE IF k.op = "rename" /\ ok THEN Renamed(@)
                  ELSE @]
  /\ UNCHANGED <<serverVars, file_handle_map_>>
-----------------------------------------------------------------------------
(* The RPC stubs of NFS_Client.                                            *)

Map(t)        == file_handle_map_[ClientOf(t)]
Find(t)       == Map(t)[call[t].path]
At(t, op, pc) == call[t].op = op /\ call[t].pc = pc

\* A stub fills in the request and blocks in stub_->op; itr says whether the
\* callback holds on to an iterator meanwhile.
Send(t, op, fh, itr) ==
  /\ rpc' = [rpc EXCEPT ![t] =
               [NoRpc EXCEPT !.st = "sent", !.op = op, !.path = call[t].path,
                             !.to = call[t].to, !.flags = call[t].flags, !.fh = fh]]
  /\ call' = [call EXCEPT ![t].pc = "rpc", ![t].itr = itr]
  /\ UNCHANGED <<tree, up, faults, late, file_handle_map_, dentry, opened>>

Lookup_File(t)         == Send(t, "Lookup", EmptyHandle, FALSE)
Read_Directory(t)      == Send(t, "Readdir", EmptyHandle, FALSE)
Read_File(t)           == Send(t, "Read", Find(t), TRUE)
Get_File_Attributes(t) == Send(t, "Getattr", EmptyHandle, FALSE)
Write_File_Async(t)    == Send(t, "Write_Async", Find(t), TRUE)
Create_File(t)         == Send(t, "CreateFile", EmptyHandle, FALSE)
Delete_File(t)         == Send(t, "DeleteFile", EmptyHandle, FALSE)
Create_Directory(t)    == Send(t, "CreateDirectory", EmptyHandle, FALSE)
Delete_Directory(t)    == Send(t, "DeleteDirectory", EmptyHandle, FALSE)
Rename_File(t)         == Send(t, "RenameFile", EmptyHandle, FALSE)
Fsync_File(t)          == Send(t, "Fsync", Find(t), TRUE)

\* Every stub but these two calls Reconnect_To_Server on CONN_ERR_CODE.
Reconnecting == RpcOps \ {"RenameFile", "Fsync"}

ConnectionLost(t) ==
  /\ rpc[t].st = "replied" /\ rpc[t].status = "UNAVAILABLE"
  /\ rpc[t].op \in Reconnecting

EnterReconnect(t) ==
  /\ call[t].pc = "rpc" /\ ConnectionLost(t)
  /\ call' = [call EXCEPT ![t].pc = "reconnect"]
  /\ UNCHANGED <<serverVars, file_handle_map_, dentry, opened>>

\* The stub of Ping, and whether its status is ok().
Ping_Server == Ping(12245725)

\* Mutants of Reconnect_To_Server: a timeout checked one ping too late, and none.
ReconnectOnceMore(t) ==
  /\ call[t].pc = "reconnect"
  /\ \/ /\ call[t].tries > RETRY_TIMEOUT \/ up
        /\ call' = [call EXCEPT ![t].pc = "resume"]
     \/ /\ call[t].tries <= RETRY_TIMEOUT
        /\ call' = [call EXCEPT ![t].tries = @ + 1]
  /\ UNCHANGED <<serverVars, file_handle_map_, dentry, opened>>

ReconnectForEver(t) ==
  /\ call[t].pc = "reconnect" /\ up
  /\ call' = [call EXCEPT ![t].pc = "resume"]
  /\ UNCHANGED <<serverVars, file_handle_map_, dentry, opened>>

\* A ping per iteration: it fails for as long as the server is away, and may
\* fail for longer while the channel backs off.  The stub takes no notice of
\* what is returned, and the call that failed is not made again.
Reconnect_To_Server(t) ==
  /\ call[t].pc = "reconnect"
  /\ \/ /\ call[t].tries >= RETRY_TIMEOUT
        /\ call' = [call EXCEPT ![t].pc = "resume"]
     \/ /\ call[t].tries < RETRY_TIMEOUT /\ Ping_Server
        /\ call' = [call EXCEPT ![t].pc = "resume"]
     \/ /\ call[t].tries < RETRY_TIMEOUT
        /\ call' = [call EXCEPT ![t].tries = @ + 1]
  /\ UNCHANGED <<serverVars, file_handle_map_, dentry, opened>>

\* The stub of op returns to its callback.
Replied(t, op) ==
  /\ rpc[t].st = "replied" /\ rpc[t].op = op
  /\ call[t].pc = "resume" \/ (call[t].pc = "rpc" /\ ~ConnectionLost(t))

Succeeded(t) == rpc[t].status = "OK"
IsStale(t)   == rpc[t].status = "INVALID_ARGUMENT"   \* error_code() == 116

-----------------------------------------------------------------------------
(* The callbacks of ClientFS.                                              *)

Without(m, p) == [m EXCEPT ![p] = NoEntry]

\* A callback leaves the stub with m as its client's map; an iterator another
\* thread holds to an entry that m no longer has is left dangling.
Leave(t, pc, ret, m) ==
  LET dangles(u) == /\ u # t /\ ClientOf(u) = ClientOf(t)
                    /\ m[call[u].path] = NoEntry
  IN
  /\ call' = [u \in Threads |->
               IF u = t
                 THEN [call[t] EXCEPT !.pc = pc, !.itr = FALSE, !.tries = 0, !.ret = ret]
               ELSE IF dangles(u) THEN [call[u] EXCEPT !.itr = FALSE]
               ELSE call[u]]
  /\ rpc' = [rpc EXCEPT ![t] = NoRpc]
  /\ file_handle_map_' = [file_handle_map_ EXCEPT ![ClientOf(t)] = m]
  /\ UNCHANGED <<tree, up, faults, late, dentry, opened>>

Return(t, ret) == Leave(t, "done", ret, Map(t))

\* The process of client c dies, and each of its threads with its callback; the
\* server goes on with the requests it has.  D: the names its kernel is left with.
Die(c, k, D) ==
  LET own == {t \in Threads : ClientOf(t) = c} IN
  /\ file_handle_map_' = [file_handle_map_ EXCEPT ![c] = [p \in Paths |-> NoEntry]]
  /\ call' = [t \in Threads |-> IF t \in own THEN k ELSE call[t]]
  /\ rpc' = [t \in Threads |-> IF t \in own THEN NoRpc ELSE rpc[t]]
  /\ late' = late \cup LeftBehind(own)
  /\ dentry' = [dentry EXCEPT ![c] = D]
  /\ opened' = [opened EXCEPT ![c] = {}]
  /\ UNCHANGED <<tree, up>>

\* By itself: the mount is left behind with no process.
Abort(c) == Die(c, [IdleCall EXCEPT !.pc = "gone"], {}) /\ UNCHANGED faults

\* The application mounts again.
Remount(c) == Die(c, IdleCall, Existing)

getattr(t) ==
  \/ At(t, "getattr", "start") /\ Get_File_Attributes(t)
  \/ Replied(t, "Getattr") /\ Return(t, IF Succeeded(t) THEN "zero" ELSE "ENOENT")

readdir(t) ==
  \/ At(t, "readdir", "start") /\ Read_Directory(t)
  \/ Replied(t, "Readdir") /\ Return(t, "zero")

\* open is a callback, and is called by create and on a stale handle; the
\* handle it caches is whatever Lookup_File returned.
open(t) ==
  LET after == IF call[t].op \in {"open", "create"} THEN "done" ELSE "start" IN
  \/ /\ At(t, "open", "start") \/ call[t].pc = "open"
     /\ \/ Find(t) # NoEntry /\ Leave(t, after, "zero", Map(t))
        \/ Find(t) = NoEntry /\ Lookup_File(t)
  \/ /\ Replied(t, "Lookup")
     /\ Leave(t, after, "zero", [Map(t) EXCEPT ![call[t].path] = rpc[t].fh])

\* erase(fh_itr), then open, then the callback from its start.  An iterator that
\* dangles names freed memory: another node of the map if that memory was used
\* again, and otherwise the process aborts.
DropStale(t) ==
  /\ IsStale(t)
  /\ \/ /\ call[t].itr
        /\ Leave(t, "open", "zero", Without(Map(t), call[t].path))
     \/ /\ ~call[t].itr
        /\ \E p \in Paths : /\ Map(t)[p] # NoEntry
                           /\ Leave(t, "open", "zero", Without(Map(t), p))
     \/ ~call[t].itr /\ Abort(ClientOf(t))

\* Every status but OK leaves actual_read_bytes at 0, which is an end of file.
read(t) ==
  \/ At(t, "read", "start") /\ Find(t) = NoEntry /\ Return(t, "EPERM")
  \/ At(t, "read", "start") /\ Find(t) # NoEntry /\ Read_File(t)
  \/ /\ Replied(t, "Read")
     /\ \/ DropStale(t)
        \/ ~IsStale(t) /\ Return(t, IF Succeeded(t) THEN "count" ELSE "zero")

write(t) ==
  \/ At(t, "write", "start") /\ Find(t) = NoEntry /\ Return(t, "EBADR")
  \/ At(t, "write", "start") /\ Find(t) # NoEntry /\ Write_File_Async(t)
  \/ /\ Replied(t, "Write_Async")
     /\ \/ DropStale(t)
        \/ ~IsStale(t) /\ Return(t, IF Succeeded(t) THEN "count" ELSE "zero")

\* flush and release are fsync.
fsync(t) ==
  \/ /\ call[t].op \in {"fsync", "flush", "release"} /\ call[t].pc = "start"
     /\ \/ Find(t) = NoEntry /\ Return(t, "EPERM")
        \/ Find(t) # NoEntry /\ Fsync_File(t)
  \/ /\ Replied(t, "Fsync")
     /\ \/ DropStale(t)
        \/ ~IsStale(t) /\ Return(t, IF rpc[t].data < 0 THEN "EPERM" ELSE "zero")

\* Mutants of create: the request is made again after a reconnect, and the
\* callback returns without calling open.
CreateAgain(t) ==
  \/ At(t, "create", "start") /\ Create_File(t)
  \/ /\ Replied(t, "CreateFile")
     /\ IF rpc[t].status = "UNAVAILABLE" THEN Create_File(t)
        ELSE IF rpc[t].data < 0 THEN Return(t, "EPERM")
        ELSE Leave(t, "open", "zero", Map(t))

CreateUnopened(t) ==
  \/ At(t, "create", "start") /\ Create_File(t)
  \/ Replied(t, "CreateFile") /\ Return(t, IF rpc[t].data < 0 THEN "EPERM" ELSE "zero")

create(t) ==
  \/ At(t, "create", "start") /\ Create_File(t)
  \/ /\ Replied(t, "CreateFile")
     /\ IF rpc[t].data < 0 THEN Return(t, "EPERM") ELSE Leave(t, "open", "zero", Map(t))

\* A mutant of unlink: a file this client never opened is not worth an RPC.
UnlinkCached(t) ==
  \/ At(t, "unlink", "start") /\ Find(t) # NoEntry /\ Delete_File(t)
  \/ At(t, "unlink", "start") /\ Find(t) = NoEntry /\ Return(t, "zero")
  \/ /\ Replied(t, "DeleteFile")
     /\ Leave(t, "done", "zero", Without(Map(t), call[t].path))

unlink(t) ==
  \/ At(t, "unlink", "start") /\ Delete_File(t)
  \/ /\ Replied(t, "DeleteFile")
     /\ IF rpc[t].data = 0 THEN Leave(t, "done", "zero", Without(Map(t), call[t].path))
                           ELSE Return(t, "ENOENT")

mkdir(t) ==
  \/ At(t, "mkdir", "start") /\ Create_Directory(t)
  \/ /\ Replied(t, "CreateDirectory")
     /\ Return(t, IF rpc[t].data < 0 THEN "EPERM" ELSE "zero")

rmdir(t) ==
  \/ At(t, "rmdir", "start") /\ Delete_Directory(t)
  \/ /\ Replied(t, "DeleteDirectory")
     /\ Return(t, IF rpc[t].data < 0 THEN "EPERM" ELSE "zero")

\* Mutants of MoveHandle: the old entry stays, the new one is not made, and the
\* handle is read after it was moved from.
CopyHandle(m, p, q)  == IF m[p] = NoEntry THEN m ELSE [m EXCEPT ![q] = m[p]]
EraseHandle(m, p, q) == Without(m, p)
EmptyMoved(m, p, q)  == IF m[p] = NoEntry THEN m
                        ELSE [m EXCEPT ![q] = EmptyHandle, ![p] = NoEntry]

\* Only the entry of from_path itself moves, whatever lies below it.
MoveHandle(m, p, q) == IF m[p] = NoEntry THEN m ELSE [m EXCEPT ![q] = m[p], ![p] = NoEntry]

rename(t) ==
  \/ At(t, "rename", "start") /\ Rename_File(t)
  \/ /\ Replied(t, "RenameFile")
     /\ IF rpc[t].data < 0
          THEN Return(t, "EPERM")
          ELSE Leave(t, "done", "zero", MoveHandle(Map(t), call[t].path, call[t].to))

Callback(t) ==
  \/ getattr(t) \/ readdir(t) \/ open(t) \/ read(t) \/ write(t) \/ fsync(t)
  \/ create(t) \/ unlink(t) \/ mkdir(t) \/ rmdir(t) \/ rename(t)
  \/ EnterReconnect(t) \/ Reconnect_To_Server(t)

\* A client dies, unless it already has, and is mounted again.
ClientCrash(c) ==
  /\ faults < MaxFaults /\ faults' = faults + 1
  /\ Remount(c)

-----------------------------------------------------------------------------
ClientStep(t) == Kernel(t) \/ Callback(t) \/ Finish(t)

ServerStep ==
  /\ \/ \E t \in Threads : Serve(t) \/ Refuse(t) \/ LoseRpc(t) \/ RpcUnavailable(t)
     \/ \E x \in late : ServeLate(x)
     \/ ServerCrash \/ RunServer
  /\ UNCHANGED clientVars

Next ==
  \/ \E t \in Threads : ClientStep(t)
  \/ ServerStep
  \/ \E c \in Clients : ClientCrash(c)

Spec == Init /\ [][Next]_vars

\* A thread that can run does, the server serves what it received, and gRPC
\* reports a connection that is gone.  Nobody promises that the server is
\* started again, nor that an application makes another call.
Fairness == \A t \in Threads :
  /\ WF_vars(Callback(t)) /\ WF_vars(Finish(t))
  /\ WF_vars((Serve(t) \/ RpcUnavailable(t)) /\ UNCHANGED clientVars)

FairSpec == Spec /\ Fairness
-----------------------------------------------------------------------------
(* Properties.                                                             *)

Quiet(c, f) == \A t \in Threads :
  ClientOf(t) = c /\ Running(t) => f \notin {call[t].path, call[t].to}

\* A file its client holds open has an entry in the handle map whenever no
\* callback is at work on it: without one read, write and fsync answer -1 for
\* ever, because only open and create look a handle up.  It has to survive
\* unlink, rename, stale handles and every fault.
OpenFileHasHandle ==
  \A c \in Clients : \A f \in opened[c] :
    Quiet(c, f) => file_handle_map_[c][f] # NoEntry

\* With one client and no fault a handle cached for a path can be relied on
\* outside callbacks: it is a handle the server gave out, and if its file still
\* has a name at all, that name is the path.  So a read or a write reaches the
\* file at its path or is told that the handle is stale, whatever sequence of
\* creates, unlinks, renames and opens came before.  (A stale handle does stay
\* in the map: rename replaces a file without touching the entry of to_path.)
CacheCoherent ==
  \A c \in Clients, f \in Files :
    LET h == file_handle_map_[c][f] IN
    Quiet(c, f) /\ h # NoEntry => h # EmptyHandle /\ (Linked(h) => entry[f] = h)

\* No callback sends what makes the server exit: the empty handle of a lookup
\* that failed (open_mount_path_by_id), or a directory that is gone (Readdir).
ServerSurvives == up

\* A callback that reports success did what it was asked to: the name is there
\* after create and mkdir, gone after unlink and rmdir, moved after rename.
\* Stated for a tree no other client or worker changes meanwhile.
SuccessIsReal ==
  \A t \in Threads :
    call[t].pc = "done" /\ call[t].ret = "zero" =>
      /\ call[t].op \in {"create", "mkdir"} => Present(call[t].path)
      /\ call[t].op \in {"unlink", "rmdir"} => ~Present(call[t].path)
      /\ call[t].op = "rename" => ~Present(call[t].path) /\ Present(call[t].to)

\* ENOENT from getattr means that there is no such file.
EnoentIsReal ==
  \A t \in Threads :
    At(t, "getattr", "done") /\ call[t].ret = "ENOENT" => ~Present(call[t].path)

\* A callback that finds its handle stale still has the iterator it erases.
StaleIteratorIsValid ==
  \A t \in Threads : rpc[t].st = "replied" /\ IsStale(t) => call[t].itr

\* An open that finds a handle in the map finds the one of the file at its path,
\* or one that the first read or write will find stale.
CachedOpenIsCurrent ==
  [][\A t \in Threads :
          /\ At(t, "open", "start") \/ call[t].pc = "open"
          /\ call'[t].pc \in {"start", "done"} /\ Linked(Find(t))
       => Find(t) = entry[call[t].path]]_vars

\* rename(2) with RENAME_NOREPLACE replaces nothing, and RENAME_EXCHANGE leaves
\* both files in place.
RenameFlagsHonoured ==
  [][\A t \in Threads :
       rpc[t].st = "sent" /\ rpc[t].op = "RenameFile" /\ rpc'[t].status = "OK" /\ rpc'[t].st = "replied"
         => /\ rpc[t].flags = "noreplace" => ~Present(rpc[t].to)
            /\ rpc[t].flags = "exchange" /\ rpc[t].path \in Files
                 => entry'[rpc[t].path] = entry[rpc[t].to]]_vars

\* Every callback returns, though connections break and the server may stay
\* away for good: the pings of Reconnect_To_Server are counted.
EveryCallbackReturns ==
  \A t \in Threads : Running(t) ~> ~Running(t)

-----------------------------------------------------------------------------
(* Every behaviour of the system is one of NFS_Namespace: no reconnect, no  *)
(* stale handle and no crash makes a mutation happen twice or in part.     *)

Mutating(t)  == call[t].op \in DirChanging /\ Running(t)
Unsettled(t) == /\ Mutating(t)
                /\ \/ call[t].pc = "start"
                   \/ rpc[t].st = "sent" /\ rpc[t].op \in MutationRpcs

\* The mutation that a request asks for.
Asked(rpcOp) == CASE rpcOp = "CreateFile"      -> "create"
                  [] rpcOp = "DeleteFile"      -> "unlink"
                  [] rpcOp = "CreateDirectory" -> "mkdir"
                  [] rpcOp = "DeleteDirectory" -> "rmdir"
                  [] rpcOp = "RenameFile"      -> "rename"

LateWish(x) == <<x.thread, [op |-> Asked(x.op), path |-> x.path, to |-> x.to]>>

Namespace == INSTANCE NFS_Namespace WITH
  phase <- [t \in Threads |-> IF Unsettled(t) THEN "pending"
                              ELSE IF Mutating(t) THEN "over" ELSE "idle"],
  wish  <- [t \in Threads |->
              IF Unsettled(t)
                THEN [op |-> call[t].op, path |-> call[t].path, to |-> call[t].to]
                ELSE [op |-> "none", path |-> Root, to |-> Root]],
  late  <- {LateWish(x) : x \in {y \in late : y.op \in MutationRpcs}}

\* A create, unlink, mkdir, rmdir or rename takes effect at most once and in one
\* step: while its callback runs, or, when its connection was lost or its client
\* died, by the handler that was left behind.  The stubs reconnect but never send
\* a request again, so no mutation has two handlers.
MutationsAtMostOnce == Namespace!NSpec
=============================================================================
