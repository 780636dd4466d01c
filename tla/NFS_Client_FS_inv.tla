-------------------------- MODULE NFS_Client_FS_inv --------------------------
(***************************************************************************)
(* The inductive invariants of the composed system: TInv behind TypeOK and *)
(* the implementation of NFS_Namespace, HInv behind OpenFileHasHandle, and *)
(* CInv behind CacheCoherent, ServerSurvives and SuccessIsReal.  They are  *)
(* checked by TLC on small instances (MC_Client) and proved to be          *)
(* inductive for all values of the constants in NFS_Client_FS_proofs and   *)
(* NFS_Coherence_proofs.                                                   *)
(***************************************************************************)
EXTENDS NFS_Client_FS

\* What a callback can be at work on: a file, a directory, or two of a kind.
CallShape(k) ==
  /\ k.op \in {"open", "create", "unlink"} \cup HandleOps => k.path \in Files
  /\ k.op \in {"mkdir", "rmdir", "readdir"} => k.path \in Dirs
  /\ k.op = "rename" => (k.path \in Files <=> k.to \in Files)
  /\ k.pc = "open" => k.op \in {"create"} \cup HandleOps

\* The callbacks that issue an RPC: only Lookup has several, for open is called
\* by create and by every callback that finds its handle stale.
IssuedBy(rpcOp, op) ==
  /\ rpcOp = "Getattr"         => op = "getattr"
  /\ rpcOp = "Readdir"         => op = "readdir"
  /\ rpcOp = "CreateFile"      => op = "create"
  /\ rpcOp = "DeleteFile"      => op = "unlink"
  /\ rpcOp = "CreateDirectory" => op = "mkdir"
  /\ rpcOp = "DeleteDirectory" => op = "rmdir"
  /\ rpcOp = "RenameFile"      => op = "rename"
  /\ rpcOp = "Read"            => op = "read"
  /\ rpcOp = "Write_Async"     => op = "write"
  /\ rpcOp = "Fsync"           => op \in {"fsync", "flush", "release"}
  /\ rpcOp = "Lookup"          => op \in {"open", "create"} \cup HandleOps

\* A thread that has an RPC outstanding is in a stub, for the callback it runs.
RpcShape(k, r) ==
  r.st # "none" =>
    /\ k.pc \in {"rpc", "reconnect", "resume"}
    /\ k.op # "none" /\ IssuedBy(r.op, k.op)
    /\ r.path = k.path /\ r.to = k.to

\* A request that was left behind has paths its handler can act on.
LateShape(x) ==
  /\ x.op \in {"CreateFile", "DeleteFile"} => x.path \in Files
  /\ x.op \in {"CreateDirectory", "DeleteDirectory", "Readdir"} => x.path \in Dirs
  /\ x.op = "RenameFile" => (x.path \in Files <=> x.to \in Files)

ShapeOK == /\ \A t \in Threads : CallShape(call[t]) /\ RpcShape(call[t], rpc[t])
           /\ \A x \in late : LateShape(x)

TInv == TypeOK /\ ShapeOK

-----------------------------------------------------------------------------
(* Handles of open files, with one worker per client, a flat tree and no   *)
(* RENAME_EXCHANGE.                                                        *)

OneWorker == \E w : Workers = {w}
FlatTree  == Dirs = {Root}

Entry(t, p) == file_handle_map_[ClientOf(t)][p]

InStub(t, op) == rpc[t].st # "none" /\ rpc[t].op = op

\* The callback is about to look the handle of its path up again.
LookingUp(t) == call[t].op \in HandleOps /\ (call[t].pc = "open" \/ InStub(t, "Lookup"))

\* The handle was moved, and the kernel does not know yet.
Moved(t) == At(t, "rename", "done") /\ call[t].ret \in {"zero", "count"}

\* What each callback knows of the map and of the open files of its client.
CallKnows(t) ==
  LET k == call[t] IN
  /\ k.flags # "exchange"
  /\ k.op \in {"open", "create", "unlink"} => k.path \notin opened[ClientOf(t)]
  /\ k.op = "rename" => /\ k.path \in Files /\ k.to \in Files /\ k.path # k.to
                        /\ k.to \notin opened[ClientOf(t)]
  /\ Moved(t) /\ k.path \in opened[ClientOf(t)] => Entry(t, k.to) # NoEntry
  /\ k.op = "open" /\ k.pc = "done" => Entry(t, k.path) # NoEntry
  /\ k.op = "create" /\ k.pc = "done" /\ k.ret \in {"zero", "count"} => Entry(t, k.path) # NoEntry
  /\ k.chain /\ k.path \in Files => /\ k.op = "getattr"
                                    /\ k.path \notin opened[ClientOf(t)]
                                    /\ Entry(t, k.path) # NoEntry
  /\ rpc[t].st # "none" /\ rpc[t].op \in HandleRpcs => k.itr

\* An open file without an entry is one whose handle its callback is replacing.
OpenEntry(t) ==
  \A f \in opened[ClientOf(t)] :
    Entry(t, f) = NoEntry =>
      /\ f = call[t].path
      /\ LookingUp(t) \/ Moved(t)

HandleInv == \A t \in Threads : CallKnows(t) /\ OpenEntry(t)

HInv == TInv /\ HandleInv

-----------------------------------------------------------------------------
(* What one client can rely on, with any number of workers, a flat tree,   *)
(* no fault and no RENAME_EXCHANGE: each callback knows what the kernel's  *)
(* locks keep true of its path until it returns.                           *)

OneClient == \E c : Clients = {c}

Alone == /\ OneClient /\ FlatTree
         /\ MaxFaults = 0 /\ "exchange" \notin RenameFlags

NamesOf(t) == {call[t].path, call[t].to}

\* Callbacks that exclude each other never run together.
LocksHeld ==
  \A t \in Threads : \A u \in Peers(t) :
    Running(t) /\ Running(u) => ~Excludes(call[t].op, NamesOf(t), call[u].op, NamesOf(u))

\* A file has one name, and no inode is used that was not allocated.
TreeSound ==
  /\ Root \in dirs
  /\ \A f, g \in Files : entry[f] = entry[g] /\ entry[f] # NoInode => f = g
  /\ \A f \in Files : entry[f] # NoInode => entry[f] \in born

\* The callbacks whose mutation took effect, and their clients do not know yet.
Over(t) == Mutating(t) /\ ~Unsettled(t)

\* What a callback knows of its path while it holds the locks.
CallRelies(t) ==
  LET k == call[t]
      D == dentry[ClientOf(t)]
      O == opened[ClientOf(t)]
  IN
  /\ k.op = "none" <=> k.pc = "idle"
  /\ k.pc \notin {"reconnect", "resume", "gone"}
  /\ k.op # "rmdir"
  /\ k.op # "rename" => k.to = k.path
  /\ k.op = "create" => /\ k.path \notin D \cup O
                        /\ entry[k.path] # NoInode <=> Over(t)
  /\ k.op = "unlink" => /\ k.path \in D \ O
                        /\ entry[k.path] = NoInode <=> Over(t)
  /\ k.op = "rename" => /\ k.path \in Files /\ k.to \in Files /\ k.path # k.to
                        /\ k.flags # "exchange"
                        /\ k.path \in D /\ k.to \notin O
                        /\ entry[k.path] = NoInode <=> Over(t)
                        /\ Over(t) => entry[k.to] # NoInode
  /\ k.op \in {"open"} \cup HandleOps => k.path \in D /\ entry[k.path] # NoInode
  /\ k.chain => k.op = "getattr" /\ Present(k.path)
  /\ k.pc = "done" => IF k.op = "getattr"
                      THEN k.ret \in {"zero", "count"} <=> Present(k.path)
                      ELSE k.op \in DirChanging => k.ret = "zero"

\* What the answer to an RPC says is still so when its callback reads it.
RpcRelies(t) ==
  LET r == rpc[t] IN
  /\ r.st = "sent" /\ r.op \in HandleRpcs => r.fh \in Inodes
  /\ r.st = "replied" => /\ r.status # "UNAVAILABLE" /\ r.data = 0
                         /\ r.op = "Lookup" => r.fh = entry[r.path]
                         /\ r.op = "Getattr" => (r.status = "OK" <=> Present(r.path))

\* The names the kernel believes in are those of the tree, but for the names
\* of a callback that is changing it.
Touches(t, f) ==
  /\ f \in NamesOf(t)
  /\ call[t].op \in {"create", "unlink", "rename"} \/ call[t].chain

NamesRely(c) ==
  /\ opened[c] \subseteq dentry[c]
  /\ \A f \in Files : (\A t \in Threads : ~Touches(t, f)) =>
                         (f \in dentry[c] <=> entry[f] # NoInode)

\* The callback renamed f, and its handle still has to follow.
Following(t, f) == /\ call[t].op = "rename" /\ call[t].path = f
                   /\ Over(t) /\ call[t].pc # "done"

\* A cached handle is one the server gave out, and is of its path or of no path.
HandleRelies(f, h) ==
  h # NoEntry =>
    /\ h \in born
    /\ Linked(h) => \/ entry[f] = h
                    \/ \E t \in Threads : Following(t, f) /\ entry[call[t].to] = h

Relies ==
  /\ up /\ late = {} /\ LocksHeld /\ TreeSound
  /\ \A t \in Threads : CallRelies(t) /\ RpcRelies(t)
  /\ \A c \in Clients : NamesRely(c) /\ \A f \in Files : HandleRelies(f, file_handle_map_[c][f])

\* The client erased an iterator that dangled, and the process is gone.  The
\* requests it left behind run on, and none of them ends the server.
Gone ==
  /\ up /\ Root \in dirs
  /\ \A t \in Threads : call[t].pc = "gone" /\ rpc[t].st = "none"
  /\ \A c \in Clients, p \in Paths : file_handle_map_[c][p] = NoEntry
  /\ \A x \in late : /\ x.op \notin HandleRpcs \cup {"DeleteDirectory"}
                     /\ x.op = "RenameFile" => x.path \in Files

RInv == TInv /\ Relies
CInv == TInv /\ (Relies \/ Gone)
=============================================================================
