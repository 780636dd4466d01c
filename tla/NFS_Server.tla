----------------------------- MODULE NFS_Server ------------------------------
(***************************************************************************)
(* The server process NFS_Server_Impl: one action per RPC handler, over    *)
(* the exported directory tree of the server's kernel.                     *)
(*                                                                         *)
(* Each handler changes or reads the tree in one system call, so each is   *)
(* one step; the two calls of name_to_handle_at in Lookup take effect at   *)
(* the one that decides the answer.  The bytes of a file are abstracted    *)
(* here to the identity of its inode.                                      *)
(***************************************************************************)
EXTENDS NFS_Proto

CONSTANT MaxFaults   \* bound on the faults of a behaviour

ASSUME ServerAssumption == MaxFaults \in Nat

VARIABLES
  entry,   \* the inode each file path resolves to
  dirs,    \* the directories that exist
  born,    \* every inode that was ever allocated
  up,      \* the server process is running
  faults,  \* how many faults have happened
  rpc,     \* the call each client thread has outstanding
  late     \* the requests that reach a handler when their callers are gone

tree       == <<entry, dirs, born>>
serverVars == <<entry, dirs, born, up, faults, rpc, late>>

ServerTypeOK ==
  /\ entry \in [Files -> Inodes \cup {NoInode}]
  /\ dirs \in SUBSET Dirs
  /\ born \in SUBSET Inodes
  /\ up \in BOOLEAN
  /\ faults \in 0..MaxFaults
  /\ rpc \in [Threads -> Rpc]
  /\ late \in SUBSET Late

\* The server starts on a tree in which a file has one name (there is no call
\* that makes a hard link) and sits in a directory.
ServerInit ==
  /\ entry \in [Files -> Inodes \cup {NoInode}]
  /\ \A f, g \in Files : entry[f] = entry[g] /\ entry[f] # NoInode => f = g
  /\ dirs \in SUBSET Dirs
  /\ Root \in dirs
  /\ \A f \in Files : entry[f] # NoInode => Dir(f) \in dirs
  /\ born = {entry[f] : f \in Files} \ {NoInode}
  /\ up = TRUE
  /\ faults = 0
  /\ rpc = [t \in Threads |-> NoRpc]
  /\ late = {}

-----------------------------------------------------------------------------
(* The kernel's tree (stat, name_to_handle_at, open_by_handle_at, rename).  *)

Present(p) == IF p \in Dirs THEN p \in dirs ELSE entry[p] # NoInode
Linked(i)  == \E f \in Files : entry[f] = i
IsEmpty(d) == \A f \in Files : Dir(f) = d => entry[f] = NoInode

HasParent(p) == p \in Files => Dir(p) \in dirs

\* A path below p (or p itself), and where it is once p has been renamed to q.
Under(r, p)      == r = p \/ (r \in Files /\ Dir(r) = p)
Image(r, p, q)   == IF r = p THEN q ELSE <<q, r[2]>>

Renamable(p, q) ==
  /\ Present(p) /\ HasParent(q)
  /\ q \in Dirs => IsEmpty(q)

\* creat(2) of a path that is not there.
MakeFile(p) ==
  /\ entry[p] = NoInode /\ HasParent(p)
  /\ \E i \in Inodes \ born : /\ entry' = [entry EXCEPT ![p] = i]
                              /\ born' = born \cup {i}
  /\ UNCHANGED dirs

RemoveFile(p) ==
  /\ entry[p] # NoInode
  /\ entry' = [entry EXCEPT ![p] = NoInode]
  /\ UNCHANGED <<dirs, born>>

MakeDirectory(p) ==
  /\ p \notin dirs
  /\ dirs' = dirs \cup {p}
  /\ UNCHANGED <<entry, born>>

\* A mutant of RemoveDirectory: a directory is removed with the files in it.
RemoveFullDirectory(p) ==
  /\ p \in dirs
  /\ dirs' = dirs \ {p}
  /\ UNCHANGED <<entry, born>>

RemoveDirectory(p) ==
  /\ p \in dirs /\ IsEmpty(p)
  /\ dirs' = dirs \ {p}
  /\ UNCHANGED <<entry, born>>

Move(p, q) ==
  /\ Renamable(p, q)
  /\ entry' = [f \in Files |-> IF Under(f, q) THEN entry[Image(f, q, p)]
                               ELSE IF Under(f, p) THEN NoInode ELSE entry[f]]
  /\ dirs' = IF p \in Dirs THEN (dirs \ {p}) \cup {q} ELSE dirs
  /\ UNCHANGED born

-----------------------------------------------------------------------------
(* gRPC (external): a blocking unary call.                                 *)

Requested(t, op) == up /\ rpc[t].st = "sent" /\ rpc[t].op = op

\* The body of a reply reaches the client only with an OK status; with any
\* other the client keeps its default-constructed message.
Answer(r, status, fh, data) ==
  [r EXCEPT !.st     = "replied",
            !.status = status,
            !.fh     = IF status = "OK" THEN fh ELSE EmptyHandle,
            !.data   = IF status = "OK" THEN data ELSE 0]

Reply(t, status, fh, data) ==
  rpc' = [rpc EXCEPT ![t] = Answer(rpc[t], status, fh, data)]

-----------------------------------------------------------------------------
(* The handlers.                                                           *)

Lookup(t) ==
  /\ Requested(t, "Lookup")
  /\ IF entry[rpc[t].path] # NoInode
       THEN Reply(t, "OK", entry[rpc[t].path], 0)
       ELSE Reply(t, "CANCELLED", EmptyHandle, 0)
  /\ UNCHANGED <<tree, up, faults, late>>

\* The server process is gone, and with it every call it had received.
Exit ==
  /\ up' = FALSE
  /\ late' = {}
  /\ rpc' = [t \in Threads |->
              IF rpc[t].st = "sent" THEN Answer(rpc[t], "UNAVAILABLE", EmptyHandle, 0)
                                    ELSE rpc[t]]
  /\ UNCHANGED tree

\* open_mount_path_by_id looks for the mount of the handle; mount 0 is never
\* listed, and the process exits.
open_mount_path_by_id(t) == rpc[t].fh = EmptyHandle /\ Exit /\ UNCHANGED faults

\* open_by_handle_at fails with ESTALE once the inode has no name left.
open_by_handle_at(t) ==
  /\ rpc[t].fh # EmptyHandle
  /\ IF Linked(rpc[t].fh)
       THEN Reply(t, "OK", rpc[t].fh, 0)
       ELSE Reply(t, "INVALID_ARGUMENT", EmptyHandle, 0)
  /\ UNCHANGED <<tree, up, faults, late>>

Read(t) ==
  /\ Requested(t, "Read")
  /\ open_mount_path_by_id(t) \/ open_by_handle_at(t)

Write_Async(t) ==
  /\ Requested(t, "Write_Async")
  /\ open_mount_path_by_id(t) \/ open_by_handle_at(t)

\* fsync(2) itself can fail on a file that could be opened: the status is OK
\* and the reply carries -1.
Fsync(t) ==
  /\ Requested(t, "Fsync")
  /\ \/ open_mount_path_by_id(t)
     \/ open_by_handle_at(t)
     \/ /\ rpc[t].fh # EmptyHandle /\ Linked(rpc[t].fh)
        /\ faults < MaxFaults /\ faults' = faults + 1
        /\ Reply(t, "OK", rpc[t].fh, -1)
        /\ UNCHANGED <<tree, up, late>>

\* fdopendir(-1) is NULL and readdir(NULL) is a segmentation fault.
Readdir(t) ==
  /\ Requested(t, "Readdir")
  /\ \/ /\ Present(rpc[t].path)
        /\ Reply(t, "OK", EmptyHandle, 0)
        /\ UNCHANGED <<tree, up, faults, late>>
     \/ ~Present(rpc[t].path) /\ Exit /\ UNCHANGED faults

Getattr(t) ==
  /\ Requested(t, "Getattr")
  /\ Reply(t, IF Present(rpc[t].path) THEN "OK" ELSE "CANCELLED", EmptyHandle, 0)
  /\ UNCHANGED <<tree, up, faults, late>>

\* creat(2) truncates a file that is there and makes one that is not.
CreateFile(t) ==
  LET p == rpc[t].path IN
  /\ Requested(t, "CreateFile")
  /\ \/ MakeFile(p) /\ Reply(t, "OK", EmptyHandle, 0)
     \/ /\ entry[p] # NoInode
        /\ Reply(t, "OK", EmptyHandle, 0) /\ UNCHANGED tree
     \/ /\ entry[p] = NoInode /\ ~HasParent(p)
        /\ Reply(t, "CANCELLED", EmptyHandle, -1) /\ UNCHANGED tree
  /\ UNCHANGED <<up, faults, late>>

DeleteFile(t) ==
  LET p == rpc[t].path IN
  /\ Requested(t, "DeleteFile")
  /\ \/ RemoveFile(p) /\ Reply(t, "OK", EmptyHandle, 0)
     \/ /\ entry[p] = NoInode
        /\ Reply(t, "CANCELLED", EmptyHandle, -1) /\ UNCHANGED tree
  /\ UNCHANGED <<up, faults, late>>

CreateDirectory(t) ==
  LET p == rpc[t].path IN
  /\ Requested(t, "CreateDirectory")
  /\ \/ MakeDirectory(p) /\ Reply(t, "OK", EmptyHandle, 0)
     \/ /\ p \in dirs
        /\ Reply(t, "CANCELLED", EmptyHandle, -1) /\ UNCHANGED tree
  /\ UNCHANGED <<up, faults, late>>

DeleteDirectory(t) ==
  LET p == rpc[t].path IN
  /\ Requested(t, "DeleteDirectory")
  /\ \/ RemoveDirectory(p) /\ Reply(t, "OK", EmptyHandle, 0)
     \/ /\ ~(p \in dirs /\ IsEmpty(p))
        /\ Reply(t, "CANCELLED", EmptyHandle, -1) /\ UNCHANGED tree
  /\ UNCHANGED <<up, faults, late>>

\* rename(2): the flags of the request are never looked at.
RenameFile(t) ==
  LET p == rpc[t].path
      q == rpc[t].to
  IN
  /\ Requested(t, "RenameFile")
  /\ \/ Move(p, q) /\ Reply(t, "OK", EmptyHandle, 0)
     \/ /\ ~Renamable(p, q)
        /\ Reply(t, "CANCELLED", EmptyHandle, -1) /\ UNCHANGED tree
  /\ UNCHANGED <<up, faults, late>>

\* The handler of t's request, whichever it is.
Serve(t) ==
  \/ Lookup(t) \/ Read(t) \/ Write_Async(t) \/ Fsync(t)
  \/ Readdir(t) \/ Getattr(t)
  \/ CreateFile(t) \/ DeleteFile(t)
  \/ CreateDirectory(t) \/ DeleteDirectory(t) \/ RenameFile(t)

-----------------------------------------------------------------------------
(* Failures.                                                               *)

\* The system call of a handler fails for a reason of its own (EIO, EACCES,
\* ENOSPC): no effect, and CANCELLED.  (In Readdir that is a crash, and so is an
\* fopen of the mount table that fails: both are a ServerCrash.)
Refuse(t) ==
  /\ up /\ rpc[t].st = "sent" /\ rpc[t].op # "Readdir"
  /\ faults < MaxFaults /\ faults' = faults + 1
  /\ Reply(t, "CANCELLED", EmptyHandle, -1)
  /\ UNCHANGED <<tree, up, late>>

\* The requests of the threads T that the server serves after their callers are
\* gone: a handler does not look at its ServerContext and runs to its end.  A
\* Lookup, a Getattr and a call on a handle of a file leave nothing behind here.
\* Bound: requests of one thread for the same operation on the same paths are
\* one.
LeavesTrace(r) == \/ r.op \in MutationRpcs \cup {"Readdir"}
                  \/ r.op \in HandleRpcs /\ r.fh = EmptyHandle

LeftBehind(T) ==
  {[thread |-> t, op |-> rpc[t].op, path |-> rpc[t].path, to |-> rpc[t].to] :
     t \in {u \in T : up /\ rpc[u].st = "sent" /\ LeavesTrace(rpc[u])}}

\* The connection breaks, before the handler is done or after it.
LoseRpc(t) ==
  /\ (up /\ rpc[t].st = "sent") \/ (rpc[t].st = "replied" /\ rpc[t].status # "UNAVAILABLE")
  /\ faults < MaxFaults /\ faults' = faults + 1
  /\ Reply(t, "UNAVAILABLE", EmptyHandle, 0)
  /\ late' = late \cup LeftBehind({t})
  /\ UNCHANGED <<tree, up>>

LateEffect(x) ==
  \/ x.op = "CreateFile" /\ MakeFile(x.path)
  \/ x.op = "DeleteFile" /\ RemoveFile(x.path)
  \/ x.op = "CreateDirectory" /\ MakeDirectory(x.path)
  \/ x.op = "DeleteDirectory" /\ RemoveDirectory(x.path)
  \/ x.op = "RenameFile" /\ Move(x.path, x.to)

\* The handler of a request whose caller is gone: as Serve, with a reply that
\* reaches nobody; or its call failed, or it never came that far.
ServeLate(x) ==
  \/ /\ late' = late \ {x}
     /\ LateEffect(x) \/ UNCHANGED tree
     /\ UNCHANGED <<up, faults, rpc>>
  \/ /\ x.op \in HandleRpcs \/ (x.op = "Readdir" /\ ~Present(x.path))
     /\ Exit /\ UNCHANGED faults

\* A call to a server that is not there fails at once (gRPC does not wait).
RpcUnavailable(t) ==
  /\ ~up /\ rpc[t].st = "sent"
  /\ Reply(t, "UNAVAILABLE", EmptyHandle, 0)
  /\ UNCHANGED <<tree, up, faults, late>>

ServerCrash ==
  /\ up /\ faults < MaxFaults
  /\ Exit /\ faults' = faults + 1

\* A ping is answered with OK if it carries the right number.
Ping(data) == up /\ data = 12245725   \* 0xbadadd

\* RunServer again, on the same tree: handles outlive the process.
RunServer ==
  /\ ~up
  /\ up' = TRUE
  /\ UNCHANGED <<tree, faults, rpc, late>>
=============================================================================
