------------------------------ MODULE NFS_Proto ------------------------------
(***************************************************************************)
(* The vocabulary shared by the two sides of the file system: the paths a  *)
(* client can name, the handles a server hands out, and the RPC a FUSE     *)
(* worker thread of a client has outstanding (NFS.proto).                  *)
(*                                                                         *)
(* Paths are two levels deep: a directory below the exported root, and a   *)
(* file in a directory (the root itself is a directory).  A handle is      *)
(* abstracted to the inode (with its generation) that it names; the        *)
(* default-constructed FileHandle message, whose mount_id is 0, is         *)
(* EmptyHandle.                                                            *)
(***************************************************************************)
EXTENDS Integers, FiniteSets

CONSTANTS
  Clients,      \* the mounted clients, each a process with its own handle map
  Workers,      \* the FUSE worker threads of a client; one of them under -s
  Dirs,         \* the names a directory can have
  Root,         \* the exported directory itself
  Names,        \* the names a file can have in its directory
  Inodes,       \* inode numbers, each with its generation: never used again
  NoInode,      \* what a path that does not exist resolves to
  EmptyHandle,  \* a FileHandle message that no server ever filled in
  NoEntry,      \* file_handle_map_ has no such key
  RenameFlags,  \* the flags of rename(2) an application passes
  RETRY_TIMEOUT \* how many pings Reconnect_To_Server sends at most

Files   == Dirs \X Names
Paths   == Files \cup Dirs
Threads == Clients \X Workers
Handles == Inodes \cup {EmptyHandle}

Dir(f)      == f[1]
ClientOf(t) == t[1]

\* The FUSE callbacks of ClientFS that act on a path, and those that act on the
\* handle cached for a path.
PathOps   == {"getattr", "readdir", "open", "create", "unlink", "mkdir",
              "rmdir", "rename"}
HandleOps == {"read", "write", "fsync", "flush", "release"}

\* The calls that NFS_Client has stubs for, without Ping (a step of
\* Reconnect_To_Server) and without the synchronous Write (see NFS_File_IO).
RpcOps == {"Lookup", "Read", "Write_Async", "Fsync", "Readdir", "Getattr",
           "CreateFile", "DeleteFile", "CreateDirectory", "DeleteDirectory",
           "RenameFile"}

\* Those that change the tree, and those that send a handle.
MutationRpcs == {"CreateFile", "DeleteFile", "CreateDirectory",
                 "DeleteDirectory", "RenameFile"}
HandleRpcs   == {"Read", "Write_Async", "Fsync"}

Statuses == {"OK", "CANCELLED", "INVALID_ARGUMENT", "UNAVAILABLE"}

\* The blocking unary call of one thread: request fields, then the status and
\* the reply fields.  fh is the handle of the request, or the reply of Lookup;
\* data is the int32 of an Integer reply.
Rpc == [st     : {"none", "sent", "replied"},
        op     : RpcOps,
        path   : Paths,
        to     : Paths,
        flags  : {"none", "noreplace", "exchange"},
        fh     : Handles,
        status : Statuses,
        data   : {-1, 0}]

NoRpc == [st |-> "none", op |-> "Lookup", path |-> Root, to |-> Root,
          flags |-> "none", fh |-> EmptyHandle, status |-> "OK", data |-> 0]

\* A request whose caller is gone.
Late == [thread : Threads, op : RpcOps, path : Paths, to : Paths]

ASSUME ProtoAssumption ==
  /\ Root \in Dirs
  /\ Files \cap Dirs = {}
  /\ NoInode \notin Inodes
  /\ EmptyHandle \notin Inodes
  /\ NoEntry \notin Handles \cup {NoInode}
  /\ RenameFlags \subseteq {"none", "noreplace", "exchange"}
  /\ RETRY_TIMEOUT \in Nat
=============================================================================
