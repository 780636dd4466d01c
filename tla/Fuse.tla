-------------------------------- MODULE Fuse ---------------------------------
(***************************************************************************)
(* The layer between the kernel and ClientFS: the table of callbacks that  *)
(* the C++ wrapper Fusepp fills in (Fuse.h, Fuse.cc), the connection and   *)
(* the open file as they are when the file system has no init callback and *)
(* its open leaves fi alone, and the callbacks libfuse makes for a system  *)
(* call.  Everything here is fixed when the file system is mounted.        *)
(***************************************************************************)
EXTENDS Sequences

CONSTANTS
  MountOptions,  \* the -o options of the command line
  InitFlags      \* the flags of the INIT request of the client's kernel

-----------------------------------------------------------------------------
(* The members of struct fuse_operations, in the order of the header.      *)

NameSlots == {"getattr", "readlink", "mknod", "mkdir", "unlink", "rmdir",
              "symlink", "rename", "link", "chmod", "chown", "truncate"}

FileSlots == {"open", "read", "write", "statfs", "flush", "release", "fsync"}

DirSlots == {"setxattr", "getxattr", "listxattr", "removexattr",
             "opendir", "readdir", "releasedir", "fsyncdir"}

MountSlots == {"init", "destroy", "access"}

LaterSlots == {"create", "lock", "utimens", "bmap", "ioctl", "poll",
               "write_buf", "read_buf", "flock", "fallocate"}

fuse_operations == NameSlots \cup FileSlots \cup DirSlots \cup MountSlots \cup LaterSlots

-----------------------------------------------------------------------------
(* The table of Fusepp::Fuse<ClientFS>.                                    *)

\* What class ClientFS declares.
ClientFS == {"getattr", "readdir", "open", "read", "write", "create", "unlink",
             "mkdir", "rmdir", "rename", "fsync", "release", "flush"}

\* The static members of the template, which ClientFS inherits.
Defaults == [s \in fuse_operations |-> "nullptr"]

\* T::getattr is the member of ClientFS if it declares one, else the inherited.
load_operations_ ==
  [s \in fuse_operations |-> IF s \in ClientFS THEN s ELSE Defaults[s]]

Implemented == {s \in fuse_operations : load_operations_[s] # "nullptr"}

-----------------------------------------------------------------------------
(* The connection (struct fuse_conn_info) and its capabilities.  What a    *)
(* capability is enabled by: "always", "never", or the callback it needs.  *)

LowCaps ==
  [ASYNC_READ |-> "always",  POSIX_LOCKS |-> "lock",   ATOMIC_O_TRUNC |-> "always",
   EXPORT_SUPPORT |-> "never", DONT_MASK |-> "never",  SPLICE_WRITE |-> "never",
   SPLICE_MOVE |-> "never",  SPLICE_READ |-> "write_buf", FLOCK_LOCKS |-> "flock",
   IOCTL_DIR |-> "always",   AUTO_INVAL_DATA |-> "always"]

HighCaps ==
  [READDIRPLUS |-> "readdir", READDIRPLUS_AUTO |-> "readdir", ASYNC_DIO |-> "always",
   WRITEBACK_CACHE |-> "never", NO_OPEN_SUPPORT |-> "never",
   PARALLEL_DIROPS |-> "always", POSIX_ACL |-> "never", HANDLE_KILLPRIV |-> "always"]

Enabled(need) == need = "always" \/ need \in Implemented

\* The flags of INIT, and the capabilities they stand for; FILE_OPS and
\* BIG_WRITES stand for none.
init_flags ==
  {"ASYNC_READ", "POSIX_LOCKS", "FILE_OPS", "ATOMIC_O_TRUNC", "EXPORT_SUPPORT",
   "BIG_WRITES", "DONT_MASK", "SPLICE_WRITE", "SPLICE_MOVE", "SPLICE_READ", "FLOCK_LOCKS",
   "HAS_IOCTL_DIR", "AUTO_INVAL_DATA", "DO_READDIRPLUS", "READDIRPLUS_AUTO", "ASYNC_DIO",
   "WRITEBACK_CACHE", "NO_OPEN_SUPPORT", "PARALLEL_DIROPS", "HANDLE_KILLPRIV", "POSIX_ACL"}

ASSUME FuseAssumption == InitFlags \subseteq init_flags

Capable == {CASE f = "HAS_IOCTL_DIR"  -> "IOCTL_DIR"
              [] f = "DO_READDIRPLUS" -> "READDIRPLUS"
              [] OTHER -> f : f \in InitFlags}

\* init, which could ask for more or for less, is a null pointer.
fuse_conn_info ==
  [capable |-> Capable,
   want    |-> {c \in Capable \cap DOMAIN LowCaps : Enabled(LowCaps[c])} \cup
               {c \in Capable \cap DOMAIN HighCaps : Enabled(HighCaps[c])}]

Wants(cap) == cap \in fuse_conn_info.want

-----------------------------------------------------------------------------
(* The open file.                                                          *)

\* The options that decide about the kernel's pages of a file.
fuse_config ==
  [direct_io    |-> "direct_io" \in MountOptions,
   kernel_cache |-> "kernel_cache" \in MountOptions,
   auto_cache   |-> "auto_cache" \in MountOptions]

\* A mutant: open asks to keep the pages the kernel has of the file.
KeptFileInfo == [direct_io |-> FALSE, keep_cache |-> TRUE]

\* What the kernel gets back from open: the callback fills in nothing, and the
\* mount options overwrite the two fields about caching.  auto_cache keeps the
\* pages unless size or modification time tell that the file has changed, which
\* they need not; here it keeps them.
fuse_file_info == [direct_io  |-> fuse_config.direct_io,
                   keep_cache |-> fuse_config.kernel_cache \/ fuse_config.auto_cache]

\* No option keeps the pages of an earlier open.
PagesDropped == ~fuse_config.kernel_cache /\ ~fuse_config.auto_cache

\* The same in the reply to OPEN, as the kernel reads it.
open_flags == (IF fuse_file_info.direct_io THEN {"FOPEN_DIRECT_IO"} ELSE {}) \cup
              (IF fuse_file_info.keep_cache THEN {"FOPEN_KEEP_CACHE"} ELSE {})

-----------------------------------------------------------------------------
(* From system calls to callbacks.                                         *)

Either(s, instead) == IF s \in Implemented THEN s ELSE instead

\* Without the write-back cache the kernel passes a write on before it returns;
\* with it, the data would come with a later call.
WriteThrough == ~Wants("WRITEBACK_CACHE")

\* The callback for a request on an open file.
fuse_opcode ==
  [FUSE_OPEN    |-> "open",
   FUSE_READ    |-> Either("read_buf", "read"),
   FUSE_WRITE   |-> Either("write_buf", "write"),
   FUSE_RELEASE |-> "release",
   FUSE_FSYNC   |-> "fsync",
   FUSE_FLUSH   |-> "flush"]

\* A callback that is a null pointer is not made; for those that a file system
\* can do without, the call goes on as if it had succeeded.
Callback(request) ==
  LET s == fuse_opcode[request] IN IF s \in Implemented THEN <<s>> ELSE <<>>

\* O_TRUNC is one of the flags of open, which ClientFS does not look at; close(2)
\* is that of the last descriptor.
Callbacks(call) ==
  CASE call = "open"  -> Callback("FUSE_OPEN")
    [] call = "read"  -> Callback("FUSE_READ")
    [] call = "write" -> IF WriteThrough THEN Callback("FUSE_WRITE") ELSE <<>>
    [] call = "fsync" -> Callback("FUSE_FSYNC")
    [] call = "close" -> Callback("FUSE_FLUSH") \o Callback("FUSE_RELEASE")
=============================================================================
