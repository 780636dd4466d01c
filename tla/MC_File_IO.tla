----------------------------- MODULE MC_File_IO ------------------------------
(***************************************************************************)
(* Small instances of NFS_File_IO for TLC: what the kernel offers and the  *)
(* symmetries of the model values.                                         *)
(***************************************************************************)
EXTENDS NFS_File_IO_inv, TLC

\* A kernel that offers all the headers know of.
KernelFlags == init_flags

at(sys, off) == [sys |-> sys, off |-> off]

open0  == at("open", 0)
close0 == at("close", 0)

\* One client writes what the other reads, or overwrites, or tries to read before
\* it opens the file; block 1 is beyond what a positive int32 addresses.
WriterReader == [c \in Clients |->
  IF c \in SyncClients
    THEN {<<open0, at("write", 0)>>, <<open0, at("write", 1)>>}
    ELSE {<<open0, at("read", 0), close0, open0, at("read", 0)>>,
          <<open0, at("write", 0)>>, <<open0, at("read", 1)>>,
          <<at("read", 0)>>}]

\* A client that writes and syncs.
WriteThenSync == [c \in Clients |-> {<<open0, at("write", 0), at("fsync", 0)>>}]

DataSymmetry == Permutations(Writes) \cup Permutations(Inodes) \cup Permutations(Handlers)
=============================================================================
