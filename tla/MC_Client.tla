------------------------------ MODULE MC_Client ------------------------------
(***************************************************************************)
(* Small instances of NFS_Client_FS for TLC: the workloads of the clients  *)
(* and the symmetries of the model values.                                 *)
(***************************************************************************)
EXTENDS NFS_Client_FS_inv, TLC

CONSTANT Mutator   \* the client that changes the tree, where the roles differ

FileOps == {"getattr", "open", "create", "unlink", "rename", "read", "release"}
AllOps  == PathOps \cup HandleOps

FileWorkload == [c \in Clients |-> FileOps]
FullWorkload == [c \in Clients |-> AllOps]
LiveWorkload == [c \in Clients |-> FileOps \cup {"write"}]
NameWorkload == [c \in Clients |-> (PathOps \ {"open"}) \cup {"release"}]
TreeWorkload == [c \in Clients |-> PathOps \ {"rename"}]

\* One client changes the tree under the others, which do I/O on their files.
Roles(mutations, uses) ==
  [c \in Clients |-> IF c = Mutator THEN mutations ELSE uses]

SharedWorkload == Roles({"create", "unlink"}, {"getattr", "open", "read", "release"})

FileSymmetry == Permutations(Names) \cup Permutations(Inodes)
TreeSymmetry == FileSymmetry \cup Permutations(Dirs \ {Root})
FullSymmetry == FileSymmetry \cup Permutations(Clients)
=============================================================================
