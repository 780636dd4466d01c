\* rmdir of a directory with a file in it.
SPECIFICATION Spec
CONSTANTS
  Clients = {c1}
  Mutator = c1
  Workers = {w1}
  Dirs = {root, d}
  Root = root
  Names = {a}
  Inodes = {i1}
  NoInode = NoInode
  EmptyHandle = EmptyHandle
  NoEntry = NoEntry
  RenameFlags = {"none"}
  RETRY_TIMEOUT = 1
  MaxFaults = 0
  Workload <- TreeWorkload
INVARIANTS
  SuccessIsReal
