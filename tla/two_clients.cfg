\* Two clients that change the same file, and a fault.
SPECIFICATION Spec
CONSTANTS
  Clients = {c1, c2}
  Mutator = c2
  Workers = {w1}
  Dirs = {root}
  Root = root
  Names = {a}
  Inodes = {i1, i2}
  NoInode = NoInode
  EmptyHandle = EmptyHandle
  NoEntry = NoEntry
  RenameFlags = {"none"}
  RETRY_TIMEOUT = 1
  MaxFaults = 1
  Workload <- FileWorkload
SYMMETRY FullSymmetry
INVARIANTS
  HInv
  OpenFileHasHandle
PROPERTIES
  MutationsAtMostOnce
