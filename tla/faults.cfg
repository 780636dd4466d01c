\* One client, two faults of any kind.
SPECIFICATION Spec
CONSTANTS
  Clients = {c1}
  Mutator = c1
  Workers = {w1}
  Dirs = {root}
  Root = root
  Names = {a, b}
  Inodes = {i1, i2, i3}
  NoInode = NoInode
  EmptyHandle = EmptyHandle
  NoEntry = NoEntry
  RenameFlags = {"none", "noreplace"}
  RETRY_TIMEOUT = 1
  MaxFaults = 2
  Workload <- FullWorkload
SYMMETRY FileSymmetry
INVARIANTS
  TypeOK
  HInv
  OpenFileHasHandle
PROPERTIES
  MutationsAtMostOnce
