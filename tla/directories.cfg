\* One client that makes, renames and removes directories, and a fault.
SPECIFICATION Spec
CONSTANTS
  Clients = {c1}
  Mutator = c1
  Workers = {w1}
  Dirs = {root, d, e}
  Root = root
  Names = {a}
  Inodes = {i1}
  NoInode = NoInode
  EmptyHandle = EmptyHandle
  NoEntry = NoEntry
  RenameFlags = {"none"}
  RETRY_TIMEOUT = 1
  MaxFaults = 1
  Workload <- NameWorkload
SYMMETRY TreeSymmetry
PROPERTIES
  MutationsAtMostOnce
