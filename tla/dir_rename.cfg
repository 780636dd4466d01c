\* A directory is renamed over files whose handles are cached.
SPECIFICATION Spec
CONSTANTS
  Clients = {c1}
  Mutator = c1
  Workers = {w1}
  Dirs = {root, d, e}
  Root = root
  Names = {a}
  Inodes = {i1, i2}
  NoInode = NoInode
  EmptyHandle = EmptyHandle
  NoEntry = NoEntry
  RenameFlags = {"none"}
  RETRY_TIMEOUT = 1
  MaxFaults = 0
  Workload <- FullWorkload
PROPERTIES
  CachedOpenIsCurrent
