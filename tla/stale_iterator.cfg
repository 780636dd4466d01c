\* Two workers that find the same handle stale.
SPECIFICATION Spec
CONSTANTS
  Clients = {c1}
  Mutator = c1
  Workers = {w1, w2}
  Dirs = {root}
  Root = root
  Names = {a, b}
  Inodes = {i1, i2}
  NoInode = NoInode
  EmptyHandle = EmptyHandle
  NoEntry = NoEntry
  RenameFlags = {"none"}
  RETRY_TIMEOUT = 1
  MaxFaults = 0
  Workload <- FullWorkload
INVARIANTS
  StaleIteratorIsValid
