\* A getattr that is refused or disconnected.
SPECIFICATION Spec
CONSTANTS
  Clients = {c1}
  Mutator = c1
  Workers = {w1}
  Dirs = {root}
  Root = root
  Names = {a}
  Inodes = {i1}
  NoInode = NoInode
  EmptyHandle = EmptyHandle
  NoEntry = NoEntry
  RenameFlags = {"none"}
  RETRY_TIMEOUT = 1
  MaxFaults = 1
  Workload <- FileWorkload
INVARIANTS
  EnoentIsReal
