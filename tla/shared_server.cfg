\* A file that one client reads and another removes.
SPECIFICATION Spec
CONSTANTS
  Clients = {c1, c2}
  Mutator = c2
  Workers = {w1}
  Dirs = {root}
  Root = root
  Names = {a}
  Inodes = {i1}
  NoInode = NoInode
  EmptyHandle = EmptyHandle
  NoEntry = NoEntry
  RenameFlags = {"none"}
  RETRY_TIMEOUT = 1
  MaxFaults = 0
  Workload <- SharedWorkload
INVARIANTS
  ServerSurvives
