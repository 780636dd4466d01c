\* One client, two FUSE workers, no fault.  A client that
\* aborts stays away, so the system can stop.
SPECIFICATION Spec
CONSTANTS
  Clients = {c1}
  Mutator = c1
  Workers = {w1, w2}
  Dirs = {root}
  Root = root
  Names = {a, b}
  Inodes = {i1, i2, i3}
  NoInode = NoInode
  EmptyHandle = EmptyHandle
  NoEntry = NoEntry
  RenameFlags = {"none"}
  RETRY_TIMEOUT = 1
  MaxFaults = 0
  Workload <- FullWorkload
SYMMETRY FileSymmetry
INVARIANTS
  CacheCoherent
  ServerSurvives
  SuccessIsReal
  CInv
PROPERTIES
  CachedOpenIsCurrent
CHECK_DEADLOCK FALSE
