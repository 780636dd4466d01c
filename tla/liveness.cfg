\* Callbacks return, though the server may stay away.  A client that aborts stays
\* away too once there was a fault.
SPECIFICATION FairSpec
CONSTANTS
  Clients = {c1}
  Mutator = c1
  Workers = {w1, w2}
  Dirs = {root}
  Root = root
  Names = {a}
  Inodes = {i1, i2}
  NoInode = NoInode
  EmptyHandle = EmptyHandle
  NoEntry = NoEntry
  RenameFlags = {"none"}
  RETRY_TIMEOUT = 1
  MaxFaults = 1
  Workload <- LiveWorkload
PROPERTIES
  EveryCallbackReturns
CHECK_DEADLOCK FALSE
