\* fsync after an asynchronous write.
SPECIFICATION Spec
CONSTANTS
  Clients = {c1}
  SyncClients = {}
  Workload <- WriteThenSync
  Handlers = {h1, h2}
  Inodes = {i1, i2}
  EmptyHandle = EmptyHandle
  NoEntry = NoEntry
  Writes = {x1}
  NoWrite = NoWrite
  NotCached = NotCached
  Offsets = {0}
  Int32Blocks = 1
  MaxFd = 4
  MaxFaults = 0
  MountOptions = {}
  InitFlags <- KernelFlags
SYMMETRY DataSymmetry
INVARIANTS
  FsyncCovers
CHECK_DEADLOCK FALSE
