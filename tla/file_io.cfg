\* A client with synchronous and one with asynchronous writes, and a fault.
SPECIFICATION Spec
CONSTANTS
  Clients = {c1, c2}
  SyncClients = {c1}
  Workload <- WriterReader
  Handlers = {h1, h2}
  Inodes = {i1, i2}
  EmptyHandle = EmptyHandle
  NoEntry = NoEntry
  Writes = {x1, x2}
  NoWrite = NoWrite
  NotCached = NotCached
  Offsets = {0, 1}
  Int32Blocks = 1
  MaxFd = 4
  MaxFaults = 1
  MountOptions = {}
  InitFlags <- KernelFlags
SYMMETRY DataSymmetry
INVARIANTS
  TypeOK
  HandlersKeepTheirDescriptors
  DescriptorsReturned
  SyncWritesDurable
  WriteAtMostOnce
  CloseToOpen
  FileInv
CHECK_DEADLOCK FALSE
