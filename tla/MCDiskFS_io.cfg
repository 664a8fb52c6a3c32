\* Disk errors at any access while files are created and written.
CONSTANTS
  NBlocks = 6
  NInodes = 5
  NDirect = 3
  PerBlock = 2
  MaxEntries = 3
  NFds = 2
  FilePaths <- TwoPaths
  DirPaths <- NoPaths
  Flags <- AppendOnly
  Values = {v1}
  MaxWrite = 2
  MaxOffset = 2
  Faults = {"io"}
  Calls = {"open", "close", "write"}
  Shared = FALSE
  DotWord = 5
SPECIFICATION Spec
CHECK_DEADLOCK FALSE
INVARIANTS
  BlocksDistinct
  NothingLeaked
