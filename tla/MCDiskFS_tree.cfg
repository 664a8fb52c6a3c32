\* Directories: made, filled, deleted with what is in them.
CONSTANTS
  NBlocks = 7
  NInodes = 6
  NDirect = 3
  PerBlock = 2
  MaxEntries = 3
  NFds = 1
  FilePaths <- OnePath
  DirPaths <- TreeDirs
  Flags <- CreateOnly
  Values = {v1}
  MaxWrite = 2
  MaxOffset = 2
  Faults = {}
  Calls = {"open", "close", "mkdir", "unlink"}
  Shared = FALSE
  DotWord = 5
SPECIFICATION Spec
CHECK_DEADLOCK FALSE
INVARIANTS
  BlocksDistinct
  RecordsValid
