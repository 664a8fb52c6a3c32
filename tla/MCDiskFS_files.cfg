\* Plain files on a disk that fills up, with power failures at any step.
CONSTANTS
  NBlocks = 6
  NInodes = 5
  NDirect = 3
  PerBlock = 2
  MaxEntries = 3
  NFds = 2
  FilePaths <- TwoPaths
  DirPaths <- NoPaths
  Flags <- TruncOrAppend
  Values = {v1, v2}
  MaxWrite = 2
  MaxOffset = 2
  Faults = {"power"}
  Calls = {"open", "close", "read", "write", "unlink"}
  Shared = FALSE
  DotWord = 5
SPECIFICATION Spec
SYMMETRY ValueSymmetry
CHECK_DEADLOCK FALSE
INVARIANTS
  BlocksDistinct
  NothingLeaked
  RecordsValid
  CountersExact
PROPERTIES
  Isolation
