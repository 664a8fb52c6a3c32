CONSTANTS
  NVfd = 2
  NProcs = 2
  MaxRaced = 0
  Size <- SmallTables
SPECIFICATION FairSpec
INVARIANTS
  DescriptorsDistinct
  NoOrphans
  ReleasedOwnNothing
PROPERTIES
  ExitedAreReleased
