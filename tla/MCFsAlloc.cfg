CONSTANTS
  NBlocks = 3
  NInodes = 4
SPECIFICATION Spec
INVARIANTS
  CountersExact
  CleanIsOnDisk
