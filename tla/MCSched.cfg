\* Three processes, ticks anywhere.
CONSTANTS
  NProcs = 3
SPECIFICATION FairSpec
INVARIANTS
  StacksHeld
  CpuIsCurrent
PROPERTIES
  ReadyRuns
