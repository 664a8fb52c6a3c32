SPECIFICATION Spec
CONSTANTS
  Total = 17
  TopOrder = 4
  Procs = {0, 1}
  Slots = {0}
  Tables = 1
  MaxCalls = 7
  BrkOrder = 1
  MmapOrders = {0}
  UsableSets <- const_UsableSets
CONSTRAINT StopWhenWild
INVARIANTS FreeListsSound RefsExact WritableIsPrivate
PROPERTIES ProcessesApart
CHECK_DEADLOCK FALSE
