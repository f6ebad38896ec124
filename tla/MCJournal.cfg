SPECIFICATION Spec
CONSTANTS
  Readers = {r1}
  MaxRecords = 3
  Cursors = {0, 1, 2, 4}
  None = None
INVARIANTS ChainIsWhole NoLostTail
PROPERTIES WatchesEnd ImplementsLog
CHECK_DEADLOCK FALSE
