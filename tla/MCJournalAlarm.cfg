SPECIFICATION Spec
CONSTANTS
  Readers = {r1}
  MaxRecords = 2
  Cursors = {0, 1, 3}
  None = None
INVARIANT HonestRecordsNeverFail
CHECK_DEADLOCK FALSE
