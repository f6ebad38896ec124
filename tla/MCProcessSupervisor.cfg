SPECIFICATION Spec
CONSTANTS
  Leader = leader
  Members = {child}
  HasTimeout = TRUE
  MaxCalls = 2
  None = None
INVARIANTS IInv
PROPERTIES OnlySignalOwnGroup SuccessIsGenuine CallsReturn ImplementsPromise
CHECK_DEADLOCK FALSE
