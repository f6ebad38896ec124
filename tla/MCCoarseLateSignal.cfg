SPECIFICATION CoarseSpec
CONSTANTS
  Plan <- FullPlan
  Named = FALSE
  MaxErrors = 6
  None = None
  Signals = {"SIGINT", "SIGTERM"}
  MaxSignals = 2
INVARIANTS SignalsProduceTheirCodes
CHECK_DEADLOCK FALSE
