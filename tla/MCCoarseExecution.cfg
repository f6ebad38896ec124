SPECIFICATION CoarseSpec
CONSTANTS
  Plan <- FullPlan
  Named = FALSE
  MaxErrors = 6
  None = None
  Signals = {"SIGINT", "SIGTERM"}
  MaxSignals = 2
INVARIANTS OutcomesAreHonest WorkFollowsTheRules
CHECK_DEADLOCK FALSE
