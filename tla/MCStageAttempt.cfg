SPECIFICATION AttemptSpec
CONSTANTS
  Plan <- ThreeStages
  Named = TRUE
  MaxErrors = 3
  None = None
INVARIANTS StreamTellsTheTruth BothRecordsBackSuccess StepsAreTrue DurableRecord
CHECK_DEADLOCK FALSE
