SPECIFICATION Spec
CONSTANTS
  Metadata = {segment, state}
  Views = {view}
  Report = segment
  State = state
  MaxTouches = 1
  None = None
INVARIANTS IInv PublishedIsTheCandidate OrdinaryFailuresCleanUp
\* The call returns, or its process is killed, and nothing follows.
CHECK_DEADLOCK FALSE
