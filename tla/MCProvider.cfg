SPECIFICATION Spec
CONSTANTS
  Signals = {"SIGINT"}
  MaxSignals = 1
  MaxVersions = 2
  Segments = 2
  Stages = 2
  MaxSegments = 2
  MaxMarkers = 2
  Procs = {p1, p2}
  MaxKills = 1
  MaxCorner = 2
  MaxFaults = 1
  MaxPostchecks = 2
  MaxChanges = 1
  MaxWrites = 2
  MaxInterrupts = 3
  None = None
INVARIANTS CommandsLeaveNothing RunsAreRecorded VerdictsAreEarned  SegmentsAreOneClosure JournalsTellTheRun ExitsAreEarned LaunchedAsJudged LayoutsAreJudged AnalysesAreWhole ReadyIsThePin ArchivesAreThePinned
PROPERTIES GenerationsAreKept TimedCommandsEnd
\* Every part ends, and nothing follows.
CHECK_DEADLOCK FALSE
