SPECIFICATION Spec
CONSTANTS
  Signals = {"SIGINT", "SIGTERM"}
  MaxSignals = 2
  MaxVersions = 2
  Publishers = {p1, p2}
  Evidence = {"record", "report"}
  Entries = {"notes"}
  MaxChanges = 1
  N = 3
  Marks = {m1, m2}
  Scopes <- NestedScopes
  Names = {"ram"}
  Requests = {"256x16", "8x8"}
  Exact = "256x16"
  Policies <- OverlappingRules
  Technologies <- WithOrWithoutStock
  Width = 1
  Depths = {2, 3}
  None = None
INVARIANTS RecordsAreHonest ArchivesAreWhole ProgressIsEarned ElaborationsAreEarned
PROPERTIES NothingIsTakenBack MemoriesKeepTheContract
\* Every operation ends, and nothing follows.
CHECK_DEADLOCK FALSE
