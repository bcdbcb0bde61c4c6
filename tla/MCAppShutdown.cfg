SPECIFICATION FairSpec
CONSTANTS
  Steps <- AppSteps
  Closers = {}
  Callers <- WithAnother
  Requests = {r1, r2}
  Streams = {r2}
  Jobs = {j1, j2}
INVARIANTS
  ReverseOrder
  StoreOutlivesUsers
  ContextOutlivesDrain
PROPERTIES
  StreamsDoNotHoldTheDrain
  SweepCompletes
  RunReturns
CHECK_DEADLOCK FALSE
