SPECIFICATION Spec
CONSTANTS
  Builds = {1, 2, 3}
  MaxBoots = 4
  Job = job
  Manual = {m1}
  Retention = 2
  LastDay = 3
  Endpoints = {e1, e2, e3}
  Concurrencies = {0, 1}
  DefaultConcurrency = 2
  AtStart = TRUE
INVARIANTS
  ServesItsSchema
  SendAccounts
PROPERTIES
  PruneSparesNewest
  DayCovered
  TicksGoOn
  JobEnds
CHECK_DEADLOCK FALSE
