SPECIFICATION BackupSpec
CONSTANTS
  Job = job
  Manual = {}
  Retention = 1
  LastDay = 2
INVARIANT RestartTopsUp
CHECK_DEADLOCK FALSE
