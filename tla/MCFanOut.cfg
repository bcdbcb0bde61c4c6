SPECIFICATION Spec
CONSTANTS
  Tasks = {t1, t2, t3}
  Waiters = {q1}
  Limits = {0, 1}
  Topics = {a1, a2}
  Publishers = {p1, p2}
  Subscribers = {s1, s2}
  Buffer = 1
  MaxEvents = 2
  Backends <- Multi
  Severities = {"success", "warning", "failure", "typo"}
INVARIANTS
  DrainIsFinal
  QueuedCancelNeverRuns
  NoSendOnClosed
  EveryBackendAnswered
PROPERTIES
  DrainEnds
  PublishEndsAlways
CHECK_DEADLOCK FALSE
