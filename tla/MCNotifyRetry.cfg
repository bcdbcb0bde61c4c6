SPECIFICATION Spec
CONSTANTS
  Tasks = {t1}
  Waiters = {q1}
  Limits = {0}
  Topics = {a1}
  Publishers = {p1}
  Subscribers = {s1}
  Buffer = 1
  MaxEvents = 1
  Backends <- Multi
  Severities = {"failure"}
INVARIANT TransientRetried
CHECK_DEADLOCK FALSE
