SPECIFICATION Spec
CONSTANTS
  Checks = {c1}
  Sweeps = {p1, p2}
  Visits = {v1, v2, v3}
  NoVisit = free
  Editors = {e1, e2}
  MaxVersions = 3
INVARIANT OneCall
PROPERTIES
  SweepAnswered
  BurstAnswered
  NoClobber
CHECK_DEADLOCK FALSE
