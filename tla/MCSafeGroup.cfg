SPECIFICATION FairSpec
CONSTANTS
  Workers = {w1, w2}
  Waiters = {q1, q2}
  MaxWaits = 4
INVARIANTS
  DrainComplete
  CloseIsSafe
  WakeupPending
PROPERTY
  RefinesDrain
