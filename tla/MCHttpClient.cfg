SPECIFICATION FairSpec
CONSTANTS
  Calls = {r1, w1}
  Writes = {w1}
  NoCall = none
  MaxTokens = 2
  Answers = {"ok", "unauthorized", "forbidden", "too_many", "down"}
  MaxRetries = 2
  BaseDelay = 2
  MaxDelay = 3
  Second = 2
  Width = 4
  Demands = {1, 2}
INVARIANTS
  AppliedOnce
  LoginsJustified
  RetryAfterHonoured
  AuthFaultConfirmed
PROPERTY CallEnds
