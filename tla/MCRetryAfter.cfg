SPECIFICATION Spec
CONSTANTS
  Calls = {r1}
  Writes = {}
  NoCall = none
  MaxTokens = 1
  Answers = {"ok", "unauthorized", "too_many"}
  MaxRetries = 1
  BaseDelay = 2
  MaxDelay = 3
  Second = 2
  Width = 4
  Demands = {1, 2, 4}
INVARIANT RetryAfterHonoured
