SPECIFICATION StaleStateSpec
CONSTANTS
  Browsers = {b1, b2}
  NoBrowser = none
  Calls = {x1, x2}
  MaxAttempts = 2
  MaxCodes = 1
  MaxSessions = 1
  Keys = {k1, k2}
  Callers = {"c1", "c2"}
  Revalidators = {"r1", "r2"}
  Types = {"T", "U"}
  TypeOf <- CollidingTypes
  MaxEntries = 1
  MaxObjs = 3
  MaxVersion = 2
  MaxOps = 3
SYMMETRY Symmetry
INVARIANTS
  OwnHandshake
  SingleUse
  LogoutSignsOut
  ReadYourWrites
  OneRefresh
CHECK_DEADLOCK FALSE
