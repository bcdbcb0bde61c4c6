SPECIFICATION CacheSpec
CONSTANTS
  Keys = {k1}
  Callers = {"c1", "c2"}
  Revalidators = {"r1"}
  Types = {"T"}
  TypeOf <- OneType
  MaxEntries = 1
  MaxObjs = 1
  MaxVersion = 1
  MaxOps = 3
INVARIANT RefreshOwned
CHECK_DEADLOCK FALSE
