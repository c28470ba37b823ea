SPECIFICATION PoolFairSpec
CONSTANTS
  Items = {i1, i2, i3, i4}
  Limit = 2
  Answers = {"rows", "error"}
INVARIANTS
  PoolTypeOK
  LimiterBound
PROPERTIES
  ImplementsGather
