SPECIFICATION CollectFairSpec
CONSTANTS
  Items = {n1, n2, n3}
  Limit = 2
  Answers = {"answered", "refused"}
  Lists <- MCLists
  Optional = {"storage"}
INVARIANTS
  CollectTypeOK
  OutcomesHonest
PROPERTIES
  SnapshotStable
  Ends
