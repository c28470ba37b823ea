CONSTANTS
  Kinds <- MCKinds
  Facts <- MCFacts
  Clusters <- MCClusters
  Recorded <- MCRecorded
  Derived <- MCDerived
  Asked = {"Ingress", "ScaledObject", "ScaledJob"}
  Flaky = {"ScaledObject", "Deployment"}
  AddonRuleIds = {"nginx annotations", "selector", "served version", "missing CRD"}
  AddonRule <- MCAddonRule
  AddonVersions = {19, 36}
  Notes = {1, 2, 3, 4, 5, 6, 7, 8, 9}
  Note <- MCNote
  Paths <- MCPaths
  Required = 37
  Cap = 2
SPECIFICATION MCSpec
INVARIANTS TypeOK BreaksShow AlarmsTrue CardPerChange
