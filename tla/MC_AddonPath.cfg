SPECIFICATION Spec
CONSTANTS
  Addons <- MCAddons
  Targets <- MCTargets
  Tags <- MCTags
  Labels <- MCLabels
  MaxWorkloads = 2
INVARIANTS
  TypeOK
  LowestReadableWins
  HopReachesTarget
  HopRulesHonest
