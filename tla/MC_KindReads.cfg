SPECIFICATION FairSpec
CONSTANTS
  Items <- MCItems
  AddonKinds <- MCAddonKinds
  RulePaths <- MCRulePaths
  AddonTyped = {"Ingress"}
  RuleTyped = {}
  Answers = {"rows", "error"}
  Limit = 2
  DiscoveryAnswers = {"full", "partial", "failed"}
INVARIANTS
  TypeOK
  PassesHonest
PROPERTIES
  FullStaysFull
  Returns
