SPECIFICATION FairSpec
CONSTANTS
  Items <- MCTypes
  Rules <- MCRules
  Target = 38
  Others = {"resource/v1"}
  RequestOnly = {"SelfSubjectReview"}
  Objects <- MCObjects
  Pages = 2
  Limit = 2
  Answers = {"complete", "partial", "unavailable"}
INVARIANTS
  TypeOK
  ScanHonest
PROPERTIES
  Returns
