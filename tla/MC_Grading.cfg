CONSTANTS
  Apis = {"v1beta1", "v1beta2", "alpha1", "alpha2"}
  Api <- MCApi
  Target = 37
  Currents = {35, 36}
  Advisories = {0, 34, 36, 38}
  Objects = {1, 2}
  Records <- MCRecords
  OtherFindings <- MCOtherFindings
  Cap = 1
SPECIFICATION GradingSpec
INVARIANTS GradingTypeOK StandingWriteIsCritical BandHasReason
