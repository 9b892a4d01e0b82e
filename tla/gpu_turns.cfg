SPECIFICATION FairSpec
CONSTANTS
  f1 = f1
  v1 = v1
  v2 = v2
  Inputs = {f1, v1}
  Videos = {v1}
  Limits = {1, 2}
  Cap = 1
  Retries = 1
  MaxWaiting = 1
  MaxHolds = 2
  Shared = TRUE
  ConvertShared = TRUE
  Features = {"cancel", "timeout", "convert", "limits", "stop", "unfollow"}
  NoInput = NoInput
INVARIANTS
  SharedGpuIsExclusive
  OneRunPerInput
PROPERTIES
  RunsSettle
