SPECIFICATION FairSpec
CONSTANTS
  f1 = f1
  v1 = v1
  v2 = v2
  Inputs = {f1}
  Videos = {v1}
  Limits = {1}
  Cap = 2
  Retries = 1
  MaxWaiting = 2
  MaxHolds = 1
  Shared = TRUE
  ConvertShared = FALSE
  Features = {"cancel", "timeout", "cooldown", "skip", "stop", "toggle"}
  NoInput = NoInput
PROPERTIES
  HeldStartBegins
