SPECIFICATION FairSpec
CONSTANTS
  a = a
  b = b
  pa = pa
  na = na
  pb = pb
  t1 = t1
  t2 = t2
  k1 = k1
  Inputs = {a}
  Reviewed = {a}
  Plain <- PlainNames
  Named <- LanguageNames
  Planned <- AllTargets
  Targets = {t1}
  Keys = {k1}
  MaxItems = 2
  MaxClock = 3
  Features = {"crash"}
  NoInput = NoInput
  NoPath = NoPath
  NoKey = NoKey
PROPERTIES
  OnlyPermittedStarts
