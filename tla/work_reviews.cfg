SPECIFICATION FairSpec
CONSTANTS
  a = a
  b = b
  pa = pa
  na = na
  pb = pb
  t1 = t1
  t2 = t2
  k1 = k1
  Inputs = {a, b}
  Reviewed = {a}
  Plain <- PlainNames
  Named <- SameNames
  Planned <- AllTargets
  Targets = {t1}
  Keys = {k1}
  MaxItems = 2
  MaxClock = 2
  Features = {"cancel", "crash", "edit", "faults", "legacy"}
  NoInput = NoInput
  NoPath = NoPath
  NoKey = NoKey
INVARIANTS
  OneActivePerInput
PROPERTIES
  OnlyPermittedStarts
  CancelSticks
  KeepsWorkPromise
  QueuedWorkMoves
