SPECIFICATION Spec
CONSTANTS
  j1 = j1
  j2 = j2
  o1 = o1
  o2 = o2
  Jobs = {j1, j2}
  NumSlots = 2
  Outputs = {o1, o2}
  Standard <- TwoStandard
  Spellings <- OwnSpelling
  AutoTranslate = {FALSE}
  Modes = {"single", "parallel", "split"}
  Requests <- SomeRuns
  Features = {"cancel", "retry", "force", "stop", "switch", "gate", "crash", "faults"}
  AllJobs = AllJobs
  NoRun = NoRun
  NoJob = NoJob
  NoSlot = NoSlot
  NoOutput = NoOutput
INVARIANTS
  NoStrandedJob
  MarkerCoversRun
  SplitRunsAlone
  ActiveCoversWork
PROPERTIES
  InterruptedRunKept
  CancelHolds
