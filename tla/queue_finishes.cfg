SPECIFICATION FairSpec
CONSTANTS
  j1 = j1
  j2 = j2
  o1 = o1
  o2 = o2
  Jobs = {j1, j2}
  NumSlots = 2
  Outputs = {o1, o2}
  Standard <- TwoStandard
  Spellings <- OwnSpelling
  AutoTranslate = {FALSE, TRUE}
  Modes = {"single", "parallel", "split"}
  Requests <- SomeRuns
  Features = {"cancel", "title", "crash", "gate"}
  AllJobs = AllJobs
  NoRun = NoRun
  NoJob = NoJob
  NoSlot = NoSlot
  NoOutput = NoOutput
PROPERTIES
  InterruptedRunFinishes
  RunsEnd
  AskedJobsLeavePending
