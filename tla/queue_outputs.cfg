SPECIFICATION Spec
CONSTANTS
  j1 = j1
  j2 = j2
  o1 = o1
  o2 = o2
  Jobs = {j1, j2}
  NumSlots = 2
  Outputs = {o1, o2}
  Standard <- TwoStandard
  Spellings <- TwoSpellings
  AutoTranslate = {FALSE}
  Modes = {"parallel"}
  Requests <- AnyRun
  Features = {"retry", "force", "retarget", "delete", "files", "offline", "stop", "review"}
  AllJobs = AllJobs
  NoRun = NoRun
  NoJob = NoJob
  NoSlot = NoSlot
  NoOutput = NoOutput
INVARIANTS
  OneWriterPerOutput
PROPERTIES
  NoStartUnderReview
  KeepsLedgerPromise
