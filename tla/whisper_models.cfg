SPECIFICATION Spec
CONSTANTS
  m1 = m1
  m2 = m2
  r1 = r1
  r2 = r2
  c1 = c1
  c2 = c2
  c3 = c3
  Models = {m1, m2}
  Managed = {m1}
  Requests = {r1, r2}
  Wants = {m1, m2}
  ModelOf <- SameModel
  Instances = {c1, c2, c3}
  MaxRevisions = 2
  Delays = 1
  Features = {"cancel", "crash", "fault", "shutdown"}
  None = None
SYMMETRY AnyRequest
INVARIANTS
  FilesHaveOneOwner
  LeasedStaysLoaded
  NothingElseInMemory
  CheckpointIsTrue
PROPERTIES
  SuccessIsReal
