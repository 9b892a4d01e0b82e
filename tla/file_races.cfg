SPECIFICATION FairSpec
CONSTANTS
  c1 = c1
  c2 = c2
  NumChunks = 2
  Conns = {c1, c2}
  Limit <- TwoAndOne
  Features = {"crash", "faults", "refine", "rekey", "stop"}
  NoConn = NoConn
  Nobody = Nobody
INVARIANTS
  TypeOK
  GateCountsCalls
  NeverTwiceOnOne
PROPERTIES
  WrittenOnce
  FailsOnlyWhenLost
  OutputIsComplete
  FileEnds
CHECK_DEADLOCK FALSE
