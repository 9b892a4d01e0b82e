SPECIFICATION FairSpec
CONSTANTS
  v1 = v1
  v2 = v2
  p1 = p1
  p2 = p2
  Videos = {v1, v2}
  Playlists = {p1}
  Manual = {}
  Varied = {p1}
  Shorts = {}
  Backfills <- Everything
  Retries = 1
  MaxStrikes = 1
  MaxAgain = 1
  MaxChanges = 1
  Features = {"crash", "edit", "fault", "hidden", "lanes", "pushback"}
  None = None
INVARIANTS
  TypeOK
  LanesOwnTheirRows
PROPERTIES
  PauseHolds
  QueuedGetsItsTurn
  DownloadedIsFinished
