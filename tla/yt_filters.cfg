SPECIFICATION Spec
CONSTANTS
  v1 = v1
  v2 = v2
  p1 = p1
  p2 = p2
  Videos = {v1}
  Playlists = {p1, p2}
  Manual = {p2}
  Varied = {p1}
  Shorts = {v1}
  Backfills <- AllOrNothing
  Retries = 1
  MaxStrikes = 1
  MaxAgain = 1
  MaxChanges = 1
  Features = {"backfill", "content", "crash", "fault", "missing", "partial", "unfollow", "user"}
  None = None
INVARIANTS
  FirstSyncIsOwn
PROPERTIES
  UsersChoiceHolds
