SPECIFICATION FairSpec
CONSTANTS
  w1 = w1
  w2 = w2
  None = None
  User = User
  Watchers = {w1, w2}
  Window = 1
  Cap = 2
  CheckEvery = 2
  Interval = 5
  Backoff = 1
  MaxDelay = 1
  AuthDelay = 1
  MaxFailures = 1
  MaxChanges = 2
  MaxRestarts = 2
INVARIANTS
  Prompt
  StopsInTime
PROPERTIES
  Delivered
