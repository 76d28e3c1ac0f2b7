\* One user, two requests, long enough for several pauses and an idle exit within
\* one: as in the defaults, IDLE_TIMEOUT is between the shortest and the longest.
SPECIFICATION FairSpec
CONSTANTS
  User = {u1}
  Request = {r1, r2}
  NoRequest = NoRequest
  CONFIRM_MISSES = 2
  CONFIRM_PAUSE_SECONDS = 2
  CONFIRM_PAUSE_MAX_SECONDS = 4
  WINDOW_SECONDS = 1
  OTHER_KEYS_ALLOWED = 0
  IDLE_TIMEOUT = 2
  MaxTime = 6
  MaxEnters = 1
INVARIANTS
  OneScanPerEnter
  OverlappedIsRefused
  RateLimited
PROPERTIES
  PauseHonoured
  EveryRequestAnswered
CHECK_DEADLOCK FALSE
