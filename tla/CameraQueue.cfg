SPECIFICATION FairSpec
CONSTANTS
  r1 = r1
  r2 = r2
  r3 = r3
  s1 = s1
  s2 = s2
  NoRequest = NoRequest
  Request = {r1, r2, r3}
  Sender = {s1, s2}
  Connection <- SettingsPage
  Kinds <- Methods
  PAUSE_AFTER = 2
INVARIANTS
  OneCamera
  CancelReachesScan
  CameraStaysOff
PROPERTY
  EveryRequestAnswered
