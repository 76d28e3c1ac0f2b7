SPECIFICATION FairSpec
CONSTANTS
  MAX_RETRIES = 5
INVARIANTS
  FaceBehindGrant
  PasswordGoesOn
  NoThreadLeft
PROPERTY EndsByItself
CHECK_DEADLOCK FALSE
