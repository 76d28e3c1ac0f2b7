SPECIFICATION AutoSpec
CONSTANTS
  u1 = u1
  u2 = u2
  l1 = l1
  NoUser = NoUser
  Nothing = Nothing
  Empty = Empty
  Torn = Torn
  Polls = 2
  Choosers = {u1}
  User = {u1, u2}
  Login = {l1}
  LoginUser <- OneLogin
INVARIANTS
  OffForgets
  KeptIsWhole
  WalletGetsOwn
  OwnLockKept
PROPERTY
  LockedOrEnded
