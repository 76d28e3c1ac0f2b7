SPECIFICATION Spec
CONSTANTS
  u1 = u1
  u2 = u2
  l1 = l1
  NoUser = NoUser
  Nothing = Nothing
  Empty = Empty
  Torn = Torn
  User = {u1, u2}
  Login = {l1}
  LoginUser <- OneLogin
INVARIANT
  KeptOnlyWhileOn
CHECK_DEADLOCK FALSE
